-------------------------- MODULE FlowCacheProofs ---------------------------
(***************************************************************************)
(* Proofs about FlowCache, for any number of entries, flows and rules.     *)
(***************************************************************************)
EXTENDS FlowCache, FiniteSetTheorems, SequenceTheorems, TLAPS

(* A list without the element at one place.                                *)
LEMMA RemoveAtProperties ==
    ASSUME NEW S, NEW s \in Seq(S), NEW i \in 1 .. Len(s)
    PROVE  /\ RemoveAt(s, i) \in Seq(S)
           /\ Len(RemoveAt(s, i)) = Len(s) - 1
           /\ \A j \in 1 .. Len(s) - 1 : RemoveAt(s, i)[j] = IF j < i THEN s[j] ELSE s[j + 1]
<1> DEFINE a == SubSeq(s, 1, i - 1)
           b == SubSeq(s, i + 1, Len(s))
<1>1. Len(s) \in Nat /\ i \in Nat
  OBVIOUS
<1>2. a \in Seq(S) /\ Len(a) = i - 1 /\ \A j \in 1 .. i - 1 : a[j] = s[j]
  BY <1>1, SMTT(60), ZenonT(30)
<1>3. b \in Seq(S) /\ Len(b) = Len(s) - i /\ \A j \in 1 .. Len(s) - i : b[j] = s[i + j]
  BY <1>1, SMTT(60), ZenonT(30)
<1> HIDE DEF a, b
<1>4. /\ a \o b \in Seq(S) /\ Len(a \o b) = Len(s) - 1
      /\ \A j \in 1 .. Len(s) - 1 : (a \o b)[j] = IF j <= Len(a) THEN a[j] ELSE b[j - Len(a)]
  <2>1. /\ a \o b \in Seq(S) /\ Len(a \o b) = Len(a) + Len(b)
        /\ \A j \in 1 .. Len(a) + Len(b) :
              (a \o b)[j] = IF j <= Len(a) THEN a[j] ELSE b[j - Len(a)]
    BY <1>2, <1>3, ConcatProperties, ZenonT(30)
  <2>2. Len(a) + Len(b) = Len(s) - 1
    BY <1>1, <1>2, <1>3, SMTT(60), ZenonT(30)
  <2> QED
    BY <2>1, <2>2, ZenonT(30)
<1>5. ASSUME NEW j \in 1 .. Len(s) - 1
      PROVE  (a \o b)[j] = IF j < i THEN s[j] ELSE s[j + 1]
  <2>1. CASE j < i
    BY <1>1, <1>2, <1>4, <2>1, SMTT(60), ZenonT(30)
  <2>2. CASE ~(j < i)
    <3>1. j - Len(a) \in 1 .. Len(s) - i /\ i + (j - Len(a)) = j + 1
      BY <1>1, <1>2, <2>2, SMTT(60), ZenonT(30)
    <3> QED
      BY <1>1, <1>2, <1>3, <1>4, <2>2, <3>1, SMTT(60), ZenonT(30)
  <2> QED
    BY <2>1, <2>2, ZenonT(30)
<1> QED
  BY <1>4, <1>5, ZenonT(30) DEF RemoveAt, a, b

(* list_remove keeps the order of the others.                              *)
LEMMA Unlinked ==
    ASSUME NEW S, NEW s \in Seq(S), Once(s), NEW e \in S, Contains(s, e)
    PROVE  LET u == list_remove(s, e)
           IN  /\ u \in Seq(S) /\ Once(u) /\ Len(u) = Len(s) - 1
               /\ ToSet(u) = ToSet(s) \ {e}
               /\ \A x, y : x # e /\ y # e => (Before(u, x, y) <=> Before(s, x, y))
<1> DEFINE k == CHOOSE i \in DOMAIN s : s[i] = e
           u == RemoveAt(s, k)
           old(j) == IF j < k THEN j ELSE j + 1
           new(j) == IF j < k THEN j ELSE j - 1
<1>1. DOMAIN s = 1 .. Len(s) /\ Len(s) \in Nat
  OBVIOUS
<1>2. k \in 1 .. Len(s) /\ s[k] = e
  BY <1>1, ZenonT(30) DEF Contains
<1> HIDE DEF k
<1>3. /\ u \in Seq(S) /\ Len(u) = Len(s) - 1 /\ DOMAIN u = 1 .. Len(s) - 1
      /\ \A j \in 1 .. Len(s) - 1 : u[j] = IF j < k THEN s[j] ELSE s[j + 1]
  BY <1>2, RemoveAtProperties, SMTT(60), ZenonT(30)
<1> HIDE DEF u
<1>4. ASSUME NEW j \in 1 .. Len(s) - 1
      PROVE  old(j) \in 1 .. Len(s) /\ old(j) # k /\ u[j] = s[old(j)]
  BY ONLY <1>1, <1>2, <1>3, SMTT(60)
<1>5. ASSUME NEW j \in 1 .. Len(s), s[j] # e
      PROVE  new(j) \in 1 .. Len(s) - 1 /\ u[new(j)] = s[j]
  BY ONLY <1>1, <1>2, <1>3, <1>5, SMTT(60), ZenonT(30)
<1>6. Once(u)
  <2>1. ASSUME NEW i \in 1 .. Len(s) - 1, NEW j \in 1 .. Len(s) - 1, u[i] = u[j] PROVE i = j
    <3>1. old(i) = old(j)
      <4>1. old(i) \in 1 .. Len(s) /\ old(j) \in 1 .. Len(s) /\ s[old(i)] = s[old(j)]
        BY <1>4, <2>1, ZenonT(30)
      <4> HIDE DEF old
      <4> QED
        BY <1>1, <4>1, ZenonT(30) DEF Once
    <3> QED
      BY ONLY <1>1, <1>2, <3>1, SMTT(60), ZenonT(30)
  <2> QED
    BY <1>3, <2>1, ZenonT(30) DEF Once
<1>7. \A j \in 1 .. Len(s) : j # k => s[j] # e
  BY <1>1, <1>2, ZenonT(30) DEF Once
<1>8. ToSet(u) = ToSet(s) \ {e}
  <2>1. ASSUME NEW x \in ToSet(u) PROVE x \in ToSet(s) \ {e}
    <3>1. PICK j \in 1 .. Len(s) - 1 : u[j] = x
      BY ONLY <1>3, ZenonT(30) DEF ToSet
    <3>2. old(j) \in 1 .. Len(s) /\ old(j) # k /\ s[old(j)] = x
      BY <1>4, <3>1, ZenonT(30)
    <3> HIDE DEF old
    <3> QED
      BY <1>1, <1>7, <3>2, ZenonT(30) DEF ToSet
  <2>2. ASSUME NEW x \in ToSet(s), x # e PROVE x \in ToSet(u)
    <3>1. PICK j \in 1 .. Len(s) : s[j] = x
      BY ONLY <1>1, ZenonT(30) DEF ToSet
    <3>2. new(j) \in 1 .. Len(s) - 1 /\ u[new(j)] = x
      BY <1>5, <2>2, <3>1, ZenonT(30)
    <3> HIDE DEF new
    <3> QED
      BY <1>3, <3>2, ZenonT(30) DEF ToSet
  <2> QED
    BY <2>1, <2>2, ZenonT(30)
<1>9. ASSUME NEW x, NEW y, x # e, y # e, Before(u, x, y) PROVE Before(s, x, y)
  <2>1. PICK i \in 1 .. Len(s) - 1, j \in 1 .. Len(s) - 1 : i < j /\ u[i] = x /\ u[j] = y
    BY <1>3, <1>9, ZenonT(30) DEF Before
  <2>2. /\ old(i) \in 1 .. Len(s) /\ s[old(i)] = x /\ old(j) \in 1 .. Len(s) /\ s[old(j)] = y
    BY <1>4, <2>1, ZenonT(30)
  <2>3. old(i) < old(j)
    BY <1>1, <1>2, <2>1, SMTT(60), ZenonT(30)
  <2> HIDE DEF old
  <2> QED
    BY <1>1, <2>2, <2>3, ZenonT(30) DEF Before
<1>10. ASSUME NEW x, NEW y, x # e, y # e, Before(s, x, y) PROVE Before(u, x, y)
  <2>1. PICK i \in 1 .. Len(s), j \in 1 .. Len(s) : i < j /\ s[i] = x /\ s[j] = y
    BY <1>1, <1>10, ZenonT(30) DEF Before
  <2>2. /\ new(i) \in 1 .. Len(s) - 1 /\ u[new(i)] = x /\ new(j) \in 1 .. Len(s) - 1 /\ u[new(j)] = y
    BY <1>5, <1>10, <2>1, ZenonT(30)
  <2>3. i # k /\ j # k
    BY <1>2, <1>10, <2>1, ZenonT(30)
  <2>4. new(i) < new(j)
    BY <1>1, <1>2, <2>1, <2>3, SMTT(60), ZenonT(30)
  <2> HIDE DEF new
  <2> QED
    BY <1>3, <2>2, <2>4, ZenonT(30) DEF Before
<1>11. u = list_remove(s, e)
  BY ZenonT(30) DEF u, k, list_remove
<1> QED
  BY <1>3, <1>6, <1>8, <1>9, <1>10, <1>11, ZenonT(30)

(* An element that is moved to the back comes after every other, and the   *)
(* others stay in their order.                                             *)
LEMMA ToBackProperties ==
    ASSUME NEW S, NEW s \in Seq(S), Once(s), NEW e \in S
    PROVE  LET t == ToBack(s, e)
           IN  /\ t \in Seq(S) /\ Once(t)
               /\ ToSet(t) = ToSet(s) \cup {e}
               /\ e \in ToSet(s) => Len(t) = Len(s)
               /\ \A x, y : x # e /\ y # e => (Before(t, x, y) <=> Before(s, x, y))
               /\ \A x \in ToSet(s) \ {e} : Before(t, x, e)
               /\ \A x : ~Before(t, e, x)
<1> DEFINE u == IF Contains(s, e) THEN list_remove(s, e) ELSE s
           t == Append(u, e)
           n == Len(u)
<1>1. DOMAIN s = 1 .. Len(s) /\ Len(s) \in Nat
  OBVIOUS
<1>2. Contains(s, e) <=> e \in ToSet(s)
  BY ONLY <1>1, ZenonT(30) DEF Contains, ToSet
<1>3. /\ u \in Seq(S) /\ Once(u) /\ ToSet(u) = ToSet(s) \ {e}
      /\ e \in ToSet(s) => Len(u) = Len(s) - 1
      /\ \A x, y : x # e /\ y # e => (Before(u, x, y) <=> Before(s, x, y))
  <2>1. CASE Contains(s, e)
    BY <1>2, <2>1, Unlinked, SMTT(60), ZenonT(30)
  <2>2. CASE ~Contains(s, e)
    BY <1>2, <2>2, ZenonT(30)
  <2> QED
    BY <2>1, <2>2, ZenonT(30)
<1>4. t = ToBack(s, e)
  BY DEF ToBack
<1> HIDE DEF u
<1>5. n \in Nat /\ DOMAIN u = 1 .. n /\ n = Len(u)
  BY ONLY <1>3, SMTT(60)
<1>6. /\ t \in Seq(S) /\ Len(t) = n + 1 /\ DOMAIN t = 1 .. n + 1
      /\ t[n + 1] = e /\ \A j \in 1 .. n : t[j] = u[j]
  BY ONLY <1>3, <1>5, SMTT(60), ZenonT(30)
<1> HIDE DEF t, n
<1>7. \A j \in 1 .. n : t[j] # e
  <2>1. ASSUME NEW j \in 1 .. n PROVE t[j] # e
    <3>1. u[j] \in ToSet(u)
      BY <1>5, ZenonT(30) DEF ToSet
    <3> QED
      BY <1>3, <1>6, <3>1, ZenonT(30)
  <2> QED
    BY <2>1, ZenonT(30)
<1>8. Once(t)
  <2>1. ASSUME NEW i \in 1 .. n + 1, NEW j \in 1 .. n + 1, t[i] = t[j] PROVE i = j
    <3>1. CASE i = n + 1 \/ j = n + 1
      BY ONLY <1>5, <1>6, <1>7, <2>1, <3>1, SMTT(60), ZenonT(30)
    <3>2. CASE i \in 1 .. n /\ j \in 1 .. n
      BY ONLY <1>3, <1>5, <1>6, <2>1, <3>2, ZenonT(30) DEF Once
    <3> QED
      BY ONLY <1>5, <3>1, <3>2, SMTT(60), ZenonT(30)
  <2> QED
    BY <1>6, <2>1, ZenonT(30) DEF Once
<1>9. ToSet(t) = ToSet(s) \cup {e}
  <2>1. ASSUME NEW x \in ToSet(t) PROVE x \in ToSet(u) \cup {e}
    <3>1. PICK j \in 1 .. n + 1 : t[j] = x
      BY <1>6 DEF ToSet
    <3>2. CASE j = n + 1
      BY <1>6, <3>1, <3>2, ZenonT(30)
    <3>3. CASE j \in 1 .. n
      BY <1>5, <1>6, <3>1, <3>3, ZenonT(30) DEF ToSet
    <3> QED
      BY ONLY <1>5, <3>2, <3>3, SMTT(60), ZenonT(30)
  <2>2. ASSUME NEW x \in ToSet(u) PROVE x \in ToSet(t)
    <3>1. PICK j \in 1 .. n : u[j] = x
      BY ONLY <1>5, ZenonT(30) DEF ToSet
    <3>2. j \in 1 .. n + 1 /\ t[j] = x
      BY <1>5, <1>6, <3>1, SMTT(60), ZenonT(30)
    <3> QED
      BY <1>6, <3>2, ZenonT(30) DEF ToSet
  <2>3. e \in ToSet(t)
    <3>1. n + 1 \in 1 .. n + 1
      BY <1>5
    <3> QED
      BY <1>6, <3>1, ZenonT(30) DEF ToSet
  <2> QED
    BY <1>3, <2>1, <2>2, <2>3, SMTT(60), ZenonT(30)
<1>10. ASSUME NEW x, NEW y, x # e, y # e PROVE Before(t, x, y) <=> Before(u, x, y)
  <2>1. ASSUME Before(t, x, y) PROVE Before(u, x, y)
    <3>1. PICK i \in 1 .. n + 1, j \in 1 .. n + 1 : i < j /\ t[i] = x /\ t[j] = y
      BY <1>6, <2>1, ZenonT(30) DEF Before
    <3>2. i \in 1 .. n /\ j \in 1 .. n
      BY <1>5, <1>6, <1>10, <3>1, SMTT(60), ZenonT(30)
    <3> QED
      BY ONLY <1>5, <1>6, <3>1, <3>2, ZenonT(30) DEF Before
  <2>2. ASSUME Before(u, x, y) PROVE Before(t, x, y)
    <3>1. PICK i \in 1 .. n, j \in 1 .. n : i < j /\ u[i] = x /\ u[j] = y
      BY <1>5, <2>2, ZenonT(30) DEF Before
    <3>2. i \in 1 .. n + 1 /\ j \in 1 .. n + 1
      BY <1>5
    <3> QED
      BY <1>6, <3>1, <3>2, ZenonT(30) DEF Before
  <2> QED
    BY <2>1, <2>2, ZenonT(30)
<1>11. ASSUME NEW x \in ToSet(s) \ {e} PROVE Before(t, x, e)
  <2>1. PICK i \in 1 .. n : u[i] = x
    BY <1>3, <1>5, ZenonT(30) DEF ToSet
  <2>2. i \in 1 .. n + 1 /\ n + 1 \in 1 .. n + 1 /\ i < n + 1
    BY <1>5
  <2> QED
    BY <1>6, <2>1, <2>2, ZenonT(30) DEF Before
<1>12. ASSUME NEW x PROVE ~Before(t, e, x)
  <2> SUFFICES ASSUME NEW i \in 1 .. n + 1, NEW j \in 1 .. n + 1, i < j, t[i] = e PROVE FALSE
    BY <1>6, ZenonT(30) DEF Before
  <2>1. i \in 1 .. n
    BY <1>5
  <2> QED
    BY <1>7, <2>1, ZenonT(30)
<1>13. ASSUME e \in ToSet(s) PROVE Len(t) = Len(s)
  <2>1. n = Len(s) - 1 /\ Len(t) = n + 1
    BY <1>3, <1>5, <1>6, <1>13, ZenonT(30)
  <2> QED
    BY ONLY <1>1, <2>1, SMTT(60)
<1> QED
  BY <1>3, <1>4, <1>6, <1>8, <1>9, <1>10, <1>11, <1>12, <1>13, ZenonT(30)

-----------------------------------------------------------------------------
(* What the constants stand for.                                           *)
Sizes ==
    /\ IsFiniteSet(Entries) /\ Entries # {}
    /\ Hashes \subseteq Nat /\ Rules \subseteq Nat \ {0}
    /\ Modulus \in Nat \ {0}

(* The checksum stays in its range, whatever is added or taken away.       *)
LEMMA Sums ==
    ASSUME Sizes, CacheInv
    PROVE  /\ \A h \in Hashes \cup {NULL}, rule \in Rules \cup {NULL} :
                 /\ INSERT(hash_int(h, rule)) \in 0 .. Modulus - 1
                 /\ DELETE(hash_int(h, rule)) \in 0 .. Modulus - 1
           /\ \A e \in Entries : DELETE(cache_entry_hash(e)) \in 0 .. Modulus - 1
<1>1. Modulus \in Nat \ {0} /\ checksum \in Int
  BY DEF Sizes, CacheInv, CacheTypeOK
<1>2. \A x \in Int : x % Modulus \in 0 .. Modulus - 1
  BY ONLY <1>1, SMTT(60), ZenonT(30)
<1>3. ASSUME NEW h \in Hashes \cup {NULL}, NEW rule \in Rules \cup {NULL}
      PROVE  /\ INSERT(hash_int(h, rule)) \in 0 .. Modulus - 1
             /\ DELETE(hash_int(h, rule)) \in 0 .. Modulus - 1
  <2>1. h \in Nat /\ rule \in Nat
    BY DEF Sizes, NULL
  <2>2. hash_int(h, rule) \in Int
    BY ONLY <1>1, <1>2, <2>1, SMTT(60), ZenonT(30) DEF hash_int
  <2> QED
    BY ONLY <1>1, <1>2, <2>2, SMTT(60), ZenonT(30) DEF INSERT, DELETE
<1>4. ASSUME NEW e \in Entries PROVE DELETE(cache_entry_hash(e)) \in 0 .. Modulus - 1
  <2>1. filed[e] \in Hashes \cup {NULL} /\ cr[e] \in Rules \cup {NULL}
    BY DEF CacheInv, CacheTypeOK
  <2> QED
    BY <1>3, <2>1, ZenonT(30) DEF cache_entry_hash
<1> QED
  BY <1>3, <1>4, ZenonT(30)

(* An entry of lru_list is moved to its back: the list stays whole.        *)
LEMMA ListKept ==
    ASSUME CacheInv, NEW e \in Entries, lru_list' = ToBack(lru_list, e)
    PROVE  /\ lru_list' \in Seq(Entries) /\ Once(lru_list')
           /\ ToSet(lru_list') = Entries /\ Len(lru_list') = Cardinality(Entries)
<1>1. /\ lru_list \in Seq(Entries) /\ Once(lru_list) /\ ToSet(lru_list) = Entries
      /\ Len(lru_list) = Cardinality(Entries)
  BY DEF CacheInv, CacheTypeOK, LruInv, EntriesAgree
<1>2. /\ lru_list' \in Seq(Entries) /\ Once(lru_list')
      /\ ToSet(lru_list') = ToSet(lru_list) \cup {e}
      /\ e \in ToSet(lru_list) => Len(lru_list') = Len(lru_list)
  BY ONLY <1>1, ToBackProperties, lru_list' = ToBack(lru_list, e), e \in Entries, ZenonT(30)
<1> QED
  BY <1>1, <1>2, ZenonT(30)

(* An entry is used: it moves to the back of both lists.                   *)
LEMMA Used ==
    ASSUME CacheInv, NEW e \in Entries, lru_list' = ToBack(lru_list, e), recency' = ToBack(recency, e),
           entries' \subseteq entries \cup {e}
    PROVE  LruInv' /\ recency' \in Seq(Entries)
<1>1. /\ lru_list \in Seq(Entries) /\ Once(lru_list) /\ entries \subseteq ToSet(recency)
      /\ recency \in Seq(Entries) /\ Once(recency)
      /\ \A x, y \in entries : Before(lru_list, x, y) => Before(recency, x, y)
  BY DEF CacheInv, CacheTypeOK, LruInv
<1>2. /\ Once(lru_list')
      /\ \A x, y : x # e /\ y # e => (Before(lru_list', x, y) <=> Before(lru_list, x, y))
      /\ \A x : ~Before(lru_list', e, x)
  BY <1>1, ToBackProperties, ZenonT(30)
<1>3. /\ recency' \in Seq(Entries) /\ Once(recency') /\ ToSet(recency') = ToSet(recency) \cup {e}
      /\ \A x, y : x # e /\ y # e => (Before(recency', x, y) <=> Before(recency, x, y))
      /\ \A x \in ToSet(recency) \ {e} : Before(recency', x, e)
  BY <1>1, ToBackProperties, ZenonT(30)
<1>4. ASSUME NEW x \in entries', NEW y \in entries', Before(lru_list', x, y)
      PROVE  Before(recency', x, y)
  <2>1. x # e
    BY <1>2, <1>4, ZenonT(30)
  <2>2. CASE y = e
    BY <1>1, <1>3, <2>1, <2>2, ZenonT(30)
  <2>3. CASE y # e
    BY ONLY <1>1, <1>2, <1>3, <1>4, <2>1, <2>3, entries' \subseteq entries \cup {e}, ZenonT(30)
  <2> QED
    BY <2>2, <2>3, ZenonT(30)
<1> QED
  BY <1>1, <1>2, <1>3, <1>4, ZenonT(30) DEF LruInv

LEMMA BeginStep ==
    ASSUME Sizes, CacheInv, NEW h \in Hashes, NEW rule \in Rules, BeginInsert(h, rule)
    PROVE  CacheInv' /\ TakesLeastRecent
<1>1. CacheTypeOK /\ EntriesAgree /\ LruInv /\ Idle
  BY DEF CacheInv, BeginInsert
<1> DEFINE n == Len(lru_list)
<1>2. /\ lru_list \in Seq(Entries) /\ n \in Nat \ {0} /\ DOMAIN lru_list = 1 .. n
      /\ Head(lru_list) = lru_list[1] /\ lru_list[1] \in Entries
  <2>1. lru_list \in Seq(Entries) /\ lru_list # <<>>
    BY <1>1 DEF CacheTypeOK, EntriesAgree, Sizes, ToSet
  <2> QED
    BY <2>1, SMTT(60)
<1> PICK e \in Entries : e = Head(lru_list) /\ e = lru_list[1]
  BY <1>2, ZenonT(30)
<1>3. /\ inserting' = [entry |-> e, hash |-> h, rule |-> rule]
      /\ UNCHANGED <<filed, ut_filed, lru_list, recency>>
      /\ cr[e] # NULL => checksum' = DELETE(cache_entry_hash(e)) /\ remove_cache_entry({e})
      /\ cr[e] = NULL => UNCHANGED <<checksum, entries, ut_crs, cr>>
  BY DEF BeginInsert
<1>4. /\ checksum' \in 0 .. Modulus - 1
      /\ cr' \in [Entries -> Rules \cup {NULL}] /\ cr'[e] = NULL
      /\ entries' = entries \ {e} /\ ut_crs' = entries'
      /\ entries' = {x \in Entries : cr'[x] # NULL}
  <2>1. CASE cr[e] = NULL
    BY <1>1, <1>3, <2>1, ZenonT(30) DEF CacheTypeOK, EntriesAgree
  <2>2. CASE cr[e] # NULL
    <3>1. /\ checksum' = DELETE(cache_entry_hash(e)) /\ entries' = entries \ {e}
          /\ ut_crs' = ut_crs \ {e}
          /\ cr' = [x \in Entries |-> IF x \in {e} THEN NULL ELSE cr[x]]
      BY <1>3, <2>2, ZenonT(30) DEF remove_cache_entry
    <3>2. cr' \in [Entries -> Rules \cup {NULL}] /\ cr'[e] = NULL
      BY <1>1, <3>1, ZenonT(30) DEF CacheTypeOK
    <3>3. checksum' \in 0 .. Modulus - 1
      BY <3>1, Sums, ZenonT(30)
    <3>4. entries' = {x \in Entries : cr'[x] # NULL} /\ ut_crs' = entries'
      BY <1>1, <3>1, ZenonT(30) DEF EntriesAgree
    <3> QED
      BY <3>1, <3>2, <3>3, <3>4, ZenonT(30)
  <2> QED
    BY <2>1, <2>2, ZenonT(30)
<1>5. inserting' \in [entry : Entries, hash : Hashes, rule : Rules] /\ inserting'.entry = e
  BY <1>3, ZenonT(30)
<1>6. CacheTypeOK'
  BY <1>1, <1>3, <1>4, <1>5, ZenonT(30) DEF CacheTypeOK
<1>7. EntriesAgree'
  BY <1>1, <1>3, <1>4, <1>5, ZenonT(30) DEF EntriesAgree
<1>8. LruInv'
  BY <1>1, <1>3, <1>4, ZenonT(30) DEF LruInv
<1>9. ASSUME cr[e] # NULL, NEW f \in entries \ {e} PROVE Before(recency, e, f)
  <2>1. e \in entries /\ f \in ToSet(lru_list)
    BY <1>1, <1>9, ZenonT(30) DEF EntriesAgree
  <2>2. PICK j \in 1 .. n : lru_list[j] = f
    BY <1>2, <2>1, ZenonT(30) DEF ToSet
  <2>3. 1 \in 1 .. n /\ 1 < j
    BY <1>2, <2>2, SMTT(60)
  <2>4. Before(lru_list, e, f)
    BY <1>2, <2>2, <2>3, ZenonT(30) DEF Before
  <2> QED
    BY <1>1, <2>1, <2>4, ZenonT(30) DEF LruInv
<1>10. TakesLeastRecent
  BY <1>5, <1>9, ZenonT(30) DEF TakesLeastRecent
<1> QED
  BY <1>6, <1>7, <1>8, <1>10, ZenonT(30) DEF CacheInv

LEMMA FinishStep ==
    ASSUME Sizes, CacheInv, FinishInsert
    PROVE  CacheInv'
<1>1. CacheTypeOK /\ EntriesAgree /\ LruInv
  BY ZenonT(30) DEF CacheInv
<1>2. inserting \in [entry : Entries, hash : Hashes, rule : Rules]
  BY <1>1, ZenonT(30) DEF FinishInsert, CacheTypeOK
<1> PICK e \in Entries : e = inserting.entry
  BY ONLY <1>2, ZenonT(30)
<1>3. inserting.hash \in Hashes /\ inserting.rule \in Rules /\ inserting.rule # NULL
  BY <1>2, ZenonT(30) DEF Sizes, NULL
<1>4. /\ cr' = [cr EXCEPT ![e] = inserting.rule]
      /\ filed' = [filed EXCEPT ![e] = inserting.hash]
      /\ ut_filed' = [ut_filed EXCEPT ![e] = inserting.hash]
      /\ entries' = entries \cup {e} /\ ut_crs' = ut_crs \cup {e}
      /\ lru_list' = ToBack(lru_list, e) /\ recency' = ToBack(recency, e)
      /\ checksum' = INSERT(hash_int(inserting.hash, inserting.rule))
      /\ inserting' = NotInserting
  BY DEF FinishInsert
<1>5. LruInv' /\ recency' \in Seq(Entries)
  BY <1>4, Used, ZenonT(30)
<1>6. /\ lru_list' \in Seq(Entries)
      /\ ToSet(lru_list') = Entries /\ Len(lru_list') = Cardinality(Entries)
  BY <1>4, ListKept, ZenonT(30)
<1>7. checksum' \in 0 .. Modulus - 1
  BY <1>3, <1>4, Sums, ZenonT(30)
<1>8. Idle'
  BY <1>4, ZenonT(30) DEF Idle
<1>9. CacheTypeOK'
  BY ONLY <1>1, <1>3, <1>4, <1>5, <1>6, <1>7, <1>8, ZenonT(30) DEF CacheTypeOK
<1>10. EntriesAgree'
  <2>1. \A x \in Entries : cr'[x] # NULL <=> x = e \/ cr[x] # NULL
    BY <1>1, <1>3, <1>4, ZenonT(30) DEF CacheTypeOK
  <2>2. entries' = {x \in Entries : cr'[x] # NULL} /\ entries' = ut_crs'
    BY <1>1, <1>4, <2>1, ZenonT(30) DEF EntriesAgree
  <2> QED
    BY <1>6, <1>8, <2>2, ZenonT(30) DEF EntriesAgree
<1> QED
  BY <1>5, <1>9, <1>10, ZenonT(30) DEF CacheInv

LEMMA RemoveStep ==
    ASSUME Sizes, CacheInv, NEW e \in ut_crs, Idle,
           checksum' = DELETE(cache_entry_hash(e)), remove_cache_entry({e}),
           lru_list' = ToBack(lru_list, e), UNCHANGED <<filed, ut_filed, inserting, recency>>
    PROVE  CacheInv'
<1>1. CacheTypeOK /\ EntriesAgree /\ LruInv /\ e \in Entries
  BY DEF CacheInv, CacheTypeOK
<1>2. /\ lru_list' \in Seq(Entries) /\ Once(lru_list')
      /\ ToSet(lru_list') = Entries /\ Len(lru_list') = Cardinality(Entries)
  BY <1>1, ListKept, ZenonT(30)
<1>3. \A x, y : x # e /\ y # e => (Before(lru_list', x, y) <=> Before(lru_list, x, y))
  BY <1>1, ToBackProperties, ZenonT(30) DEF CacheTypeOK, LruInv
<1>4. entries' = entries \ {e} /\ Idle' /\ checksum' \in 0 .. Modulus - 1
  BY <1>1, Sums, ZenonT(30) DEF remove_cache_entry, Idle
<1>5. CacheTypeOK'
  BY <1>1, <1>2, <1>4, ZenonT(30) DEF CacheTypeOK, remove_cache_entry
<1>6. EntriesAgree'
  BY <1>1, <1>2, <1>4, ZenonT(30) DEF EntriesAgree, CacheTypeOK, remove_cache_entry
<1>7. LruInv'
  BY <1>1, <1>2, <1>3, <1>4, ZenonT(30) DEF LruInv
<1> QED
  BY <1>5, <1>6, <1>7, ZenonT(30) DEF CacheInv

LEMMA FlushStep ==
    ASSUME Sizes, CacheInv, Flush
    PROVE  CacheInv'
<1> USE DEF Flush, remove_cache_entry
<1>1. CacheTypeOK /\ EntriesAgree /\ LruInv /\ entries' = {} /\ Idle'
  BY DEF CacheInv, Idle
<1>2. checksum' \in 0 .. Modulus - 1
  BY DEF Sizes
<1>3. CacheTypeOK'
  BY <1>1, <1>2, ZenonT(30) DEF CacheTypeOK
<1>4. EntriesAgree'
  BY <1>1, ZenonT(30) DEF EntriesAgree, CacheTypeOK
<1>5. LruInv'
  BY <1>1, ZenonT(30) DEF LruInv
<1> QED
  BY <1>3, <1>4, <1>5, ZenonT(30) DEF CacheInv

LEMMA HitStep ==
    ASSUME Sizes, CacheInv, NEW h \in Hashes, GetEntry(h)
    PROVE  CacheInv'
<1>1. CacheTypeOK /\ EntriesAgree /\ LruInv
  BY ZenonT(30) DEF CacheInv
<1>2. PICK e \in entries :
         /\ lru_list' = ToBack(lru_list, e) /\ recency' = ToBack(recency, e)
         /\ UNCHANGED <<cr, filed, ut_filed, entries, ut_crs, checksum, inserting>>
  BY DEF GetEntry
<1>3. e \in Entries /\ (Idle' <=> Idle)
  BY <1>1, <1>2, ZenonT(30) DEF CacheTypeOK, Idle
<1>4. LruInv' /\ recency' \in Seq(Entries)
  BY <1>2, <1>3, Used, ZenonT(30)
<1>5. /\ lru_list' \in Seq(Entries)
      /\ ToSet(lru_list') = Entries /\ Len(lru_list') = Cardinality(Entries)
  BY <1>2, <1>3, ListKept, ZenonT(30)
<1>6. CacheTypeOK'
  BY ONLY <1>1, <1>2, <1>3, <1>4, <1>5, ZenonT(30) DEF CacheTypeOK
<1>7. EntriesAgree'
  BY <1>1, <1>2, <1>3, <1>5, ZenonT(30) DEF EntriesAgree
<1> QED
  BY <1>4, <1>6, <1>7, ZenonT(30) DEF CacheInv

LEMMA InitHolds ==
    ASSUME Sizes, CacheInit
    PROVE  CacheInv
<1> USE DEF CacheInit
<1> DEFINE n == Cardinality(Entries)
<1>1. n \in Nat
  BY FS_CardinalityType, ZenonT(30) DEF Sizes
<1>2. lru_list \in [1 .. n -> Entries] /\ \A i, j \in 1 .. n : i # j => lru_list[i] # lru_list[j]
  BY DEF SetToSeqs
<1>3. lru_list \in Seq(Entries) /\ Len(lru_list) = n /\ DOMAIN lru_list = 1 .. n
  BY ONLY <1>1, <1>2, SMTT(60)
<1>4. ToSet(lru_list) = Entries
  <2>1. lru_list \in Injection(1 .. n, Entries)
    BY <1>2, ZenonT(30) DEF Injection, IsInjective
  <2>2. Cardinality(1 .. n) = n
    BY ONLY <1>1, FS_Interval, SMTT(60)
  <2>3. lru_list \in Surjection(1 .. n, Entries)
    BY <2>1, <2>2, FS_Injection, ZenonT(30) DEF Sizes
  <2> QED
    BY ONLY <1>2, <1>3, <2>3, SMTT(60), ZenonT(30) DEF Surjection, ToSet
<1>5. Idle /\ recency \in Seq(Entries) /\ 0 \in 0 .. Modulus - 1
  BY DEF Idle, Sizes
<1>6. CacheTypeOK
  BY <1>3, <1>5, ZenonT(30) DEF CacheTypeOK
<1>7. EntriesAgree
  BY <1>3, <1>4, <1>5, ZenonT(30) DEF EntriesAgree
<1>8. LruInv
  BY <1>2, <1>3, SMTT(60), ZenonT(30) DEF LruInv, Once
<1> QED
  BY <1>6, <1>7, <1>8, ZenonT(30) DEF CacheInv

-----------------------------------------------------------------------------
LEMMA StepKeeps ==
    ASSUME Sizes, CacheInv, [CacheNext]_cacheVars
    PROVE  CacheInv' /\ [TakesLeastRecent]_cacheVars
<1>1. ASSUME NEW h \in Hashes, NEW rule \in Rules, BeginInsert(h, rule)
      PROVE  CacheInv' /\ TakesLeastRecent
  BY <1>1, BeginStep, ZenonT(30)
<1>2. CASE UNCHANGED cacheVars
  BY <1>2, ZenonT(30) DEF cacheVars, CacheInv, CacheTypeOK, EntriesAgree, LruInv, Idle
<1>3. ASSUME CacheInv', ~Idle \/ Idle' PROVE CacheInv' /\ TakesLeastRecent
  BY ONLY <1>3, ZenonT(30) DEF TakesLeastRecent
<1>4. ASSUME NEW h \in Hashes, NEW rule \in Rules, RemoveUtCr(rule, h)
      PROVE  CacheInv' /\ [TakesLeastRecent]_cacheVars
  <2>1. CASE UNCHANGED cacheVars
    BY <1>2, <2>1, ZenonT(30)
  <2>2. ASSUME NEW e \in ut_crs, checksum' = DELETE(cache_entry_hash(e)), remove_cache_entry({e}),
               lru_list' = ToBack(lru_list, e), UNCHANGED <<filed, ut_filed, inserting, recency>>
        PROVE  CacheInv' /\ TakesLeastRecent
    <3>1. Idle /\ Idle'
      BY <1>4, <2>2, ZenonT(30) DEF RemoveUtCr, Idle
    <3>2. CacheInv'
      BY <2>2, <3>1, RemoveStep, ZenonT(30)
    <3> QED
      BY <1>3, <3>1, <3>2, ZenonT(30)
  <2> QED
    BY <1>4, <2>1, <2>2, ZenonT(30) DEF RemoveUtCr
<1>5. CASE FinishInsert
  BY <1>3, <1>5, FinishStep, ZenonT(30) DEF FinishInsert
<1>6. CASE Flush
  <2>1. Idle'
    BY <1>6 DEF Flush, Idle
  <2> QED
    BY <1>3, <1>6, <2>1, FlushStep, ZenonT(30)
<1>7. ASSUME NEW h \in Hashes, GetEntry(h) PROVE CacheInv' /\ TakesLeastRecent
  <2>1. Idle' <=> Idle
    BY <1>7, ZenonT(30) DEF GetEntry, Idle
  <2> QED
    BY <1>3, <1>7, <2>1, HitStep, ZenonT(30)
<1> QED
  BY <1>1, <1>2, <1>4, <1>5, <1>6, <1>7, ZenonT(30) DEF CacheNext

(* The two maps, the entries in use and the eviction queue agree after     *)
(* every insertion, hit, removal and flush, also between the two lock      *)
(* rounds of an insertion (cache-trusted.c:73-123, 146-174,                *)
(* cache-untrusted.c:16-33).                                               *)
THEOREM Inductive ==
    ASSUME Sizes
    PROVE  CacheSpec => []CacheInv
<1>1. CacheInit => CacheInv
  BY InitHolds, SMTT(60)
<1>2. CacheInv /\ [CacheNext]_cacheVars => CacheInv'
  BY StepKeeps, ZenonT(30)
<1> QED
  BY <1>1, <1>2, PTL DEF CacheSpec

(* flow_map_cache_insert evicts the entry that was used longest ago, since *)
(* every hit and every insertion moves its entry to the back of lru_list   *)
(* (cache-trusted.c:88-99, 166-169, cache-untrusted.c:16-33).              *)
THEOREM LeastRecentGoes ==
    ASSUME Sizes
    PROVE  CacheSpec => EvictsLeastRecent
<1>1. CacheInv /\ [CacheNext]_cacheVars => [TakesLeastRecent]_cacheVars
  BY StepKeeps
<1> QED
  BY <1>1, Inductive, PTL DEF CacheSpec, EvictsLeastRecent
=============================================================================
