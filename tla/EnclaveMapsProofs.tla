------------------------- MODULE EnclaveMapsProofs --------------------------
(***************************************************************************)
(* Proofs about the hash maps of the enclave: the pages that hold their    *)
(* buckets (SharedMemory), for any number of maps and pages and any sizes; *)
(* and the map from the address of a rule to its copy (RuleMap), for any   *)
(* set of addresses: if no two share their low 32 bits and every deleted   *)
(* rule is destroyed, a look-up finds the right copy; without either       *)
(* hypothesis it still finds one for every rule that exists.               *)
(***************************************************************************)
EXTENDS SharedMemory, RuleMap, FiniteSetTheorems, WellFoundedInduction, TLAPS

(* Min and Max are what they say, on numbers.                              *)
LEMMA NatMin ==
    ASSUME NEW S, S \subseteq Nat, S # {}
    PROVE  Min(S) \in S /\ \A y \in S : Min(S) <= y
<1> DEFINE R == {ss \in Nat \X Nat : ss[1] < ss[2]}
<1>1. IsWellFoundedOn(R, Nat)
  BY NatLessThanWellFounded, Zenon DEF OpToRel
<1> HIDE DEF R
<1>2. PICK x \in S : \A y \in S : <<y, x>> \notin R
  BY <1>1, WFMin, ZenonT(30)
<1>3. \A y \in S : y < x => <<y, x>> \in R
  BY DEF R
<1>4. ASSUME NEW y \in S PROVE x <= y
  <2>1. x \in Nat /\ y \in Nat
    OBVIOUS
  <2>2. ~(y < x)
    BY <1>2, <1>3, ZenonT(30)
  <2> QED
    BY <2>1, <2>2
<1> QED
  BY <1>4, ZenonT(30) DEF Min

LEMMA BoundedMax ==
    ASSUME NEW K \in Int, NEW S, S \subseteq 0 .. K, S # {}
    PROVE  Max(S) \in S
<1> DEFINE T == {K - x : x \in S}
<1>1. T \subseteq Nat /\ T # {}
  <2>1. ASSUME NEW x \in S PROVE K - x \in Nat
    <3>1. x \in 0 .. K
      OBVIOUS
    <3> QED
      BY <3>1
  <2> QED
    BY <2>1, ZenonT(30)
<1>2. PICK x \in S : Min(T) = K - x /\ \A y \in T : K - x <= y
  BY <1>1, NatMin, ZenonT(30)
<1>3. \A y \in S : x >= y
  BY <1>2
<1> QED
  BY <1>3, ZenonT(30) DEF Max

LEMMA LowestIs ==
    ASSUME NEW S, S \subseteq Indices
    PROVE  Lowest(S) \in S \cup {NoPage} /\ (Lowest(S) = NoPage => S = {})
<1>1. CASE S = {}
  BY <1>1 DEF Lowest
<1>2. CASE S # {}
  <2>1. S \subseteq Nat
    BY DEF Indices
  <2>2. Min(S) \in S
    BY <1>2, <2>1, NatMin, ZenonT(30)
  <2> QED
    BY <1>2, <2>2 DEF Lowest, Indices, NoPage
<1> QED
  BY <1>1, <1>2

(* A mask that calc_mask makes is one of the masks.                        *)
LEMMA CalcMask ==
    ASSUME NEW c \in 0 .. MaxNodes
    PROVE  calc_mask(c) \in Masks
<1> DEFINE S == {x \in Masks : x >= c \div 2}
<1>1. CASE c \div 2 = 0
  BY <1>1, SizesAssumption DEF calc_mask
<1>2. CASE c \div 2 # 0
  <2>1. c \div 2 <= MaxNodes \div 2
    BY SizesAssumption
  <2>2. S # {} /\ S \subseteq Nat
    <3>1. PICK x \in Masks : MaxNodes \div 2 <= x
      BY SizesAssumption
    <3>2. x \in Nat /\ c \div 2 \in Nat /\ MaxNodes \div 2 \in Nat
      BY SizesAssumption
    <3>3. x >= c \div 2
      BY <2>1, <3>1, <3>2
    <3> QED
      BY <3>1, <3>3, SizesAssumption, ZenonT(30)
  <2>3. Min(S) \in Masks
    BY <2>2, NatMin
  <2>4. {3, Min(S)} \subseteq Masks /\ {3, Min(S)} # {}
    BY <2>3, SizesAssumption
  <2>5. Max({3, Min(S)}) \in {3, Min(S)}
    <3>1. Min(S) \in Nat
      BY <2>3, SizesAssumption, ZenonT(30)
    <3> HIDE DEF S
    <3>2. CASE Min(S) <= 3
      BY <3>1, <3>2, BoundedMax
    <3>3. CASE Min(S) > 3
      BY <3>1, <3>3, BoundedMax, SMTT(60)
    <3> QED
      BY <3>1, <3>2, <3>3
  <2> QED
    BY <1>2, <2>4, <2>5 DEF calc_mask
<1> QED
  BY <1>1, <1>2

-----------------------------------------------------------------------------
PageSet == [allocated : BOOLEAN, size : Nat, status : {FREE, ALLOCATED}]

(* The page shared_memory_get_page returns was free or not allocated; it   *)
(* is large enough, is marked, and no other page changes.                  *)
LEMMA GetPage ==
    ASSUME pages \in [Indices -> PageSet], NEW size \in Nat,
           NEW got, got = shared_memory_get_page(pages, size), got.page # NoPage
    PROVE  /\ got.page \in Indices
           /\ ~pages[got.page].allocated \/ pages[got.page].status = FREE
           /\ got.pages \in [Indices -> PageSet]
           /\ got.pages[got.page].allocated /\ got.pages[got.page].status = ALLOCATED
           /\ got.pages[got.page].size >= size
           /\ \A i \in Indices \ {got.page} : got.pages[i] = pages[i]
<1> DEFINE fit == {i \in Indices : pages[i].allocated /\ size <= pages[i].size /\ pages[i].status = FREE}
           new == shared_memory_allocate_page(pages)
<1>1. CASE fit # {}
  <2>1. Max(fit) \in fit
    <3>1. fit \subseteq 0 .. Cap - 1
      BY ONLY TRUE, ZenonT(30) DEF Indices
    <3> QED
      BY <1>1, <3>1, BoundedMax, SizesAssumption, SMTT(60)
  <2>2. got = [page |-> Max(fit), pages |-> [pages EXCEPT ![Max(fit)].status = ALLOCATED]]
    BY <1>1, ZenonT(30) DEF shared_memory_get_page
  <2> HIDE DEF fit
  <2>3. PICK j \in Indices : j = Max(fit) /\ pages[j].allocated /\ size <= pages[j].size /\ pages[j].status = FREE
    BY <2>1, ZenonT(30) DEF fit
  <2>4. got.page = j /\ got.pages = [pages EXCEPT ![j].status = ALLOCATED]
    BY <2>2, <2>3
  <2> QED
    BY <2>3, <2>4 DEF PageSet, FREE, ALLOCATED
<1>2. CASE fit = {} /\ new = NoPage
  BY <1>2, ZenonT(30) DEF shared_memory_get_page
<1>3. CASE fit = {} /\ new # NoPage
  <2>1. new \in Indices /\ (~pages[new].allocated \/ pages[new].status = FREE)
    BY ONLY <1>3, LowestIs, ZenonT(30) DEF shared_memory_allocate_page, next_unallocated_page, next_free_page
  <2>2. got = [page |-> new, pages |-> [pages EXCEPT ![new] =
                 [allocated |-> TRUE, size |-> 2 * size, status |-> ALLOCATED]]]
    BY <1>3 DEF shared_memory_get_page
  <2> HIDE DEF new
  <2> QED
    BY <2>1, <2>2, SMTT(60) DEF PageSet
<1> QED
  BY <1>1, <1>2, <1>3, ZenonT(30)

(* Growing a map, or failing to.                                           *)
LEMMA ResizeStep ==
    ASSUME PagesInv, NEW m \in Maps, NEW new_mask \in Masks, new_mask > mask[m],
           resize(m, new_mask), n' \in [Maps -> 0 .. MaxNodes], UNCHANGED unset
    PROVE  PagesInv'
<1> DEFINE got == shared_memory_get_page(pages, new_mask + 1)
<1> Masks \subseteq Nat /\ mask \in [Maps -> Masks]
  BY SizesAssumption DEF PagesInv, TypeOK
<1>a. ASSUME NEW k \in Maps PROVE mask[k] \in Nat
  <2>1. mask[k] \in Masks
    OBVIOUS
  <2> QED
    BY <2>1, ZenonT(30)
<1>b. new_mask \in Nat
  OBVIOUS
<1>c. new_mask + 1 \in Nat
  BY ONLY <1>b, SMTT(60)
<1> USE <1>a, <1>b, <1>c
<1>1. CASE got.page = NoPage
  <2> UNCHANGED <<pages, buckets, mask>>
    BY <1>1 DEF resize
  <2> QED
    BY DEF PagesInv, TypeOK, BucketsOwned, NoPageLost
<1>2. CASE got.page # NoPage
  <2>1. pages \in [Indices -> PageSet] /\ buckets \in [Maps -> Indices \cup {One}]
    BY ZenonT(30) DEF PagesInv, TypeOK, PageSet
  <2>2. /\ got.page \in Indices
        /\ ~pages[got.page].allocated \/ pages[got.page].status = FREE
        /\ got.pages \in [Indices -> PageSet]
        /\ got.pages[got.page].allocated /\ got.pages[got.page].status = ALLOCATED
        /\ got.pages[got.page].size >= new_mask + 1
        /\ \A i \in Indices \ {got.page} : got.pages[i] = pages[i]
    BY <1>2, <2>1, GetPage
  <2>3. /\ mask' = [mask EXCEPT ![m] = new_mask]
        /\ buckets' = [buckets EXCEPT ![m] = got.page]
        /\ pages' = IF buckets[m] = One THEN got.pages
                    ELSE shared_memory_free_page(got.pages, buckets[m])
    BY <1>2, SMTT(60) DEF resize
  <2> HIDE DEF got
  <2>4. \A k \in Maps : buckets[k] # got.page
    BY <2>1, <2>2, SMTT(60) DEF PagesInv, BucketsOwned, One, Indices, FREE, ALLOCATED
  <2>5. /\ pages' \in [Indices -> PageSet]
        /\ \A i \in Indices : i # buckets[m] => pages'[i] = got.pages[i]
        /\ buckets[m] # One => pages'[buckets[m]].status = FREE
    <3>1. CASE buckets[m] = One
      BY ONLY <2>2, <2>3, <3>1, ZenonT(30)
    <3>2. CASE buckets[m] # One
      <4>1. buckets[m] \in Indices /\ buckets[m] # got.page
        BY ONLY <2>1, <2>4, <3>2, ZenonT(30)
      <4>2. got.pages[buckets[m]].allocated
        BY <2>2, <4>1, <3>2 DEF PagesInv, BucketsOwned
      <4>3. pages' = [got.pages EXCEPT ![buckets[m]].status = FREE]
        BY ONLY <2>3, <3>2, <4>1, <4>2, ZenonT(30) DEF shared_memory_free_page
      <4> QED
        BY <2>2, <4>1, <4>3 DEF PageSet
    <3> QED
      BY ONLY <3>1, <3>2, ZenonT(30)
  <2>6. TypeOK'
    BY <2>1, <2>2, <2>3, <2>5, ZenonT(30) DEF PagesInv, TypeOK, PageSet
  <2>7. BucketsOwned'
    <3>1. \A k \in Maps : buckets'[k] = (IF k = m THEN got.page ELSE buckets[k])
                          /\ mask'[k] = (IF k = m THEN new_mask ELSE mask[k])
      BY <2>1, <2>3, ZenonT(30) DEF PagesInv, TypeOK
    <3>2. buckets'[m] # One /\ mask'[m] # 0
      BY <2>2, <3>1, SMTT(60) DEF One, Indices
    <3>3. pages'[got.page] = got.pages[got.page]
      BY ONLY <2>2, <2>4, <2>5, ZenonT(30)
    <3>4. ASSUME NEW k \in Maps, k # m, buckets[k] # One
          PROVE  pages'[buckets[k]] = pages[buckets[k]]
      <4>1. buckets[k] # buckets[m] /\ buckets[k] \in Indices
        BY <3>4, <2>1 DEF PagesInv, BucketsOwned
      <4> QED
        BY <4>1, <2>2, <2>4, <2>5
    <3>5. ASSUME NEW k \in Maps PROVE buckets'[k] = One <=> mask'[k] = 0
      BY <3>1, <3>2, ZenonT(30) DEF PagesInv, BucketsOwned
    <3>6. ASSUME NEW k \in Maps, buckets'[k] # One
          PROVE  /\ pages'[buckets'[k]].allocated /\ pages'[buckets'[k]].status = ALLOCATED
                 /\ pages'[buckets'[k]].size >= mask'[k] + 1
      BY <2>2, <3>1, <3>3, <3>4, <3>6, SMTT(60) DEF PagesInv, BucketsOwned
    <3>7. ASSUME NEW k \in Maps, NEW l \in Maps \ {k}, buckets'[k] = buckets'[l]
          PROVE  buckets'[k] = One
      BY <2>4, <3>1, <3>7 DEF PagesInv, BucketsOwned
    <3> QED
      BY <3>5, <3>6, <3>7 DEF BucketsOwned
  <2>8. NoPageLost'
    <3> SUFFICES ASSUME NEW i \in Indices, pages'[i].allocated, pages'[i].status # FREE
                 PROVE  (\E k \in Maps : i = buckets'[k]) \/ i \in unset
      BY SMTT(60) DEF NoPageLost
    <3>1. CASE i = got.page
      BY <2>1, <2>3, <3>1
    <3>2. CASE i # got.page
      <4>1. i # buckets[m]
        BY <2>5, SMTT(60) DEF One, Indices
      <4>2. pages'[i] = pages[i]
        BY ONLY <2>2, <2>5, <3>2, <4>1, ZenonT(30)
      <4>3. (\E k \in Maps : i = buckets[k]) \/ i \in unset
        BY <4>2 DEF PagesInv, NoPageLost
      <4>4. \A k \in Maps : k # m => buckets'[k] = buckets[k]
        BY <2>1, <2>3
      <4> QED
        BY <4>1, <4>3, <4>4
    <3> QED
      BY <3>1, <3>2
  <2> QED
    BY <2>6, <2>7, <2>8 DEF PagesInv
<1> QED
  BY <1>1, <1>2

-----------------------------------------------------------------------------
LEMMA PagesHold == Init => PagesInv
<1> SUFFICES ASSUME Init PROVE PagesInv
  OBVIOUS
<1> USE SizesAssumption DEF Init
<1>1. TypeOK
  BY DEF TypeOK, Unallocated, FREE, ALLOCATED
<1>2. BucketsOwned
  BY DEF BucketsOwned
<1>3. NoPageLost
  BY DEF NoPageLost, Unallocated, FREE, ALLOCATED, Indices
<1> QED
  BY <1>1, <1>2, <1>3 DEF PagesInv

(* The maps always have pages of their own, large enough, and none is lost *)
(* on the way (hmap.c:66-125, shared-memory-trusted.c:43-69).              *)
THEOREM PagesInductive == Spec => []PagesInv
<1>1. PagesInv /\ [Next]_vars => PagesInv'
  <2> SUFFICES ASSUME PagesInv, [Next]_vars PROVE PagesInv'
    OBVIOUS
  <2>1. CASE UNCHANGED vars
    BY <2>1, SMTT(60) DEF vars, PagesInv, TypeOK, BucketsOwned, NoPageLost
  <2>2. ASSUME NEW m \in Maps, hmap_insert(m) PROVE PagesInv'
    <3>1. n \in [Maps -> 0 .. MaxNodes] /\ mask \in [Maps -> Masks]
      BY DEF PagesInv, TypeOK
    <3>2. n' \in [Maps -> 0 .. MaxNodes] /\ n'[m] \in 0 .. MaxNodes
      BY <2>2, <3>1, SizesAssumption DEF hmap_insert
    <3>3. CASE n'[m] \div 2 > mask[m] /\ calc_mask(n'[m]) > mask[m]
      <4>1. calc_mask(n'[m]) \in Masks
        BY ONLY <3>2, CalcMask, ZenonT(30)
      <4> QED
        BY <2>2, <3>2, <3>3, <4>1, ResizeStep DEF hmap_insert
    <3>4. CASE UNCHANGED <<pages, buckets, mask>>
      BY <2>2, <3>2, <3>4, SMTT(60) DEF hmap_insert, PagesInv, TypeOK, BucketsOwned, NoPageLost
    <3> QED
      BY <2>2, <3>3, <3>4 DEF hmap_insert
  <2>3. ASSUME NEW m \in Maps, hmap_remove(m) PROVE PagesInv'
    <3>1. n' \in [Maps -> 0 .. MaxNodes]
      BY <2>3, SizesAssumption DEF hmap_remove, PagesInv, TypeOK
    <3> QED
      BY <2>3, <3>1 DEF hmap_remove, PagesInv, TypeOK, BucketsOwned, NoPageLost
  <2> QED
    BY <2>1, <2>2, <2>3 DEF Next
<1> QED
  BY <1>1, PagesHold, PTL DEF Spec

(* No two maps ever put their buckets in one page, whatever the untrusted  *)
(* side's memory held (hmap.c:83-91).                                      *)
THEOREM BucketsAreOwned == Spec => []BucketsOwned
<1>1. PagesInv => BucketsOwned
  BY DEF PagesInv
<1> QED
  BY <1>1, PagesInductive, PTL

-----------------------------------------------------------------------------
NoSharing == \A a, b \in Addresses : Low(a) = Low(b) => a = b

(* The initial map is empty.                                               *)
LEMMA MapInitInv == MapInit => MapInv
  BY LowAssumption, MaxRulesAssumption DEF MapInit, MapInv, MapTypeOK, None

(* A bucket with one copy is not changed by growing (resize, hmap.c:102).  *)
LEMMA ReversedSingle == \A x : Reversed(<<x>>) = <<x>>
  BY DEF Reversed

(* An empty bucket stays empty.                                            *)
LEMMA ReversedEmpty == Reversed(<<>>) = <<>>
  BY ONLY TRUE, SMTT(60) DEF Reversed

(* Filing the copy of a new rule keeps the invariant, growth included      *)
(* (ecall_cls_rule_init).                                                  *)
LEMMA InitRule ==
    ASSUME NoSharing, MapInv, NEW a \in Addresses, ecall_cls_rule_init(a)
    PROVE  MapInv'
<1> DEFINE copy == [o_cls_rule |-> a, id |-> made + 1]
<1>1. made + 1 \in 1 .. MaxRules /\ copy \in Copies /\ Low(a) \in Hashes /\ current[a] = None
  BY LowAssumption, MaxRulesAssumption, SMTT(60) DEF ecall_cls_rule_init, MapInv, MapTypeOK, Copies
<1>2. bucket[Low(a)] = <<>>
  <2> SUFFICES ASSUME bucket[Low(a)] # <<>> PROVE FALSE
    OBVIOUS
  <2>1. PICK b \in Addresses : Low(b) = Low(a) /\ current[b] # None
    BY <1>1, ZenonT(30) DEF MapInv
  <2> QED BY <2>1, <1>1 DEF NoSharing
<1>3. hmap_insert_fast(bucket, Low(a), copy) = [bucket EXCEPT ![Low(a)] = <<copy>>]
  BY <1>1, <1>2 DEF hmap_insert_fast, MapInv, MapTypeOK
<1>4. bucket' = [bucket EXCEPT ![Low(a)] = <<copy>>]
  <2> DEFINE b == [bucket EXCEPT ![Low(a)] = <<copy>>]
  <2>1. bucket' = b \/ bucket' = hmap_resize(b)
    BY <1>3 DEF ecall_cls_rule_init
  <2>2. \A h \in Hashes : Reversed(b[h]) = b[h]
    <3> SUFFICES ASSUME NEW h \in Hashes PROVE Reversed(b[h]) = b[h]
      OBVIOUS
    <3>1. CASE h = Low(a)
      BY <3>1, ReversedSingle DEF MapInv, MapTypeOK
    <3>2. CASE h # Low(a)
      <4>1. b[h] = bucket[h]
        BY <3>2 DEF MapInv, MapTypeOK
      <4>2. bucket[h] = <<>> \/ \E c : bucket[h] = <<c>>
        BY ZenonT(30) DEF MapInv
      <4> QED BY <4>1, <4>2, ReversedSingle, ReversedEmpty
    <3> QED BY <3>1, <3>2
  <2>3. b \in [Hashes -> Seq(Copies)]
    BY <1>1 DEF MapInv, MapTypeOK
  <2>4. hmap_resize(b) = b
    BY <2>2, <2>3, ZenonT(30) DEF hmap_resize
  <2> QED BY <2>1, <2>4
<1>5. current' = [current EXCEPT ![a] = made + 1] /\ made' = made + 1
  BY DEF ecall_cls_rule_init
<1>6. MapTypeOK'
  <2>1. hmap_n' \in Int /\ hmap_mask' \in Nat
    BY DEF ecall_cls_rule_init, hmap_expand, MapInv, MapTypeOK
  <2> QED BY <1>1, <1>4, <1>5, <2>1, SMTT(60) DEF MapInv, MapTypeOK
<1>7. ASSUME NEW h \in Hashes
      PROVE  \/ bucket'[h] = <<>>
             \/ \E x \in Addresses : /\ Low(x) = h /\ current'[x] # None
                                     /\ bucket'[h] = <<[o_cls_rule |-> x, id |-> current'[x]]>>
  <2>1. CASE h = Low(a)
    <3>1. bucket'[h] = <<copy>> /\ current'[a] = made + 1 /\ made + 1 # None
      BY <2>1, <1>1, <1>4, <1>5 DEF MapInv, MapTypeOK, None
    <3> QED BY ONLY <3>1, <2>1, ZenonT(30)
  <2>2. CASE h # Low(a)
    <3>1. bucket'[h] = bucket[h]
      BY <2>2, <1>4 DEF MapInv, MapTypeOK
    <3>2. \A x \in Addresses : Low(x) = h => current'[x] = current[x]
      BY <2>2, <1>5 DEF MapInv, MapTypeOK
    <3> QED BY <3>1, <3>2, ZenonT(30) DEF MapInv
  <2> QED BY <2>1, <2>2, ZenonT(30)
<1>8. ASSUME NEW x \in Addresses, current'[x] # None
      PROVE  bucket'[Low(x)] # <<>>
  <2>1. CASE x = a
    BY <2>1, <1>1, <1>4, ZenonT(30) DEF MapInv, MapTypeOK
  <2>2. CASE x # a
    <3>1. Low(x) # Low(a) /\ Low(x) \in Hashes
      BY <2>2, LowAssumption, ZenonT(30) DEF NoSharing
    <3>2. current'[x] = current[x] /\ bucket'[Low(x)] = bucket[Low(x)]
      BY <3>1, <2>2, <1>4, <1>5, ZenonT(30) DEF MapInv, MapTypeOK
    <3> QED BY <3>2, <1>8 DEF MapInv
  <2> QED BY <2>1, <2>2
<1> QED BY <1>6, <1>7, <1>8, SMTT(60) DEF MapInv

(* Destroying a rule removes its own copy, the only one of the bucket      *)
(* (ecall_cls_rule_destroy, node_delete).                                  *)
LEMMA DestroyRule ==
    ASSUME NoSharing, MapInv, NEW a \in Addresses, ecall_cls_rule_destroy(a)
    PROVE  MapInv'
<1>1. current[a] # None /\ Low(a) \in Hashes /\ bucket[Low(a)] # <<>>
  BY LowAssumption DEF ecall_cls_rule_destroy, MapInv
<1>2. bucket[Low(a)] = <<[o_cls_rule |-> a, id |-> current[a]]>>
  BY <1>1, ZenonT(30) DEF MapInv, NoSharing
<1>3. bucket' = [bucket EXCEPT ![Low(a)] = <<>>]
  <2>1. Tail(bucket[Low(a)]) = <<>>
    BY <1>2
  <2> QED BY <2>1, ZenonT(30) DEF ecall_cls_rule_destroy
<1>4. current' = [current EXCEPT ![a] = None] /\ made' = made /\ hmap_mask' = hmap_mask /\ hmap_n' = hmap_n - 1
  BY DEF ecall_cls_rule_destroy
<1>5. MapTypeOK'
  BY <1>1, <1>3, <1>4, MaxRulesAssumption, SMTT(60) DEF MapInv, MapTypeOK, None
<1>6. \A x \in Addresses : x # a => Low(x) # Low(a) /\ current'[x] = current[x] /\ bucket'[Low(x)] = bucket[Low(x)]
  BY <1>3, <1>4, LowAssumption DEF NoSharing, MapInv, MapTypeOK
<1>7. current'[a] = None
  BY <1>4, ZenonT(30) DEF MapInv, MapTypeOK
<1>8. ASSUME NEW h \in Hashes
      PROVE  \/ bucket'[h] = <<>>
             \/ \E x \in Addresses : /\ Low(x) = h /\ current'[x] # None
                                     /\ bucket'[h] = <<[o_cls_rule |-> x, id |-> current'[x]]>>
  <2>1. CASE h = Low(a)
    BY <2>1, <1>3, ZenonT(30) DEF MapInv, MapTypeOK
  <2>2. CASE h # Low(a)
    <3>1. bucket'[h] = bucket[h]
      BY <2>2, <1>3, ZenonT(30) DEF MapInv, MapTypeOK
    <3>2. \A x \in Addresses : Low(x) = h => current'[x] = current[x]
      BY <2>2, <1>6, ZenonT(30)
    <3> QED BY <3>1, <3>2, ZenonT(30) DEF MapInv
  <2> QED BY <2>1, <2>2
<1>9. \A x \in Addresses : current'[x] # None => bucket'[Low(x)] # <<>>
  BY <1>6, <1>7 DEF MapInv
<1> QED BY ONLY <1>5, <1>8, <1>9, ZenonT(30) DEF MapInv

(* MapInv is inductive when nothing is freed behind the enclave's back.    *)
THEOREM MapInductive ==
    ASSUME NoSharing, ~Leaks
    PROVE  MapSpec => []MapInv
<1>1. MapInit => MapInv
  BY MapInitInv
<1>2. MapInv /\ [MapNext]_mapVars => MapInv'
  <2> SUFFICES ASSUME MapInv, [MapNext]_mapVars PROVE MapInv'
    OBVIOUS
  <2>1. ASSUME NEW a \in Addresses, ecall_cls_rule_init(a) PROVE MapInv'
    BY <2>1, InitRule
  <2>2. ASSUME NEW a \in Addresses, ecall_cls_rule_destroy(a) PROVE MapInv'
    BY <2>2, DestroyRule
  <2>3. ASSUME NEW a \in Addresses, FreeRule(a) PROVE MapInv'
    BY <2>3, ZenonT(30) DEF FreeRule
  <2>4. CASE UNCHANGED mapVars
    BY <2>4 DEF mapVars, MapInv, MapTypeOK
  <2> QED BY <2>1, <2>2, <2>3, <2>4 DEF MapNext
<1> QED BY <1>1, <1>2, PTL DEF MapSpec

(* A look-up by address finds the copy made for the rule at that address   *)
(* (sgx_rule_from_ut_cr), though it compares only the hash.                *)
THEOREM LookupCorrect ==
    ASSUME NoSharing, ~Leaks
    PROVE  MapSpec => []LookupFindsCopy
<1>1. MapInv => LookupFindsCopy
  <2> SUFFICES ASSUME MapInv, NEW a \in Addresses, current[a] # None
               PROVE  Found(a) = current[a]
    BY DEF LookupFindsCopy
  <2>1. Low(a) \in Hashes /\ bucket[Low(a)] # <<>>
    BY LowAssumption DEF MapInv
  <2>2. bucket[Low(a)] = <<[o_cls_rule |-> a, id |-> current[a]]>>
    BY <2>1, ZenonT(30) DEF MapInv, NoSharing
  <2> QED BY <2>1, <2>2 DEF Found
<1> QED BY <1>1, MapInductive, PTL

(* Nothing is left in the map of a rule that was destroyed.                *)
THEOREM Clean ==
    ASSUME NoSharing, ~Leaks
    PROVE  MapSpec => []NothingLeftBehind
<1>1. MapInv => NothingLeftBehind
  <2> SUFFICES ASSUME MapInv, NEW h \in Hashes, NEW i \in 1 .. Len(bucket[h])
               PROVE  /\ current[bucket[h][i].o_cls_rule] = bucket[h][i].id
                      /\ Low(bucket[h][i].o_cls_rule) = h
    BY DEF NothingLeftBehind
  <2>1. bucket[h] # <<>>
    OBVIOUS
  <2>2. PICK a \in Addresses : Low(a) = h /\ bucket[h] = <<[o_cls_rule |-> a, id |-> current[a]]>>
    BY <2>1 DEF MapInv
  <2>3. i = 1
    BY <2>2
  <2> QED BY <2>2, <2>3
<1> QED BY <1>1, MapInductive, PTL

-----------------------------------------------------------------------------
(* Rules that are freed without cls_rule_destroy, and addresses that share *)
(* hashes: copies pile up in the buckets, and a destruction may take the   *)
(* copy of another rule.  What is left is a matter of counting.            *)
Filed(b) == \A h \in Hashes : \A i \in 1 .. Len(b[h]) : Low(b[h][i].o_cls_rule) = h

(* Growing turns a bucket round (hmap.c:102-112).                          *)
LEMMA ReversedKeeps ==
    ASSUME NEW S, NEW s \in Seq(S)
    PROVE  /\ Reversed(s) \in Seq(S) /\ Len(Reversed(s)) = Len(s)
           /\ \A i \in 1 .. Len(s) : \E j \in 1 .. Len(s) : Reversed(s)[i] = s[j]
<1>1. Len(s) \in Nat /\ \A i \in 1 .. Len(s) : s[i] \in S /\ Len(s) + 1 - i \in 1 .. Len(s)
  OBVIOUS
<1>2. Reversed(s) \in Seq(S) /\ Len(Reversed(s)) = Len(s)
  BY <1>1 DEF Reversed
<1>3. \A i \in 1 .. Len(s) : Reversed(s)[i] = s[Len(s) + 1 - i]
  BY <1>1 DEF Reversed
<1> QED
  BY ONLY <1>1, <1>2, <1>3, ZenonT(30)

(* ... and changes neither their number nor where they are filed.          *)
LEMMA ResizeKeeps ==
    ASSUME NEW b \in [Hashes -> Seq(Copies)], Filed(b)
    PROVE  /\ hmap_resize(b) \in [Hashes -> Seq(Copies)] /\ Filed(hmap_resize(b))
           /\ \A h \in Hashes : Len(hmap_resize(b)[h]) = Len(b[h])
<1>1. \A h \in Hashes : hmap_resize(b)[h] = Reversed(b[h]) /\ b[h] \in Seq(Copies)
  BY ZenonT(30) DEF hmap_resize
<1>2. \A h \in Hashes : Reversed(b[h]) \in Seq(Copies) /\ Len(Reversed(b[h])) = Len(b[h])
  BY <1>1, ReversedKeeps, ZenonT(30)
<1>3. hmap_resize(b) \in [Hashes -> Seq(Copies)]
  BY <1>2, ZenonT(30) DEF hmap_resize
<1>4. ASSUME NEW h \in Hashes, NEW i \in 1 .. Len(b[h])
      PROVE  Low(Reversed(b[h])[i].o_cls_rule) = h
  <2>1. PICK j \in 1 .. Len(b[h]) : Reversed(b[h])[i] = b[h][j]
    BY <1>1, ReversedKeeps, ZenonT(30)
  <2> QED
    BY <2>1, ZenonT(30) DEF Filed
<1> QED
  BY ONLY <1>1, <1>2, <1>3, <1>4, ZenonT(30) DEF Filed

(* A new copy joins those of its bucket (hmap_insert_fast).                *)
LEMMA InsertKeeps ==
    ASSUME NEW b \in [Hashes -> Seq(Copies)], Filed(b),
           NEW copy \in Copies, Low(copy.o_cls_rule) \in Hashes
    PROVE  LET k == Low(copy.o_cls_rule)
               c == hmap_insert_fast(b, k, copy)
           IN  /\ c \in [Hashes -> Seq(Copies)] /\ Filed(c)
               /\ Len(c[k]) = Len(b[k]) + 1
               /\ \A h \in Hashes \ {k} : c[h] = b[h]
<1> DEFINE k == Low(copy.o_cls_rule)
           s == <<copy>> \o b[k]
           c == [b EXCEPT ![k] = s]
<1>1. /\ s \in Seq(Copies) /\ Len(s) = Len(b[k]) + 1 /\ s[1] = copy
      /\ \A i \in 2 .. Len(s) : i - 1 \in 1 .. Len(b[k]) /\ s[i] = b[k][i - 1]
  OBVIOUS
<1>2. \A i \in 1 .. Len(s) : Low(s[i].o_cls_rule) = k
  <2> SUFFICES ASSUME NEW i \in 1 .. Len(s) PROVE Low(s[i].o_cls_rule) = k
    OBVIOUS
  <2>1. i = 1 \/ i \in 2 .. Len(s)
    BY <1>1
  <2> QED
    BY ONLY <1>1, <2>1, k \in Hashes, Filed(b), ZenonT(30) DEF Filed
<1> HIDE DEF s
<1>3. c \in [Hashes -> Seq(Copies)] /\ c[k] = s /\ \A h \in Hashes : h # k => c[h] = b[h]
  BY <1>1
<1> HIDE DEF c
<1>4. Filed(c)
  <2> SUFFICES ASSUME NEW h \in Hashes, NEW i \in 1 .. Len(c[h])
               PROVE  Low(c[h][i].o_cls_rule) = h
    BY DEF Filed
  <2>1. CASE h = k
    BY ONLY <1>2, <1>3, <2>1, i \in 1 .. Len(c[h]), ZenonT(30)
  <2>2. CASE h # k
    BY ONLY <1>3, <2>2, Filed(b), h \in Hashes, i \in 1 .. Len(c[h]), ZenonT(30) DEF Filed
  <2> QED
    BY <2>1, <2>2
<1>5. hmap_insert_fast(b, k, copy) = c
  BY ONLY TRUE, ZenonT(30) DEF hmap_insert_fast, c, s
<1> HIDE DEF k
<1>6. /\ c \in [Hashes -> Seq(Copies)] /\ Filed(c) /\ Len(c[k]) = Len(b[k]) + 1
      /\ \A h \in Hashes \ {k} : c[h] = b[h]
  BY ONLY <1>1, <1>3, <1>4, ZenonT(30)
<1> QED
  BY ONLY <1>5, <1>6, ZenonT(30) DEF k

(* How many rules share a hash, when one is created and when one goes.     *)
LEMMA SharingGrows ==
    ASSUME IsFiniteSet(Addresses), MapTypeOK, NEW a \in Addresses, NEW v,
           v # None, current[a] = None, current' = [current EXCEPT ![a] = v], NEW h \in Hashes
    PROVE  /\ Cardinality(Sharing(h)) \in Nat
           /\ Cardinality(Sharing(h)') = IF h = Low(a) THEN Cardinality(Sharing(h)) + 1
                                         ELSE Cardinality(Sharing(h))
<1>1. IsFiniteSet(Sharing(h)) /\ Cardinality(Sharing(h)) \in Nat
  BY FS_Subset, FS_CardinalityType DEF Sharing
<1>2. a \notin Sharing(h)
  BY DEF Sharing
<1>3. \A x \in Addresses : current'[x] = IF x = a THEN v ELSE current[x]
  BY DEF MapTypeOK
<1>4. Sharing(h)' = IF h = Low(a) THEN Sharing(h) \cup {a} ELSE Sharing(h)
  BY <1>3 DEF Sharing
<1> QED
  BY <1>1, <1>2, <1>4, FS_AddElement, ZenonT(30)

LEMMA SharingShrinks ==
    ASSUME IsFiniteSet(Addresses), MapTypeOK, NEW a \in Addresses,
           current[a] # None, current' = [current EXCEPT ![a] = None], NEW h \in Hashes
    PROVE  /\ Cardinality(Sharing(h)) \in Nat
           /\ Cardinality(Sharing(h)') = IF h = Low(a) THEN Cardinality(Sharing(h)) - 1
                                         ELSE Cardinality(Sharing(h))
<1>1. IsFiniteSet(Sharing(h)) /\ Cardinality(Sharing(h)) \in Nat
  BY FS_Subset, FS_CardinalityType DEF Sharing
<1>2. h = Low(a) => a \in Sharing(h)
  BY DEF Sharing
<1>3. \A x \in Addresses : current'[x] = IF x = a THEN None ELSE current[x]
  BY DEF MapTypeOK
<1>4. Sharing(h)' = IF h = Low(a) THEN Sharing(h) \ {a} ELSE Sharing(h)
  BY <1>3 DEF Sharing
<1> QED
  BY <1>1, <1>2, <1>4, FS_RemoveElement, ZenonT(30)

(* Creating a rule adds a copy to its bucket, and one rule that needs one. *)
LEMMA CreatedHasCopy ==
    ASSUME IsFiniteSet(Addresses), MapTypeOK, CopiesForRules, NEW a \in Addresses, ecall_cls_rule_init(a)
    PROVE  MapTypeOK' /\ CopiesForRules'
<1> DEFINE copy == [o_cls_rule |-> a, id |-> made + 1]
           b == hmap_insert_fast(bucket, Low(a), copy)
<1>1. made + 1 \in 1 .. MaxRules /\ copy \in Copies /\ Low(a) \in Hashes /\ copy.o_cls_rule = a
  BY LowAssumption, MaxRulesAssumption DEF ecall_cls_rule_init, MapTypeOK, Copies
<1>2. Filed(bucket) /\ bucket \in [Hashes -> Seq(Copies)]
  BY ZenonT(30) DEF CopiesForRules, Filed, MapTypeOK
<1>3. /\ current[a] = None /\ current' = [current EXCEPT ![a] = made + 1] /\ made' = made + 1
      /\ hmap_n' \in Int /\ hmap_mask' \in Nat
      /\ bucket' = b \/ bucket' = hmap_resize(b)
  BY DEF ecall_cls_rule_init, hmap_expand, MapTypeOK
<1>4. /\ b \in [Hashes -> Seq(Copies)] /\ Filed(b) /\ Len(b[Low(a)]) = Len(bucket[Low(a)]) + 1
      /\ \A h \in Hashes \ {Low(a)} : b[h] = bucket[h]
  BY ONLY <1>1, <1>2, InsertKeeps, ZenonT(30)
<1> HIDE DEF b
<1>5. /\ bucket' \in [Hashes -> Seq(Copies)] /\ Filed(bucket')
      /\ \A h \in Hashes : Len(bucket'[h]) = Len(b[h])
  BY ONLY <1>3, <1>4, ResizeKeeps, ZenonT(30)
<1>6. MapTypeOK'
  BY <1>1, <1>3, <1>5 DEF MapTypeOK
<1>7. ASSUME NEW h \in Hashes PROVE Len(bucket'[h]) >= Cardinality(Sharing(h)')
  <2>1. made + 1 # None
    BY <1>1 DEF None
  <2>2. /\ Cardinality(Sharing(h)) \in Nat
        /\ Cardinality(Sharing(h)') = IF h = Low(a) THEN Cardinality(Sharing(h)) + 1
                                      ELSE Cardinality(Sharing(h))
    BY <1>3, <2>1, SharingGrows, ZenonT(30)
  <2>3. Len(bucket[h]) \in Nat /\ Len(bucket[h]) >= Cardinality(Sharing(h))
    BY <1>2 DEF CopiesForRules
  <2>4. Len(bucket'[h]) = IF h = Low(a) THEN Len(bucket[h]) + 1 ELSE Len(bucket[h])
    BY ONLY <1>4, <1>5, h \in Hashes, ZenonT(30)
  <2> QED
    BY ONLY <2>2, <2>3, <2>4
<1> QED
  BY ONLY <1>5, <1>6, <1>7, ZenonT(30) DEF CopiesForRules, Filed

(* Destroying a rule takes the first copy of its bucket, and leaves one    *)
(* rule less that needs one.                                               *)
LEMMA DestroyedLeavesCopies ==
    ASSUME IsFiniteSet(Addresses), MapTypeOK, CopiesForRules, NEW a \in Addresses, ecall_cls_rule_destroy(a)
    PROVE  MapTypeOK' /\ CopiesForRules'
<1> DEFINE k == Low(a)
           s == bucket[k]
<1>1. /\ k \in Hashes /\ s \in Seq(Copies) /\ s # <<>> /\ current[a] # None
      /\ bucket \in [Hashes -> Seq(Copies)]
  BY LowAssumption DEF ecall_cls_rule_destroy, MapTypeOK, Found
<1>2. /\ bucket' = [bucket EXCEPT ![k] = Tail(s)]
      /\ current' = [current EXCEPT ![a] = None] /\ hmap_n' = hmap_n - 1
      /\ made' = made /\ hmap_mask' = hmap_mask
  BY ZenonT(30) DEF ecall_cls_rule_destroy
<1>3. /\ Tail(s) \in Seq(Copies) /\ Len(Tail(s)) = Len(s) - 1 /\ Len(s) \in Nat
      /\ \A i \in 1 .. Len(Tail(s)) : i + 1 \in 1 .. Len(s) /\ Tail(s)[i] = s[i + 1]
  BY ONLY <1>1
<1> HIDE DEF s
<1>4. /\ bucket' \in [Hashes -> Seq(Copies)] /\ bucket'[k] = Tail(s)
      /\ \A h \in Hashes : h # k => bucket'[h] = bucket[h]
  BY ONLY <1>1, <1>2, <1>3
<1>5. MapTypeOK'
  BY <1>2, <1>4, MaxRulesAssumption, SMTT(60) DEF MapTypeOK, None
<1>6. ASSUME NEW h \in Hashes, NEW i \in 1 .. Len(bucket'[h])
      PROVE  Low(bucket'[h][i].o_cls_rule) = h
  <2>1. CASE h = k
    <3>1. i + 1 \in 1 .. Len(bucket[k]) /\ bucket'[h][i] = bucket[k][i + 1]
      BY ONLY <1>3, <1>4, <2>1, i \in 1 .. Len(bucket'[h]), ZenonT(30) DEF s
    <3> QED
      BY <1>1, <2>1, <3>1, ZenonT(30) DEF CopiesForRules
  <2>2. CASE h # k
    BY <1>4, <2>2, ZenonT(30) DEF CopiesForRules
  <2> QED
    BY <2>1, <2>2
<1>7. ASSUME NEW h \in Hashes PROVE Len(bucket'[h]) >= Cardinality(Sharing(h)')
  <2>1. /\ Cardinality(Sharing(h)) \in Nat
        /\ Cardinality(Sharing(h)') = IF h = k THEN Cardinality(Sharing(h)) - 1
                                      ELSE Cardinality(Sharing(h))
    BY <1>1, <1>2, SharingShrinks, ZenonT(30)
  <2>2. Len(bucket[h]) \in Nat /\ Len(bucket[h]) >= Cardinality(Sharing(h))
    BY <1>1 DEF CopiesForRules
  <2>3. Len(bucket'[h]) = IF h = k THEN Len(bucket[h]) - 1 ELSE Len(bucket[h])
    BY ONLY <1>3, <1>4, h \in Hashes, ZenonT(30) DEF s
  <2> QED
    BY ONLY <2>1, <2>2, <2>3
<1> QED
  BY ONLY <1>5, <1>6, <1>7, ZenonT(30) DEF CopiesForRules

(* Freeing a rule leaves its copy (ofopgroup_complete, optimized build).   *)
LEMMA FreedLeavesCopies ==
    ASSUME IsFiniteSet(Addresses), MapTypeOK, CopiesForRules, NEW a \in Addresses, FreeRule(a)
    PROVE  MapTypeOK' /\ CopiesForRules'
<1>1. /\ current[a] # None /\ current' = [current EXCEPT ![a] = None]
      /\ bucket' = bucket /\ hmap_n' = hmap_n /\ hmap_mask' = hmap_mask /\ made' = made
  BY DEF FreeRule
<1>2. MapTypeOK'
  BY <1>1, MaxRulesAssumption, SMTT(60) DEF MapTypeOK, None
<1>3. ASSUME NEW h \in Hashes PROVE Len(bucket'[h]) >= Cardinality(Sharing(h)')
  <2>1. /\ Cardinality(Sharing(h)) \in Nat
        /\ \/ Cardinality(Sharing(h)') = Cardinality(Sharing(h)) - 1
           \/ Cardinality(Sharing(h)') = Cardinality(Sharing(h))
    BY <1>1, SharingShrinks, ZenonT(30)
  <2>2. Len(bucket[h]) \in Nat /\ Len(bucket[h]) >= Cardinality(Sharing(h)) /\ bucket'[h] = bucket[h]
    BY <1>1 DEF CopiesForRules, MapTypeOK
  <2> QED
    BY ONLY <2>1, <2>2
<1>4. \A h \in Hashes : \A i \in 1 .. Len(bucket'[h]) : Low(bucket'[h][i].o_cls_rule) = h
  BY <1>1, ZenonT(30) DEF CopiesForRules
<1> QED
  BY ONLY <1>2, <1>3, <1>4, ZenonT(30) DEF CopiesForRules

(* In both builds, and whatever addresses share their low halves, a bucket *)
(* has a copy for every rule with its hash: sgx_rule_from_ut_cr returns    *)
(* NULL for no rule that exists (cls-rule.c:177-202, hmap.c:102-112).      *)
THEOREM CopyForEveryRule ==
    ASSUME IsFiniteSet(Addresses)
    PROVE  MapSpec => []CopiesForRules
<1>1. MapInit => MapTypeOK /\ CopiesForRules
  <2> SUFFICES ASSUME MapInit PROVE MapTypeOK /\ CopiesForRules
    OBVIOUS
  <2>1. MapTypeOK
    BY LowAssumption, MaxRulesAssumption DEF MapInit, MapTypeOK, None
  <2>2. \A h \in Hashes : Sharing(h) = {} /\ bucket[h] = <<>>
    BY DEF MapInit, Sharing
  <2>3. Cardinality({}) = 0
    BY FS_EmptySet
  <2> QED
    BY <2>1, <2>2, <2>3 DEF CopiesForRules
<1>2. MapTypeOK /\ CopiesForRules /\ [MapNext]_mapVars => MapTypeOK' /\ CopiesForRules'
  <2> SUFFICES ASSUME MapTypeOK, CopiesForRules, [MapNext]_mapVars PROVE MapTypeOK' /\ CopiesForRules'
    OBVIOUS
  <2>1. ASSUME NEW a \in Addresses, ecall_cls_rule_init(a) PROVE MapTypeOK' /\ CopiesForRules'
    BY <2>1, CreatedHasCopy, ZenonT(30)
  <2>2. ASSUME NEW a \in Addresses, ecall_cls_rule_destroy(a) PROVE MapTypeOK' /\ CopiesForRules'
    BY <2>2, DestroyedLeavesCopies, ZenonT(30)
  <2>3. ASSUME NEW a \in Addresses, FreeRule(a) PROVE MapTypeOK' /\ CopiesForRules'
    BY <2>3, FreedLeavesCopies, ZenonT(30)
  <2>4. CASE UNCHANGED mapVars
    BY <2>4, ZenonT(30) DEF mapVars, MapTypeOK, CopiesForRules, Sharing
  <2> QED
    BY <2>1, <2>2, <2>3, <2>4 DEF MapNext
<1> QED
  BY <1>1, <1>2, PTL DEF MapSpec
=============================================================================
