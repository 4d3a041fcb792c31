------------------------ MODULE TlsProvisionProofs --------------------------
(***************************************************************************)
(* Proofs about TlsProvision, for any number of programs and keys, and for *)
(* every failure but that of fopen when the sealed files are written: the  *)
(* certificate a program serves with is for the key it serves with.  First *)
(* what each step keeps, then the theorems.                                *)
(***************************************************************************)
EXTENDS TlsProvision, TLAPS

Distinct(s) == \A i, j \in DOMAIN s : s[i] = s[j] => i = j

(* Where a program is: the label tells the positions apart.                *)
LEMMA Labels ==
    /\ \A l : <<l>>[1] = l
    /\ \A i \in Resources : /\ Reads[i] = <<"read", i>> /\ Reads[i][1] = "read" /\ Reads[i][2] = i
                            /\ Opens[i] = <<"open", i>> /\ Opens[i][1] = "open" /\ Opens[i][2] = i
                            /\ Flushes[i] = <<"flush", i>> /\ Flushes[i][1] = "flush"
                            /\ Flushes[i][2] = i
  BY DEF Reads, Opens, Flushes

LEMMA PositionsHold ==
    /\ \A i \in Resources : Reads[i] \in Positions /\ Opens[i] \in Positions /\ Flushes[i] \in Positions
    /\ {<<"off">>, <<"init">>, <<"handshake">>, <<"verdict">>, <<"MOK">>, <<"certificate">>,
        <<"ctx">>, <<"serving">>} \subseteq Positions
  BY DEF Positions, Reads, Opens, Flushes

(* The backlog without one of its connections.                             *)
LEMMA WithoutProperties ==
    ASSUME NEW S, NEW s \in Seq(S), NEW i \in 1 .. Len(s)
    PROVE  /\ Without(s, i) \in Seq(S)
           /\ Len(Without(s, i)) = Len(s) - 1
           /\ \A j \in 1 .. Len(s) - 1 : Without(s, i)[j] = IF j < i THEN s[j] ELSE s[j + 1]
<1>1. Len(s) \in Nat /\ \A j \in 1 .. Len(s) - 1 : s[IF j < i THEN j ELSE j + 1] \in S
  OBVIOUS
<1> QED
  BY <1>1 DEF Without

LEMMA ResetProperties ==
    ASSUME NEW s \in Seq(Programs), Distinct(s), NEW p \in Programs
    PROVE  /\ Reset(s, p) \in Seq(Programs) /\ Distinct(Reset(s, p))
           /\ ~Waits(Reset(s, p), p)
           /\ \A q : Waits(Reset(s, p), q) => Waits(s, q)
<1>1. CASE ~Waits(s, p)
  BY <1>1 DEF Reset
<1>2. CASE Waits(s, p)
  <2> DEFINE k == CHOOSE i \in DOMAIN s : s[i] = p
             t == Without(s, k)
  <2>1. DOMAIN s = 1 .. Len(s) /\ Len(s) \in Nat
    OBVIOUS
  <2>2. k \in 1 .. Len(s) /\ s[k] = p
    BY <1>2, <2>1 DEF Waits
  <2> HIDE DEF k
  <2>3. /\ t \in Seq(Programs) /\ Len(t) = Len(s) - 1 /\ DOMAIN t = 1 .. Len(s) - 1
        /\ \A j \in 1 .. Len(s) - 1 : t[j] = IF j < k THEN s[j] ELSE s[j + 1]
    BY <2>2, WithoutProperties, SMTT(60), ZenonT(30)
  <2> HIDE DEF t
  <2>4. Reset(s, p) = t
    BY <1>2 DEF Reset, t, k
  <2>5. ASSUME NEW i \in 1 .. Len(s) - 1, NEW j \in 1 .. Len(s) - 1, t[i] = t[j]
        PROVE  i = j
    <3> DEFINE old(x) == IF x < k THEN x ELSE x + 1
    <3>1. old(i) \in 1 .. Len(s) /\ old(j) \in 1 .. Len(s) /\ s[old(i)] = s[old(j)]
      BY <2>1, <2>2, <2>3, <2>5
    <3>2. old(i) = old(j)
      BY <2>1, <3>1 DEF Distinct
    <3> QED
      BY <2>1, <2>2, <3>2
  <2>6. ~Waits(t, p)
    <3>1. ASSUME NEW j \in 1 .. Len(s) - 1, t[j] = p PROVE FALSE
      <4> DEFINE old == IF j < k THEN j ELSE j + 1
      <4>1. old \in 1 .. Len(s) /\ old # k /\ s[old] = p
        BY <2>1, <2>2, <2>3, <3>1
      <4> HIDE DEF old
      <4> QED
        BY <2>2, <4>1 DEF Distinct
    <3> QED
      BY <2>3, <3>1 DEF Waits
  <2>7. ASSUME NEW q, Waits(t, q) PROVE Waits(s, q)
    BY <2>1, <2>2, <2>3, <2>7 DEF Waits
  <2>8. Distinct(t)
    BY <2>3, <2>5 DEF Distinct
  <2> QED
    BY <2>3, <2>4, <2>6, <2>7, <2>8
<1> QED
  BY <1>1, <1>2

-----------------------------------------------------------------------------
Serves(p) ==
    At(p, "serving") => /\ enclave[p].cert # NONE /\ enclave[p].cacert # NONE
                        /\ enclave[p].key \in {NONE, enclave[p].cert}

(* Programs that a step leaves alone.                                      *)
Untouched(q) ==
    files'[q] = files[q] /\ rs'[q] = rs[q] /\ pc'[q] = pc[q] /\ enclave'[q] = enclave[q]

LEMMA LocalKept ==
    ASSUME NEW q \in Programs, KeysInv, Untouched(q)
    PROVE  Local(q)' /\ Serves(q)'
<1>1. KeyLast(q)'
  BY DEF KeysInv, Local, KeyLast, Untouched
<1>2. ReadSoFar(q)'
  BY DEF KeysInv, Local, ReadSoFar, At, Untouched
<1>3. WrittenSoFar(q)'
  BY DEF KeysInv, Local, WrittenSoFar, Untouched
<1>4. Holds(q)'
  BY DEF KeysInv, Local, Holds, At, Untouched
<1>5. Serves(q)'
  BY ZenonT(30) DEF KeysInv, ServesOwnKey, Serves, At, Untouched
<1> QED
  BY <1>1, <1>2, <1>3, <1>4, <1>5 DEF Local

LEMMA ServedKept ==
    ASSUME NEW q \in Programs, KeysInv, pc'[q] = pc[q], enclave'[q] = enclave[q],
           UNCHANGED <<ca, request, sc_cert>>, Waits(backlog', q) => Waits(backlog, q)
    PROVE  Served(q)'
  BY DEF KeysInv, Served, At

(* A program that does not wait for the server is not served by it.        *)
LEMMA NotServed ==
    ASSUME NEW p \in Programs, ~Waits(backlog', p),
           pc'[p][1] \notin {"verdict", "MOK", "certificate"}
    PROVE  Served(p)'
  BY Labels DEF Served, At

(* Only a program in its handshake waits.                                  *)
LEMMA NotWaiting ==
    ASSUME NEW p \in Programs, Served(p), backlog' = backlog, pc[p] # <<"handshake">>
    PROVE  ~Waits(backlog', p)
  BY ZenonT(30) DEF Served, At

(* Nor do its files matter to a program that neither reads nor writes.     *)
LEMMA NotReading ==
    ASSUME NEW p \in Programs, pc'[p][1] \notin {"read", "init"}
    PROVE  ReadSoFar(p)'
  BY Labels DEF ReadSoFar, At

LEMMA NotWriting ==
    ASSUME NEW p \in Programs, pc'[p][1] \notin {"open", "flush"}
    PROVE  WrittenSoFar(p)'
<1>1. ASSUME NEW i \in Resources PROVE pc'[p] # Opens[i] /\ pc'[p] # Flushes[i]
  BY Labels
<1> QED
  BY <1>1, ZenonT(30) DEF WrittenSoFar

(* A program about to write a file, or writing it.                         *)
LEMMA AtOpen ==
    ASSUME NEW p \in Programs, NEW i \in Resources, pc'[p] = Opens[i],
           \A j \in 0 .. i - 1 : files'[p][j] = Whole(enclave'[p].key),
           \A r \in Resources : rs'[p][r] = Whole(enclave'[p].key),
           files'[p][SSL_RESOURCE_PK].is = "absent"
    PROVE  WrittenSoFar(p)'
<1>1. ASSUME NEW j \in Resources PROVE pc'[p] # Flushes[j] /\ (pc'[p] = Opens[j] => j = i)
  BY Labels
<1> QED
  BY <1>1, ZenonT(30) DEF WrittenSoFar

LEMMA AtFlush ==
    ASSUME NEW p \in Programs, NEW i \in Resources, pc'[p] = Flushes[i],
           \A j \in 0 .. i - 1 : files'[p][j] = Whole(enclave'[p].key),
           \A r \in Resources : rs'[p][r] = Whole(enclave'[p].key),
           files'[p][i].is \in {"empty", "cut"},
           i # SSL_RESOURCE_PK => files'[p][SSL_RESOURCE_PK].is = "absent"
    PROVE  WrittenSoFar(p)'
<1>1. ASSUME NEW j \in Resources PROVE pc'[p] # Opens[j] /\ (pc'[p] = Flushes[j] => j = i)
  BY Labels
<1> QED
  BY <1>1, ZenonT(30) DEF WrittenSoFar

(* Its key is absent from its files, or the last of them.                  *)
LEMMA KeyAbsent ==
    ASSUME NEW p \in Programs, files'[p][SSL_RESOURCE_PK].is = "absent"
    PROVE  KeyLast(p)'
  BY ZenonT(30) DEF KeyLast

LEMMA KeyPartial ==
    ASSUME NEW p \in Programs, pc'[p][1] \notin {"handshake", "verdict", "MOK", "certificate"},
           \A r \in Resources : files'[p][r].is # "absent",
           files'[p][SSL_RESOURCE_PK].is # "whole"
    PROVE  KeyLast(p)'
<1>1. pc'[p] \notin Asking
  BY Labels DEF Asking
<1> QED
  BY <1>1, ZenonT(30) DEF KeyLast

(* What is left to show of a step of one program.                          *)
LEMMA OneProgram ==
    ASSUME NEW p \in Programs, KeysInv, ProvisionTypeOK', ServerInv',
           \A q \in Programs \ {p} : Untouched(q) /\ Served(q)',
           Local(p)', Serves(p)', Served(p)'
    PROVE  KeysInv'
<1>1. \A q \in Programs : Local(q)' /\ Serves(q)' /\ Served(q)'
  BY LocalKept
<1>2. ServesOwnKey'
  BY <1>1 DEF ServesOwnKey, Serves
<1> QED
  BY <1>1, <1>2 DEF KeysInv

-----------------------------------------------------------------------------
(* A program is killed: its files stay as they are.                        *)
LEMMA KilledStep ==
    ASSUME MaxKeys \in Nat, KeysInv, NEW p \in Programs, Killed(p)
    PROVE  KeysInv'
<1> USE DEF Killed, Goto
<1>1. ProvisionTypeOK /\ ServerInv /\ Local(p)
  BY DEF KeysInv
<1>2. /\ backlog' \in Seq(Programs) /\ Distinct(backlog') /\ ~Waits(backlog', p)
      /\ \A q : Waits(backlog', q) => Waits(backlog, q)
  <2>1. backlog \in Seq(Programs) /\ Distinct(backlog)
    BY <1>1 DEF ProvisionTypeOK, ServerInv, Distinct
  <2> QED
    BY <2>1, ResetProperties
<1>3. pc'[p] = <<"off">> /\ pc'[p][1] = "off" /\ enclave'[p] = Fresh
  BY <1>1 DEF ProvisionTypeOK
<1>4. \A q \in Programs \ {p} : Untouched(q)
  BY <1>1 DEF ProvisionTypeOK, Untouched
<1>5. ProvisionTypeOK'
  <2>1. Fresh \in [key : 0 .. MaxKeys, cert : 0 .. MaxKeys, cacert : 0 .. MaxKeys]
    BY DEF Fresh, NONE
  <2>2. Absent \in File
    BY DEF Absent, NONE, File
  <2> QED
    BY <1>1, <1>2, <2>1, <2>2, PositionsHold, ZenonT(30) DEF ProvisionTypeOK
<1>6. ServerInv'
  BY <1>1, <1>2 DEF ServerInv, Distinct
<1>7. ASSUME NEW q \in Programs \ {p} PROVE Served(q)'
  BY <1>2, <1>4, ServedKept DEF Untouched
<1>8. Served(p)'
  BY <1>2, <1>3, NotServed, ZenonT(30)
<1>9. KeyLast(p)'
  BY <1>1, <1>3 DEF Local, KeyLast, Asking
<1>10. ReadSoFar(p)' /\ WrittenSoFar(p)'
  BY <1>3, NotReading, NotWriting, ZenonT(30)
<1>11. Holds(p)' /\ Serves(p)'
  BY <1>3, Labels DEF Holds, Serves, At, Asking
<1> QED
  BY <1>4, <1>5, <1>6, <1>7, <1>8, <1>9, <1>10, <1>11, OneProgram DEF Local

-----------------------------------------------------------------------------
(* The start of a program, and the files it reads.                         *)
LEMMA StartStep ==
    ASSUME KeysInv, NEW p \in Programs, Start(p)
    PROVE  KeysInv'
<1> USE DEF Start, Goto, Gone, Server, Disk
<1>1. ProvisionTypeOK /\ ServerInv /\ Local(p) /\ Served(p)
  BY DEF KeysInv
<1>2. 0 \in Resources
  BY DEF Resources
<1>3. pc'[p] = Reads[0] /\ pc'[p][1] = "read" /\ pc[p][1] = "off" /\ enclave'[p] = Fresh
  BY <1>1, <1>2, Labels DEF ProvisionTypeOK, At, Local, Holds
<1>4. \A q \in Programs \ {p} : Untouched(q)
  BY <1>1 DEF ProvisionTypeOK, Untouched
<1>5. ProvisionTypeOK'
  BY <1>1, <1>2, PositionsHold, ZenonT(30) DEF ProvisionTypeOK
<1>6. ServerInv'
  BY <1>1 DEF ServerInv
<1>7. \A q \in Programs \ {p} : Served(q)'
  BY <1>4, ServedKept DEF Untouched
<1>8. Served(p)'
  <2>1. ~Waits(backlog, p)
    <3>1. pc[p] # <<"handshake">>
      BY ONLY <1>3, Labels, SMTT(60), ZenonT(30)
    <3> QED
      BY <1>1, <3>1, ZenonT(30) DEF Served, At
  <2> QED
    BY <1>3, <2>1, NotServed
<1>9. KeyLast(p)'
  BY <1>1, <1>3, Labels, SMTT(60), ZenonT(30) DEF Local, KeyLast, Asking
<1>10. ReadSoFar(p)' /\ WrittenSoFar(p)'
  BY <1>3, <1>2, Labels, SMTT(60), ZenonT(30) DEF ReadSoFar, WrittenSoFar, At
<1>11. Holds(p)' /\ Serves(p)'
  BY <1>3, Labels DEF Holds, Serves, At, Asking
<1> QED
  BY <1>4, <1>5, <1>6, <1>7, <1>8, <1>9, <1>10, <1>11, OneProgram DEF Local

LEMMA ReadStep ==
    ASSUME MaxKeys \in Nat, KeysInv, NEW p \in Programs, NEW i \in Resources,
           read_ssl_resource(p, i)
    PROVE  KeysInv'
<1>1. CASE Killed(p)
  BY <1>1, KilledStep
<1>2. CASE /\ rs' = [rs EXCEPT ![p][i] = files[p][i]]
           /\ pc' = [pc EXCEPT ![p] = IF i = SSL_RESOURCE_PK THEN <<"init">> ELSE Reads[i + 1]]
           /\ UNCHANGED <<files, enclave, Server, keys>>
  <2> USE <1>2 DEF Server
  <2>1. ProvisionTypeOK /\ ServerInv /\ Local(p) /\ Served(p)
    BY SMTT(60) DEF KeysInv
  <2>2. pc[p] = Reads[i] /\ pc[p][1] = "read" /\ enclave[p] = Fresh
    BY <2>1, Labels, SMTT(60) DEF read_ssl_resource, Local, Holds
  <2>3. /\ i = SSL_RESOURCE_PK => pc'[p] = <<"init">> /\ pc'[p][1] = "init"
        /\ i # SSL_RESOURCE_PK => pc'[p] = Reads[i + 1] /\ pc'[p][1] = "read" /\ i + 1 \in Resources
                                 /\ pc'[p][2] = i + 1
    <3>1. pc'[p] = IF i = SSL_RESOURCE_PK THEN <<"init">> ELSE Reads[i + 1]
      BY <2>1, ZenonT(30) DEF ProvisionTypeOK
    <3>2. i # SSL_RESOURCE_PK => i + 1 \in Resources
      BY DEF Resources, SSL_RESOURCE_PK
    <3> QED
      BY ONLY <3>1, <3>2, Labels
  <2>4. rs'[p] \in [Resources -> File] /\ \A j \in Resources : rs'[p][j] = IF j = i THEN files[p][i] ELSE rs[p][j]
    BY <2>1, ZenonT(30) DEF ProvisionTypeOK
  <2>5. \A q \in Programs \ {p} : Untouched(q)
    BY <2>1 DEF ProvisionTypeOK, Untouched
  <2>6. ProvisionTypeOK'
    BY <2>1, <2>3, PositionsHold, ZenonT(30) DEF ProvisionTypeOK
  <2>7. ServerInv'
    BY <2>1 DEF ServerInv
  <2>8. \A q \in Programs \ {p} : Served(q)'
    BY <2>5, ServedKept DEF Untouched
  <2>9. Served(p)'
    <3>1. ~Waits(backlog, p)
      <4>1. pc[p] # <<"handshake">>
        BY ONLY <2>2, SMTT(60), ZenonT(30)
      <4> QED
        BY <2>1, <4>1, ZenonT(30) DEF Served, At
    <3> QED
      BY <2>3, <3>1, NotServed, ZenonT(30)
  <2>10. KeyLast(p)'
    BY <2>1, <2>3, Labels DEF Local, KeyLast, Asking
  <2>11. ReadSoFar(p)'
    <3>1. \A j \in 0 .. i : rs'[p][j] = files[p][j]
      BY <2>1, <2>2, <2>4 DEF Local, ReadSoFar, Resources
    <3>2. CASE i = SSL_RESOURCE_PK
      <4>1. rs'[p] = files[p]
        BY <2>1, <2>4, <3>1, <3>2, SMTT(60), ZenonT(30) DEF Resources, SSL_RESOURCE_PK, ProvisionTypeOK
      <4> QED
        BY <2>3, <3>2, <4>1, Labels, ZenonT(30) DEF ReadSoFar, At
    <3>3. CASE i # SSL_RESOURCE_PK
      BY <2>3, <3>1, <3>3, Labels, SMTT(60), ZenonT(30) DEF ReadSoFar, At, Resources
    <3> QED
      BY <3>2, <3>3
  <2>12. WrittenSoFar(p)'
    BY ONLY <2>3, NotWriting, ZenonT(30)
  <2>13. Holds(p)' /\ Serves(p)'
    BY <2>2, <2>3, Labels DEF Holds, Serves, At, Asking
  <2> QED
    BY <2>5, <2>6, <2>7, <2>8, <2>9, <2>10, <2>11, <2>12, <2>13, OneProgram DEF Local
<1> QED
  BY <1>1, <1>2 DEF read_ssl_resource, Goto

(* ecall_ssl_library_init.                                                 *)
LEMMA LoadStep ==
    ASSUME MaxKeys \in Nat, KeysInv, NEW p \in Programs, At(p, "init"), load_sealed_ssl_resources(p),
           UNCHANGED <<files, ca, request, sc_cert>>
    PROVE  KeysInv'
<1> USE DEF load_sealed_ssl_resources, Goto
<1>1. ProvisionTypeOK /\ ServerInv /\ Local(p) /\ Served(p)
  BY ZenonT(30) DEF KeysInv
<1>2. pc[p][1] = "init" /\ pc'[p] = <<"ctx">> /\ pc'[p][1] = "ctx"
  BY <1>1, Labels DEF ProvisionTypeOK, At
<1>3. \A q \in Programs \ {p} : Untouched(q)
  BY <1>1 DEF ProvisionTypeOK, Untouched
<1>4. \A r \in Resources : Unsealed(rs[p][r]) \in 0 .. MaxKeys
  <2>1. ASSUME NEW r \in Resources PROVE Unsealed(rs[p][r]) \in 0 .. MaxKeys
    <3>1. rs[p][r] \in File
      BY <1>1 DEF ProvisionTypeOK
    <3>2. 0 \in 0 .. MaxKeys
      OBVIOUS
    <3> QED
      BY <3>1, <3>2, ZenonT(30) DEF File, Unsealed, NONE
  <2> QED
    BY <2>1, ZenonT(30)
<1>5. ProvisionTypeOK'
  <2>1. {SSL_RESOURCE_PK, SSL_RESOURCE_CERT, SSL_RESOURCE_CA_CERT} \subseteq Resources
    BY DEF Resources, SSL_RESOURCE_PK, SSL_RESOURCE_CERT, SSL_RESOURCE_CA_CERT
  <2>2. enclave' \in [Programs -> [key : 0 .. MaxKeys, cert : 0 .. MaxKeys, cacert : 0 .. MaxKeys]]
    BY <1>1, <1>4, <2>1, ZenonT(30) DEF ProvisionTypeOK
  <2>3. pc' \in [Programs -> Positions]
    BY <1>1, PositionsHold, ZenonT(30) DEF ProvisionTypeOK
  <2> QED
    BY <1>1, <2>2, <2>3, ZenonT(30) DEF ProvisionTypeOK
<1>6. ServerInv'
  BY <1>1 DEF ServerInv
<1>7. \A q \in Programs \ {p} : Served(q)'
  BY <1>3, ServedKept DEF Untouched
<1>8. Served(p)'
  <2>1. ~Waits(backlog, p)
    <3>1. pc[p] # <<"handshake">>
      BY ONLY <1>2, Labels
    <3> QED
      BY <1>1, <3>1, ZenonT(30) DEF Served, At
  <2> QED
    BY <1>2, <2>1, NotServed, SMTT(60), ZenonT(30)
<1>9. KeyLast(p)'
  <2>1. files' = files
    OBVIOUS
  <2> QED
    BY ONLY <1>1, <1>2, <2>1, Labels DEF Local, KeyLast, Asking
<1>10. ReadSoFar(p)' /\ WrittenSoFar(p)'
  BY <1>2, NotReading, NotWriting, ZenonT(30)
<1>11. enclave'[p].key \in {NONE, enclave'[p].cert} \/ enclave'[p].cert = NONE
  <2>1. /\ enclave'[p].key = Unsealed(files[p][SSL_RESOURCE_PK])
        /\ enclave'[p].cert = Unsealed(files[p][SSL_RESOURCE_CERT])
    BY <1>1, ZenonT(30) DEF ProvisionTypeOK, Local, ReadSoFar
  <2> QED
    BY <1>1, <2>1, ZenonT(30) DEF Local, KeyLast, Unsealed
<1>12. Holds(p)' /\ Serves(p)'
  BY ONLY <1>2, <1>11, Labels, SMTT(60) DEF Holds, Serves, At, Asking
<1> QED
  BY <1>3, <1>5, <1>6, <1>7, <1>8, <1>9, <1>10, <1>12, OneProgram DEF Local

(* A program that waits for the server, or gives up.                       *)
LEMMA AskingOn ==
    ASSUME KeysInv, NEW p \in Programs, pc[p] \in Asking,
           files'[p] = files[p], rs'[p] = rs[p], enclave'[p] = enclave[p],
           pc'[p] \in Asking \cup {<<"ctx">>}
    PROVE  Local(p)' /\ Serves(p)'
<1>1. Local(p)
  BY ZenonT(30) DEF KeysInv
<1>2. pc'[p][1] \in {"handshake", "verdict", "MOK", "certificate", "ctx"}
  BY Labels, SMTT(60), ZenonT(30) DEF Asking
<1>3. KeyLast(p)'
  BY <1>1 DEF Local, KeyLast
<1>4. ReadSoFar(p)' /\ WrittenSoFar(p)'
  BY ONLY <1>2, NotReading, NotWriting, ZenonT(30)
<1>5. Holds(p)'
  <2>1. pc'[p] # <<"off">> /\ pc'[p] # <<"init">>
    BY ONLY <1>2
  <2>2. Holds(p)
    BY <1>1, ZenonT(30) DEF Local
  <2> QED
    BY <1>2, <2>1, <2>2, ZenonT(30) DEF Holds, At
<1>6. Serves(p)'
  BY <1>2, Labels DEF Serves, At
<1> QED
  BY <1>3, <1>4, <1>5, <1>6, ZenonT(30) DEF Local

LEMMA SeedStep ==
    ASSUME KeysInv, NEW p \in Programs, At(p, "init"), Goto(p, <<"ctx">>),
           UNCHANGED <<files, rs, enclave, backlog, ca, request, sc_cert, keys>>
    PROVE  KeysInv'
<1> USE DEF Goto
<1>1. ProvisionTypeOK /\ ServerInv /\ Local(p) /\ Served(p)
  BY ZenonT(30) DEF KeysInv
<1>2. pc[p][1] = "init" /\ pc'[p] = <<"ctx">> /\ pc'[p][1] = "ctx" /\ enclave'[p] = Fresh
  BY <1>1, Labels DEF ProvisionTypeOK, At, Local, Holds
<1>3. \A q \in Programs \ {p} : Untouched(q)
  BY <1>1 DEF ProvisionTypeOK, Untouched
<1>4. ProvisionTypeOK'
  BY <1>1, PositionsHold, ZenonT(30) DEF ProvisionTypeOK
<1>5. ServerInv'
  BY <1>1, ZenonT(30) DEF ServerInv
<1>6. \A q \in Programs \ {p} : Served(q)'
  BY <1>3, ServedKept DEF Untouched
<1>7. Served(p)'
  <2>1. ~Waits(backlog', p)
    <3>1. pc[p] # <<"handshake">>
      BY ONLY <1>2
    <3> QED
      BY <1>1, <3>1, NotWaiting, ZenonT(30)
  <2> QED
    BY <1>2, <2>1, NotServed, ZenonT(30)
<1>8. KeyLast(p)'
  <2>1. KeyLast(p)
    BY <1>1, ZenonT(30) DEF Local
  <2> QED
    BY ONLY <1>2, <2>1, files' = files, SMTT(60) DEF KeyLast, Asking
<1>9. ReadSoFar(p)' /\ WrittenSoFar(p)'
  BY ONLY <1>2, NotReading, NotWriting, p \in Programs, SMTT(60)
<1>10. Holds(p)' /\ Serves(p)'
  BY <1>2, Labels DEF Holds, Serves, At, Asking, Fresh
<1> QED
  BY <1>3, <1>4, <1>5, <1>6, <1>7, <1>8, <1>9, <1>10, OneProgram DEF Local

(* A key is made only when its file is absent: had it been there, all      *)
(* three would have been.                                                  *)
LEMMA GenerateStep ==
    ASSUME MaxKeys \in Nat, KeysInv, NEW p \in Programs, At(p, "init"), GenerateKey(p),
           UNCHANGED <<files, ca, request, sc_cert>>
    PROVE  KeysInv'
<1> USE DEF GenerateKey, Goto
<1>1. ProvisionTypeOK /\ ServerInv /\ Local(p) /\ Served(p)
  BY DEF KeysInv
<1>2. pc[p][1] = "init" /\ pc'[p] = <<"handshake">> /\ pc'[p][1] = "handshake"
  BY <1>1, Labels DEF ProvisionTypeOK, At
<1>3. keys' \in 1 .. MaxKeys
  <2>1. keys \in 0 .. MaxKeys /\ keys < MaxKeys /\ keys' = keys + 1
    BY <1>1, ZenonT(30) DEF ProvisionTypeOK
  <2> QED
    BY ONLY <2>1, MaxKeys \in Nat
<1>4. enclave' = [enclave EXCEPT ![p] = [enclave[p] EXCEPT !.key = keys']]
  OBVIOUS
<1>5. enclave'[p] = [key |-> keys', cert |-> NONE, cacert |-> NONE]
  <2>1. enclave[p] = Fresh
    BY <1>1, <1>2 DEF Local, Holds, At
  <2>2. enclave'[p] = [enclave[p] EXCEPT !.key = keys']
    BY <1>1, <1>4 DEF ProvisionTypeOK
  <2> QED
    BY <2>1, <2>2 DEF Fresh
<1>6. SSL_RESOURCE_PK \in Resources /\ Whole(keys') \in File
  BY <1>3 DEF SSL_RESOURCE_PK, Resources, Whole, File
<1>7. rs' = [rs EXCEPT ![p] = [rs[p] EXCEPT ![SSL_RESOURCE_PK] = Whole(keys')]]
  OBVIOUS
<1>8. rs'[p][SSL_RESOURCE_PK] = Whole(keys') /\ rs' \in [Programs -> [Resources -> File]]
  BY ONLY <1>1, <1>6, <1>7, ZenonT(30) DEF ProvisionTypeOK
<1>9. \A q \in Programs \ {p} : Untouched(q)
  BY <1>1, <1>4, <1>7 DEF ProvisionTypeOK, Untouched
<1>10. ~Waits(backlog, p)
  BY <1>1, <1>2, Labels DEF Served, At
<1>11. /\ backlog' \in Seq(Programs) /\ Distinct(backlog')
       /\ \A q \in Programs \ {p} : Waits(backlog', q) => Waits(backlog, q)
  <2>1. backlog \in Seq(Programs) /\ Distinct(backlog)
    BY <1>1 DEF ProvisionTypeOK, ServerInv, Distinct
  <2>2. CASE backlog' = backlog
    BY <2>1, <2>2
  <2>3. CASE backlog' = Append(backlog, p)
    <3> DEFINE n == Len(backlog)
    <3>1. n \in Nat /\ DOMAIN backlog = 1 .. n
      BY <2>1
    <3>2. /\ backlog' \in Seq(Programs) /\ DOMAIN backlog' = 1 .. n + 1
          /\ backlog'[n + 1] = p /\ \A i \in 1 .. n : backlog'[i] = backlog[i]
      BY <2>1, <2>3, <3>1
    <3> HIDE DEF n
    <3>3. \A i \in 1 .. n : backlog[i] # p
      BY <1>10, <3>1 DEF Waits
    <3>4. Distinct(backlog')
      BY <2>1, <3>1, <3>2, <3>3 DEF Distinct
    <3>5. ASSUME NEW q \in Programs \ {p}, Waits(backlog', q) PROVE Waits(backlog, q)
      BY <3>1, <3>2, <3>5 DEF Waits
    <3> QED
      BY <3>2, <3>4, <3>5
  <2> QED
    BY <2>2, <2>3
<1>12. ProvisionTypeOK'
  <2>1. enclave'[p] \in [key : 0 .. MaxKeys, cert : 0 .. MaxKeys, cacert : 0 .. MaxKeys]
    BY <1>3, <1>5 DEF NONE
  <2>2. pc' \in [Programs -> Positions]
    BY <1>1, PositionsHold DEF ProvisionTypeOK
  <2>3. enclave' \in [Programs -> [key : 0 .. MaxKeys, cert : 0 .. MaxKeys, cacert : 0 .. MaxKeys]]
    BY ONLY <1>1, <1>4, <2>1 DEF ProvisionTypeOK
  <2>4. keys' \in 0 .. MaxKeys
    BY <1>3
  <2> QED
    BY <1>1, <1>8, <1>11, <2>2, <2>3, <2>4, ZenonT(30) DEF ProvisionTypeOK
<1>13. ServerInv'
  BY <1>1, <1>11 DEF ServerInv, Distinct
<1>14. \A q \in Programs \ {p} : Served(q)'
  BY <1>9, <1>11, ServedKept DEF Untouched
<1>15. Served(p)'
  BY <1>2, Labels DEF Served, At
<1>16. files[p][SSL_RESOURCE_PK].is = "absent"
  BY <1>1 DEF Local, ReadSoFar, KeyLast, all_ssl_resources_exist
<1>17. KeyLast(p)'
  BY <1>1, <1>16 DEF Local, KeyLast
<1>18. ReadSoFar(p)' /\ WrittenSoFar(p)'
  BY <1>2, NotReading, NotWriting
<1>19. Holds(p)' /\ Serves(p)'
  BY <1>2, <1>3, <1>5, <1>8, Labels DEF Holds, Serves, At, NONE
<1> QED
  BY <1>9, <1>12, <1>13, <1>14, <1>15, <1>17, <1>18, <1>19, OneProgram DEF Local

LEMMA InitStep ==
    ASSUME MaxKeys \in Nat, KeysInv, NEW p \in Programs, ecall_ssl_library_init(p)
    PROVE  KeysInv'
  BY LoadStep, GenerateStep, SeedStep DEF ecall_ssl_library_init

-----------------------------------------------------------------------------
(* The handshake, the verdict and the request.                             *)
LEMMA HandshakeStep ==
    ASSUME KeysInv, NEW p \in Programs, pc[p] \in Asking, ~Waits(backlog, p),
           Unprovisioned(p), UNCHANGED <<Disk, enclave, Server, keys>>
    PROVE  KeysInv'
<1> USE DEF Unprovisioned, Goto, Disk, Server
<1>1. ProvisionTypeOK /\ ServerInv
  BY ZenonT(30) DEF KeysInv
<1>2. pc'[p] = <<"ctx">> /\ pc'[p][1] = "ctx"
  BY <1>1, Labels DEF ProvisionTypeOK
<1>3. \A q \in Programs \ {p} : Untouched(q)
  BY <1>1 DEF ProvisionTypeOK, Untouched
<1>4. ProvisionTypeOK' /\ ServerInv'
  BY <1>1, PositionsHold, ZenonT(30) DEF ProvisionTypeOK, ServerInv
<1>5. \A q \in Programs \ {p} : Served(q)'
  BY <1>3, ServedKept DEF Untouched
<1>6. Served(p)'
  BY <1>2, NotServed
<1>7. Local(p)' /\ Serves(p)'
  BY <1>2, AskingOn, ZenonT(30)
<1> QED
  BY <1>3, <1>4, <1>5, <1>6, <1>7, OneProgram

LEMMA SendStep ==
    ASSUME KeysInv, NEW p \in Programs, SendRequest(p)
    PROVE  KeysInv'
<1> USE DEF SendRequest, Goto, Disk
<1>1. ProvisionTypeOK /\ ServerInv /\ Local(p) /\ Served(p)
  BY ZenonT(30) DEF KeysInv
<1>2. pc[p] = <<"MOK">> /\ pc'[p] = <<"certificate">> /\ pc'[p][1] = "certificate"
  BY <1>1, Labels DEF ProvisionTypeOK, At
<1>3. \A q \in Programs \ {p} : Untouched(q)
  BY <1>1, ZenonT(30) DEF ProvisionTypeOK, Untouched
<1>4. ca.client = p => ca.at = "request" /\ request' = enclave[p].key
  BY <1>1 DEF Served
<1>5. ProvisionTypeOK'
  <2>1. request' \in 0 .. MaxKeys
    BY <1>1 DEF ProvisionTypeOK
  <2> QED
    BY <1>1, <2>1, PositionsHold, ZenonT(30) DEF ProvisionTypeOK
<1>6. ServerInv'
  BY <1>1, <1>4, ZenonT(30) DEF ServerInv
<1>7. ASSUME NEW q \in Programs \ {p} PROVE Served(q)'
  BY <1>3, ZenonT(30) DEF KeysInv, Served, At, Untouched
<1>8. Served(p)'
  <2>1. ~Waits(backlog', p)
    <3>1. pc[p] # <<"handshake">>
      BY ONLY <1>2
    <3> QED
      BY <1>1, <3>1, NotWaiting, ZenonT(30)
  <2>2. pc'[p] # <<"verdict">> /\ pc'[p] # <<"MOK">>
    BY ONLY <1>2
  <2> QED
    BY <1>2, <1>4, <2>1, <2>2, ZenonT(30) DEF Served, At
<1>9. Local(p)' /\ Serves(p)'
  BY <1>2, AskingOn DEF Asking
<1> QED
  BY <1>3, <1>5, <1>6, <1>7, <1>8, <1>9, OneProgram

LEMMA HandshakeFailsStep ==
    ASSUME KeysInv, NEW p \in Programs, HandshakeFails(p)
    PROVE  KeysInv'
<1>1. pc[p] \in Asking
  BY DEF HandshakeFails, At, Asking
<1> QED
  BY <1>1, HandshakeStep DEF HandshakeFails

LEMMA ReadFailsStep ==
    ASSUME MaxKeys \in Nat, KeysInv, NEW p \in Programs, ReadFails(p)
    PROVE  KeysInv'
<1>1. CASE Killed(p)
  BY <1>1, KilledStep
<1>2. CASE At(p, "verdict") /\ Unprovisioned(p) /\ UNCHANGED <<Disk, enclave, Server, keys>>
  <2>1. pc[p] \in Asking /\ ~Waits(backlog, p)
    BY <1>2, Labels DEF KeysInv, Served, At, Asking
  <2> QED
    BY <1>2, <2>1, HandshakeStep, ZenonT(30)
<1> QED
  BY <1>1, <1>2 DEF ReadFails

(* SSL_CTX_new with a certificate: it is for the key of the enclave.       *)
LEMMA ContextStep ==
    ASSUME MaxKeys \in Nat, KeysInv, NEW p \in Programs, ecall_ssl_ctx_new(p)
    PROVE  KeysInv'
<1>1. CASE Killed(p)
  BY <1>1, KilledStep
<1>2. CASE /\ NONE \notin {enclave[p].cert, enclave[p].cacert}
           /\ Goto(p, <<"serving">>) /\ UNCHANGED <<Disk, enclave, Server, keys>>
  <2> USE <1>2 DEF Goto, Disk, Server
  <2>1. ProvisionTypeOK /\ ServerInv /\ Local(p) /\ Served(p)
    BY ZenonT(30) DEF KeysInv
  <2>2. At(p, "ctx") /\ pc[p][1] = "ctx" /\ pc'[p] = <<"serving">> /\ pc'[p][1] = "serving"
    BY <2>1, Labels DEF ProvisionTypeOK, At, ecall_ssl_ctx_new
  <2>3. \A q \in Programs \ {p} : Untouched(q)
    BY <2>1, ZenonT(30) DEF ProvisionTypeOK, Untouched
  <2>4. ProvisionTypeOK' /\ ServerInv'
    BY <2>1, PositionsHold, ZenonT(30) DEF ProvisionTypeOK, ServerInv
  <2>5. \A q \in Programs \ {p} : Served(q)'
    BY <2>3, ServedKept DEF Untouched
  <2>6. Served(p)'
    <3>1. backlog' = backlog
      BY ONLY <1>2, ZenonT(30) DEF Server
    <3>2. ~Waits(backlog', p)
      <4>1. pc[p] # <<"handshake">>
        BY ONLY <2>2, SMTT(60), ZenonT(30)
      <4> QED
        BY <2>1, <3>1, <4>1, NotWaiting, ZenonT(30)
    <3> QED
      BY <2>2, <3>2, NotServed, ZenonT(30)
  <2>7. KeyLast(p)'
    <3>1. files' = files
      BY ONLY <1>2, SMTT(60) DEF Disk
    <3> QED
      BY ONLY <2>1, <2>2, <3>1, Labels DEF Local, KeyLast, Asking
  <2>8. ReadSoFar(p)' /\ WrittenSoFar(p)' /\ Holds(p)'
    <3>1. Holds(p)'
      BY ONLY <2>2, Labels, SMTT(60), ZenonT(30) DEF Holds, At, Asking
    <3> QED
      BY ONLY <2>2, <3>1, NotReading, NotWriting, p \in Programs, SMTT(60)
  <2>9. Serves(p)'
    <3>1. enclave' = enclave /\ NONE \notin {enclave[p].cert, enclave[p].cacert}
      BY ONLY <1>2
    <3> QED
      BY ONLY <2>1, <2>2, <3>1 DEF Local, Holds, Serves
  <2> QED
    BY <2>3, <2>4, <2>5, <2>6, <2>7, <2>8, <2>9, OneProgram DEF Local
<1> QED
  BY <1>1, <1>2, ZenonT(30) DEF ecall_ssl_ctx_new


(* The files are written.  What a step changes is one of them and where    *)
(* the program is.                                                         *)
LEMMA FileStep ==
    ASSUME KeysInv, NEW p \in Programs, NEW i \in Resources, NEW f \in File,
           NEW next \in Positions,
           pc[p][1] \in {"open", "flush"},
           next[1] \in {"open", "flush", "ctx"},
           files' = [files EXCEPT ![p][i] = f], pc' = [pc EXCEPT ![p] = next],
           UNCHANGED <<rs, enclave, Server, keys>>,
           KeyLast(p)', WrittenSoFar(p)'
    PROVE  KeysInv'
<1> USE DEF Server
<1>1. ProvisionTypeOK /\ ServerInv /\ Local(p) /\ Served(p)
  BY DEF KeysInv
<1>2. pc'[p][1] \in {"open", "flush", "ctx"}
  BY <1>1 DEF ProvisionTypeOK
<1>3. files' = [files EXCEPT ![p] = [files[p] EXCEPT ![i] = f]]
  OBVIOUS
<1>4. \A q \in Programs \ {p} : Untouched(q)
  BY <1>1, <1>3, ZenonT(30) DEF ProvisionTypeOK, Untouched
<1>5. ProvisionTypeOK' /\ ServerInv'
  <2>1. files' \in [Programs -> [Resources -> File]]
    BY ONLY <1>1, <1>3, p \in Programs, i \in Resources, f \in File DEF ProvisionTypeOK
  <2>2. pc' \in [Programs -> Positions]
    BY <1>1, ZenonT(30) DEF ProvisionTypeOK
  <2> QED
    BY <1>1, <2>1, <2>2, ZenonT(30) DEF ProvisionTypeOK, ServerInv
<1>6. \A q \in Programs \ {p} : Served(q)'
  BY <1>4, ServedKept DEF Untouched
<1>7. Served(p)'
  <2>1. ~Waits(backlog', p)
    BY <1>1, Labels DEF Served, At
  <2> QED
    BY <1>2, <2>1, NotServed
<1>8. ReadSoFar(p)' /\ Holds(p)' /\ Serves(p)'
  <2>1. enclave[p].cert = enclave[p].key
    BY <1>1 DEF Local, Holds
  <2> QED
    BY <1>2, <2>1, Labels DEF ReadSoFar, Holds, Serves, At, Asking
<1> QED
  BY <1>4, <1>5, <1>6, <1>7, <1>8, OneProgram DEF Local

LEMMA OpenStep ==
    ASSUME MaxKeys \in Nat, "open" \notin Faults, KeysInv, NEW p \in Programs, NEW i \in Resources,
           OpenFile(p, i)
    PROVE  KeysInv'
<1> DEFINE f == [is |-> "empty", of |-> NONE]
<1>1. ProvisionTypeOK /\ KeyLast(p) /\ WrittenSoFar(p)
  BY DEF KeysInv, Local
<1>2. /\ pc[p] = Opens[i] /\ pc[p][1] = "open" /\ files' = [files EXCEPT ![p][i] = f]
      /\ pc' = [pc EXCEPT ![p] = Flushes[i]] /\ UNCHANGED <<rs, enclave, Server, keys>>
  BY Labels DEF OpenFile, Goto
<1>3. /\ \A j \in 0 .. i - 1 : files[p][j] = Whole(enclave[p].key)
      /\ \A r \in Resources : rs[p][r] = Whole(enclave[p].key)
      /\ files[p][SSL_RESOURCE_PK].is = "absent"
  BY ONLY <1>1, <1>2, ZenonT(30) DEF WrittenSoFar
<1>4. /\ files'[p] \in [Resources -> File]
      /\ \A r \in Resources : files'[p][r] = IF r = i THEN f ELSE files[p][r]
      /\ pc'[p] = Flushes[i] /\ pc'[p][1] = "flush" /\ pc'[p][2] = i
      /\ f \in File /\ Flushes[i] \in Positions
  <2>1. f \in File
    BY DEF File, NONE
  <2>2. files' = [files EXCEPT ![p] = [files[p] EXCEPT ![i] = f]]
    BY <1>2
  <2>3. files'[p] = [files[p] EXCEPT ![i] = f] /\ files[p] \in [Resources -> File]
    BY <1>1, <2>2, ZenonT(30) DEF ProvisionTypeOK
  <2>4. pc'[p] = Flushes[i]
    BY <1>1, <1>2, ZenonT(30) DEF ProvisionTypeOK
  <2> HIDE DEF f
  <2>5. /\ files'[p] \in [Resources -> File]
        /\ \A r \in Resources : files'[p][r] = IF r = i THEN f ELSE files[p][r]
    BY ONLY <2>1, <2>3, i \in Resources, ZenonT(30)
  <2> QED
    BY <2>1, <2>4, <2>5, Labels, PositionsHold
<1>5. KeyLast(p)'
  <2>1. CASE i = SSL_RESOURCE_PK
    <3>1. \A r \in Resources : r = i \/ r \in 0 .. i - 1
      BY <2>1 DEF Resources, SSL_RESOURCE_PK
    <3>2. \A r \in Resources : files'[p][r].is \in {"empty", "whole"}
      BY ONLY <1>3, <1>4, <3>1 DEF Whole
    <3>3. files'[p][SSL_RESOURCE_PK].is = "empty"
      BY ONLY <1>4, <2>1, i \in Resources
    <3> QED
      BY <1>4, <3>2, <3>3, KeyPartial, ZenonT(30)
  <2>2. CASE i # SSL_RESOURCE_PK
    <3>1. SSL_RESOURCE_PK \in Resources
      BY DEF Resources, SSL_RESOURCE_PK
    <3> QED
      BY <1>3, <1>4, <2>2, <3>1, KeyAbsent, ZenonT(30)
  <2> QED
    BY <2>1, <2>2, ZenonT(30)
<1>6. WrittenSoFar(p)'
  <2>1. SSL_RESOURCE_PK \in Resources /\ \A j \in 0 .. i - 1 : j \in Resources /\ j # i
    BY DEF Resources, SSL_RESOURCE_PK
  <2>2. \A j \in 0 .. i - 1 : files'[p][j] = files[p][j]
    BY <1>4, <2>1, ZenonT(30)
  <2>3. files'[p][i].is = "empty" /\ (i # SSL_RESOURCE_PK => files'[p][SSL_RESOURCE_PK].is = "absent")
    BY ONLY <1>3, <1>4, <2>1, i \in Resources
  <2> QED
    BY <1>2, <1>3, <1>4, <2>2, <2>3, AtFlush, ZenonT(30)
<1> HIDE DEF f
<1> QED
  BY <1>2, <1>4, <1>5, <1>6, Labels, FileStep, ZenonT(30)

LEMMA WriteStep ==
    ASSUME KeysInv, NEW p \in Programs, NEW i \in Resources, WriteFile(p, i)
    PROVE  KeysInv'
<1> DEFINE k == enclave[p].key
           cut == [is |-> "cut", of |-> k]
<1>1. ProvisionTypeOK /\ KeyLast(p) /\ WrittenSoFar(p) /\ pc[p] = Flushes[i] /\ pc[p][1] = "flush" /\ pc[p][2] = i
  BY Labels DEF KeysInv, Local, WriteFile
<1>2. /\ \A j \in 0 .. i - 1 : files[p][j] = Whole(k)
      /\ \A r \in Resources : rs[p][r] = Whole(k)
      /\ i # SSL_RESOURCE_PK => files[p][SSL_RESOURCE_PK].is = "absent"
  BY ONLY <1>1, ZenonT(30) DEF WrittenSoFar
<1>3. Whole(k) \in File /\ cut \in File
  BY <1>1 DEF ProvisionTypeOK, File, Whole
<1>4. UNCHANGED <<rs, enclave, Server, keys>>
  BY ZenonT(30) DEF WriteFile
<1>5. ASSUME NEW f \in File, files' = [files EXCEPT ![p][i] = f]
      PROVE  files'[p] \in [Resources -> File]
             /\ \A r \in Resources : files'[p][r] = IF r = i THEN f ELSE files[p][r]
  <2>1. files' = [files EXCEPT ![p] = [files[p] EXCEPT ![i] = f]]
    BY <1>5
  <2> QED
    BY <1>1, <2>1, ZenonT(30) DEF ProvisionTypeOK
<1>6. CASE files' = [files EXCEPT ![p][i] = rs[p][i]] /\ Goto(p, AfterFile(i))
  <2>1. files' = [files EXCEPT ![p][i] = Whole(k)]
    BY <1>2, <1>6, ZenonT(30)
  <2>2. \A r \in Resources : files'[p][r] = IF r = i THEN Whole(k) ELSE files[p][r]
    BY <1>3, <1>5, <2>1, ZenonT(30)
  <2>3. /\ AfterFile(i) \in Positions
        /\ i = SSL_RESOURCE_PK => AfterFile(i) = <<"ctx">> /\ AfterFile(i)[1] = "ctx"
        /\ i # SSL_RESOURCE_PK => /\ i + 1 \in Resources /\ AfterFile(i) = Opens[i + 1]
                                  /\ AfterFile(i)[1] = "open" /\ AfterFile(i)[2] = i + 1
    BY ONLY Labels, PositionsHold, SMTT(60) DEF AfterFile, Resources, SSL_RESOURCE_PK
  <2>4. pc' = [pc EXCEPT ![p] = AfterFile(i)] /\ pc'[p] = AfterFile(i)
    BY ONLY <1>1, <1>6, ZenonT(30) DEF Goto, ProvisionTypeOK
  <2>5. \A j \in 0 .. i : files'[p][j] = Whole(k)
    BY <1>2, <2>2 DEF Resources
  <2>6. KeyLast(p)'
    <3>1. CASE i = SSL_RESOURCE_PK
      <4>1. \A r \in Resources : files'[p][r] = Whole(k)
        BY <2>5, <3>1 DEF Resources, SSL_RESOURCE_PK
      <4>2. SSL_RESOURCE_PK \in Resources /\ SSL_RESOURCE_CERT \in Resources
        BY ONLY TRUE, SMTT(60) DEF Resources, SSL_RESOURCE_PK, SSL_RESOURCE_CERT
      <4> QED
        BY ONLY <2>3, <2>4, <3>1, <4>1, <4>2, Labels, SMTT(60) DEF KeyLast, Asking, Whole
    <3>2. CASE i # SSL_RESOURCE_PK
      BY ONLY <1>2, <2>2, <2>3, <2>4, <3>2, Labels, SMTT(60) DEF KeyLast, Asking, Resources, SSL_RESOURCE_PK
    <3> QED
      BY ONLY <3>1, <3>2, ZenonT(30)
  <2>7. WrittenSoFar(p)'
    <3>1. CASE i = SSL_RESOURCE_PK
      BY ONLY <2>3, <2>4, <3>1, Labels, SMTT(60) DEF WrittenSoFar
    <3>2. CASE i # SSL_RESOURCE_PK
      BY ONLY <1>2, <1>4, <2>2, <2>3, <2>4, <2>5, <3>2, Labels, SMTT(60)
         DEF WrittenSoFar, Resources, SSL_RESOURCE_PK
    <3> QED
      BY <3>1, <3>2
  <2>8. AfterFile(i)[1] \in {"open", "flush", "ctx"}
    BY <2>3
  <2> QED
    BY ONLY KeysInv, <1>1, <1>3, <1>4, <2>1, <2>3, <2>4, <2>6, <2>7, <2>8, FileStep,
            p \in Programs, i \in Resources, ZenonT(30)
<1>7. ASSUME NEW next \in Positions, next = pc[p] \/ next = <<"ctx">>,
             files' = [files EXCEPT ![p][i] = [rs[p][i] EXCEPT !.is = "cut"]],
             pc' = [pc EXCEPT ![p] = next]
      PROVE  KeysInv'
  <2>1. files' = [files EXCEPT ![p][i] = cut]
    <3>1. rs[p][i] = [is |-> "whole", of |-> k]
      BY <1>2 DEF Whole
    <3>2. [rs[p][i] EXCEPT !.is = "cut"] = cut
      BY <3>1
    <3> QED
      BY <1>7, <3>2, ZenonT(30)
  <2>2. \A r \in Resources : files'[p][r] = IF r = i THEN cut ELSE files[p][r]
    BY <1>3, <1>5, <2>1, ZenonT(30)
  <2>3. pc'[p] = next /\ next[1] \in {"open", "flush", "ctx"}
    BY <1>1, <1>7, Labels, SMTT(60) DEF ProvisionTypeOK
  <2>4. KeyLast(p)'
    <3>1. CASE i = SSL_RESOURCE_PK
      <4>1. \A r \in Resources : r = i \/ r \in 0 .. i - 1
        BY <3>1 DEF Resources, SSL_RESOURCE_PK
      <4>2. \A r \in Resources : files'[p][r].is \in {"cut", "whole"}
        BY ONLY <1>2, <2>2, <4>1 DEF Whole
      <4>3. files'[p][SSL_RESOURCE_PK].is = "cut"
        BY ONLY <2>2, <3>1, i \in Resources
      <4> QED
        BY <2>3, <4>2, <4>3, KeyPartial, ZenonT(30)
    <3>2. CASE i # SSL_RESOURCE_PK
      <4>1. SSL_RESOURCE_PK \in Resources
        BY DEF Resources, SSL_RESOURCE_PK
      <4> QED
        BY <1>2, <2>2, <3>2, <4>1, KeyAbsent, ZenonT(30)
    <3> QED
      BY <3>1, <3>2, ZenonT(30)
  <2>5. WrittenSoFar(p)'
    <3>1. CASE next = <<"ctx">>
      <4>1. pc'[p][1] = "ctx"
        BY <2>3, <3>1
      <4> QED
        BY <4>1, NotWriting, ZenonT(30)
    <3>2. CASE next = pc[p]
      <4>1. SSL_RESOURCE_PK \in Resources /\ \A j \in 0 .. i - 1 : j \in Resources /\ j # i
        BY DEF Resources, SSL_RESOURCE_PK
      <4>2. \A j \in 0 .. i - 1 : files'[p][j] = files[p][j]
        BY <2>2, <4>1, ZenonT(30)
      <4>3. files'[p][i].is = "cut" /\ (i # SSL_RESOURCE_PK => files'[p][SSL_RESOURCE_PK].is = "absent")
        BY ONLY <1>2, <2>2, <4>1, i \in Resources
      <4> QED
        BY <1>1, <1>2, <1>4, <2>3, <3>2, <4>2, <4>3, AtFlush, ZenonT(30)
    <3> QED
      BY <1>7, <3>1, <3>2
  <2> HIDE DEF cut
  <2> QED
    BY ONLY KeysInv, <1>1, <1>3, <1>4, <1>7, <2>1, <2>3, <2>4, <2>5, FileStep,
            p \in Programs, i \in Resources, next \in Positions, ZenonT(30)
<1>8. pc[p] \in Positions /\ <<"ctx">> \in Positions /\ pc = [pc EXCEPT ![p] = pc[p]]
  BY <1>1, PositionsHold DEF ProvisionTypeOK
<1> QED
  BY <1>6, <1>7, <1>8, ZenonT(30) DEF WriteFile, Goto

-----------------------------------------------------------------------------
(* The server.  A step of it that leaves every program where it is.        *)
LEMMA NoProgram ==
    ASSUME KeysInv, UNCHANGED <<files, rs, pc, enclave>>, ProvisionTypeOK', ServerInv',
           \A q \in Programs : Served(q)'
    PROVE  KeysInv'
<1>1. \A q \in Programs : Local(q)' /\ Serves(q)'
  BY LocalKept DEF Untouched
<1>2. ServesOwnKey'
  BY <1>1, ZenonT(30) DEF ServesOwnKey, Serves
<1> QED
  BY <1>1, <1>2, ZenonT(30) DEF KeysInv

(* Without a client the server serves no one.                              *)
LEMMA NoClient ==
    ASSUME KeysInv, NEW q \in Programs, ca'.client # q, pc'[q] = pc[q],
           Waits(backlog', q) => Waits(backlog, q)
    PROVE  Served(q)'
  BY DEF KeysInv, Served, At

LEMMA AcceptStep ==
    ASSUME MaxKeys \in Nat, KeysInv, Accept
    PROVE  KeysInv'
<1> USE DEF Accept, Goto, Programmes
<1>1. ProvisionTypeOK /\ ServerInv /\ backlog \in Seq(Programs) /\ backlog # <<>> /\ Distinct(backlog)
  BY ZenonT(30) DEF KeysInv, ProvisionTypeOK, ServerInv, Distinct
<1> DEFINE n == Len(backlog)
<1>2. n \in Nat \ {0} /\ DOMAIN backlog = 1 .. n /\ Head(backlog) = backlog[1]
      /\ backlog[1] \in Programs
  BY <1>1
<1> PICK p \in Programs : p = Head(backlog) /\ p = backlog[1]
  BY <1>2
<1>3. /\ backlog' \in Seq(Programs) /\ DOMAIN backlog' = 1 .. n - 1 /\ Len(backlog') = n - 1
      /\ \A i \in 1 .. n - 1 : backlog'[i] = backlog[i + 1]
  BY <1>1, <1>2
<1>4. Waits(backlog, p)
  BY <1>2 DEF Waits
<1> HIDE DEF n
<1>5. Distinct(backlog')
  <2>1. ASSUME NEW i \in 1 .. n - 1, NEW j \in 1 .. n - 1, backlog'[i] = backlog'[j] PROVE i = j
    <3>1. i + 1 \in 1 .. n /\ j + 1 \in 1 .. n /\ backlog[i + 1] = backlog[j + 1]
      BY ONLY <1>2, <1>3, <2>1, SMTT(60)
    <3>2. i + 1 = j + 1
      BY <1>1, <1>2, <3>1, SMTT(60) DEF Distinct
    <3> QED
      BY <1>2, <3>2
  <2> QED
    BY <1>3, <2>1 DEF Distinct
<1>6. ~Waits(backlog', p)
  <2>1. ASSUME NEW i \in 1 .. n - 1 PROVE backlog'[i] # p
    <3>1. i + 1 \in 1 .. n /\ 1 \in 1 .. n /\ i + 1 # 1
      BY <1>2
    <3> QED
      BY <1>1, <1>2, <1>3, <3>1, SMTT(60) DEF Distinct
  <2> QED
    BY <1>3, <2>1 DEF Waits
<1>7. \A q : Waits(backlog', q) => Waits(backlog, q)
  <2>1. ASSUME NEW q, NEW i \in 1 .. n - 1, backlog'[i] = q PROVE Waits(backlog, q)
    <3>1. i + 1 \in 1 .. n /\ backlog[i + 1] = q
      BY <1>2, <1>3, <2>1, SMTT(60)
    <3> QED
      BY <1>2, <3>1 DEF Waits
  <2> QED
    BY <1>3, <2>1 DEF Waits
<1>8. /\ pc' = [pc EXCEPT ![p] = <<"verdict">>] /\ ca' = [ca EXCEPT !.at = "measure", !.client = p]
      /\ request' = NONE /\ UNCHANGED <<files, enclave, rs, keys, sc_cert>>
  BY ZenonT(30)
<1>9. pc[p] = <<"handshake">> /\ pc'[p] = <<"verdict">> /\ pc'[p][1] = "verdict"
  <2>1. pc'[p] = <<"verdict">>
    BY <1>1, <1>8, ZenonT(30) DEF ProvisionTypeOK
  <2>2. Waits(backlog, p)
    BY <1>2, <1>4 DEF Waits
  <2>3. pc[p] = <<"handshake">>
    BY <2>2, ZenonT(30) DEF KeysInv, Served, At
  <2> QED
    BY ONLY <2>1, <2>3, Labels
<1>10. ca'.at = "measure" /\ ca'.client = p
  BY <1>1, <1>8 DEF ProvisionTypeOK
<1>11. \A q \in Programs \ {p} : Untouched(q)
  BY ONLY <1>1, <1>2, <1>8 DEF ProvisionTypeOK, Untouched
<1>12. ProvisionTypeOK'
  <2>1. ca' \in [at : {"accept", "measure", "request", "sign", "reply", "down"},
                 client : Programs \cup {"none"}, req : 0 .. MaxKeys]
    BY <1>1, <1>8, ZenonT(30) DEF ProvisionTypeOK
  <2>2. pc' \in [Programs -> Positions] /\ request' \in 0 .. MaxKeys
    BY <1>1, <1>8, PositionsHold DEF ProvisionTypeOK, NONE
  <2> QED
    BY <1>1, <1>3, <1>8, <2>1, <2>2, ZenonT(30) DEF ProvisionTypeOK
<1>13. ServerInv'
  BY <1>2, <1>5, <1>8, <1>10 DEF ServerInv, Distinct
<1>14. \A q \in Programs \ {p} : Served(q)'
  BY <1>7, <1>10, <1>11, NoClient DEF Untouched
<1>15. Served(p)'
  BY <1>6, <1>9, <1>10, Labels DEF Served, At
<1>16. Local(p)' /\ Serves(p)'
  BY <1>2, <1>8, <1>9, AskingOn DEF Asking
<1> QED
  BY <1>2, <1>11, <1>12, <1>13, <1>14, <1>15, <1>16, OneProgram

LEMMA MeasureStep ==
    ASSUME MaxKeys \in Nat, "none" \notin Programs, KeysInv, Measure
    PROVE  KeysInv'
<1> USE DEF Goto, Programmes
<1>1. ProvisionTypeOK /\ ServerInv /\ ca.at = "measure" /\ request = NONE /\ ca.client \in Programs
  BY DEF KeysInv, ServerInv, Measure
<1> PICK p \in Programs : p = ca.client
  BY <1>1
<1>2. UNCHANGED <<files, enclave, rs, keys, backlog, request, sc_cert>>
  BY DEF Measure
<1>3. Served(p) /\ Local(p)
  BY <1>1 DEF KeysInv
<1>4. CASE At(p, "verdict") /\ Goto(p, <<"MOK">>) /\ ca' = [ca EXCEPT !.at = "request"]
  <2>1. pc[p] = <<"verdict">> /\ pc'[p] = <<"MOK">> /\ pc'[p][1] = "MOK"
    BY <1>1, <1>4, Labels DEF At, ProvisionTypeOK
  <2>2. ca'.at = "request" /\ ca'.client = p
    BY <1>1, <1>4 DEF ProvisionTypeOK
  <2>3. \A q \in Programs \ {p} : Untouched(q)
    BY <1>1, <1>2, <1>4 DEF ProvisionTypeOK, Untouched
  <2>4. ProvisionTypeOK' /\ ServerInv'
    BY <1>1, <1>2, <1>4, <2>2, PositionsHold, ZenonT(30) DEF ProvisionTypeOK, ServerInv
  <2>5. \A q \in Programs \ {p} : Served(q)'
    BY <1>2, <2>2, <2>3, NoClient, ZenonT(30) DEF Untouched
  <2>6. ~Waits(backlog', p)
    <3>1. pc[p] # <<"handshake">>
      BY ONLY <2>1
    <3> QED
      BY <1>2, <1>3, <3>1, NotWaiting, ZenonT(30)
  <2>7. Served(p)'
    BY ONLY <1>1, <1>2, <2>1, <2>2, <2>6, Labels, SMTT(60), ZenonT(30) DEF Served, At
  <2>8. Local(p)' /\ Serves(p)'
    BY <1>1, <1>2, <2>1, AskingOn, SMTT(60) DEF Asking
  <2> QED
    BY <1>1, <2>3, <2>4, <2>5, <2>7, <2>8, OneProgram
<1>5. CASE At(p, "verdict") /\ Unprovisioned(p) /\ ca' = Accepting
  <2>1. pc[p] = <<"verdict">> /\ pc'[p] = <<"ctx">> /\ pc'[p][1] = "ctx"
    BY <1>1, <1>5, Labels DEF At, ProvisionTypeOK, Unprovisioned
  <2>2. ca'.at = "accept" /\ ca'.client = "none"
    BY <1>5 DEF Accepting
  <2>3. \A q \in Programs \ {p} : Untouched(q)
    BY ONLY <1>1, <1>2, <1>5, ZenonT(30) DEF ProvisionTypeOK, Untouched, Unprovisioned
  <2>4. ProvisionTypeOK' /\ ServerInv'
    BY ONLY <1>1, <1>2, <1>5, <2>2, PositionsHold, ZenonT(30)
       DEF ProvisionTypeOK, ServerInv, Accepting, Unprovisioned, NONE
  <2>5. \A q \in Programs \ {p} : Served(q)'
    BY <1>2, <2>2, <2>3, NoClient, SMTT(60) DEF Untouched
  <2>6. ~Waits(backlog', p)
    <3>1. pc[p] # <<"handshake">>
      BY ONLY <2>1
    <3> QED
      BY <1>2, <1>3, <3>1, NotWaiting, ZenonT(30)
  <2>7. Served(p)'
    BY <1>1, <2>1, <2>6, NotServed
  <2>8. Local(p)' /\ Serves(p)'
    BY <1>1, <1>2, <2>1, AskingOn DEF Asking
  <2> QED
    BY <1>1, <2>3, <2>4, <2>5, <2>7, <2>8, OneProgram
<1>6. CASE ca' = Accepting /\ UNCHANGED pc
  <2>1. ca'.at = "accept" /\ ca'.client = "none"
    BY <1>6, SMTT(60) DEF Accepting
  <2>2. ProvisionTypeOK' /\ ServerInv'
    BY <1>1, <1>2, <1>6, <2>1 DEF ProvisionTypeOK, ServerInv, Accepting, NONE
  <2>3. \A q \in Programs : Served(q)'
    BY <1>2, <1>6, <2>1, NoClient
  <2> QED
    BY <1>2, <1>6, <2>2, <2>3, NoProgram
<1> QED
  BY <1>4, <1>5, <1>6 DEF Measure

LEMMA RequestStep ==
    ASSUME MaxKeys \in Nat, KeysInv, ReadRequest
    PROVE  KeysInv'
<1> USE DEF ReadRequest, Programmes
<1>1. ProvisionTypeOK /\ ServerInv
  BY DEF KeysInv
<1>2. ca'.at = "sign" /\ ca'.client = ca.client /\ ca'.req = request /\ request # NONE
  BY <1>1 DEF ProvisionTypeOK
<1>3. ProvisionTypeOK'
  <2>1. ca' \in [at : {"accept", "measure", "request", "sign", "reply", "down"},
                 client : Programs \cup {"none"}, req : 0 .. MaxKeys]
    BY <1>1, ZenonT(30) DEF ProvisionTypeOK
  <2>2. request' \in 0 .. MaxKeys
    BY DEF NONE
  <2> QED
    BY <1>1, <2>1, <2>2, ZenonT(30) DEF ProvisionTypeOK
<1>4. ServerInv'
  BY <1>1, <1>2 DEF ServerInv
<1>5. ASSUME NEW q \in Programs PROVE Served(q)'
  BY <1>2 DEF KeysInv, Served, At
<1> QED
  BY <1>3, <1>4, <1>5, NoProgram

LEMMA SignStep ==
    ASSUME KeysInv, Sign
    PROVE  KeysInv'
<1> USE DEF Sign, Programmes
<1>1. ProvisionTypeOK /\ ServerInv
  BY DEF KeysInv
<1>2. ca'.at = "reply" /\ ca'.client = ca.client /\ sc_cert' = ca.req
  BY <1>1 DEF ProvisionTypeOK
<1>3. ProvisionTypeOK' /\ ServerInv'
  BY <1>1, <1>2, ZenonT(30) DEF ProvisionTypeOK, ServerInv
<1>4. ASSUME NEW q \in Programs PROVE Served(q)'
  BY <1>2 DEF KeysInv, Served, At
<1> QED
  BY <1>3, <1>4, NoProgram

(* The certificate that arrives is for the key that waits for it.          *)
LEMMA ReplyStep ==
    ASSUME MaxKeys \in Nat, "none" \notin Programs, KeysInv, Reply
    PROVE  KeysInv'
<1>1. ProvisionTypeOK /\ ServerInv /\ ca.at = "reply" /\ ca.client \in Programs
  BY DEF KeysInv, ServerInv, Reply
<1> PICK p \in Programs : p = ca.client
  BY <1>1
<1>2. /\ UNCHANGED <<files, backlog, request, keys>> /\ ca' = Accepting /\ sc_cert' = NONE
      /\ ca'.at = "accept" /\ ca'.client = "none"
  BY DEF Reply, Accepting
<1>3. Served(p) /\ Local(p)
  BY DEF KeysInv
<1>4. ca' \in [at : {"accept", "measure", "request", "sign", "reply", "down"},
               client : Programs \cup {"none"}, req : 0 .. MaxKeys]
  BY <1>2 DEF Accepting, NONE
<1>5. ServerInv'
  BY <1>1, <1>2 DEF ServerInv
<1>6. CASE UNCHANGED <<pc, enclave, rs>>
  <2>1. ProvisionTypeOK'
    <3>1. sc_cert' \in 0 .. MaxKeys
      BY ONLY <1>2, MaxKeys \in Nat DEF NONE
    <3> QED
      BY <1>1, <1>2, <1>4, <1>6, <3>1, ZenonT(30) DEF ProvisionTypeOK
  <2>2. \A q \in Programs : Served(q)'
    BY <1>2, <1>6, NoClient
  <2> QED
    BY <1>2, <1>5, <1>6, <2>1, <2>2, NoProgram
<1>7. CASE At(p, "certificate") /\ Unprovisioned(p) /\ UNCHANGED <<enclave, rs>>
  <2>1. pc[p] = <<"certificate">> /\ pc'[p] = <<"ctx">> /\ pc'[p][1] = "ctx"
    BY <1>1, <1>7, Labels DEF At, ProvisionTypeOK, Unprovisioned, Goto
  <2>2. \A q \in Programs \ {p} : Untouched(q)
    BY <1>1, <1>2, <1>7 DEF ProvisionTypeOK, Untouched, Unprovisioned, Goto
  <2>3. ProvisionTypeOK'
    <3>1. sc_cert' \in 0 .. MaxKeys
      BY ONLY <1>2, MaxKeys \in Nat DEF NONE
    <3>2. pc' \in [Programs -> Positions]
      BY <1>1, <1>7, PositionsHold, ZenonT(30) DEF ProvisionTypeOK, Unprovisioned, Goto
    <3> QED
      BY <1>1, <1>2, <1>4, <1>7, <3>1, <3>2, ZenonT(30) DEF ProvisionTypeOK
  <2>4. \A q \in Programs \ {p} : Served(q)'
    BY <1>2, <2>2, NoClient, ZenonT(30) DEF Untouched
  <2>5. ~Waits(backlog', p)
    <3>1. pc[p] # <<"handshake">>
      BY ONLY <2>1
    <3> QED
      BY <1>2, <1>3, <3>1, NotWaiting, ZenonT(30)
  <2>6. Served(p)'
    BY ONLY <2>1, <2>5, NotServed, ZenonT(30)
  <2>7. Local(p)' /\ Serves(p)'
    BY <1>2, <1>7, <2>1, AskingOn, ZenonT(30) DEF Asking
  <2> QED
    BY <1>5, <2>2, <2>3, <2>4, <2>6, <2>7, OneProgram
<1>8. ASSUME NEW k, k = sc_cert, At(p, "certificate"),
             enclave' = [enclave EXCEPT ![p].cert = k, ![p].cacert = k],
             rs' = [rs EXCEPT ![p][SSL_RESOURCE_CERT] = Whole(k),
                              ![p][SSL_RESOURCE_CA_CERT] = Whole(k)],
             Goto(p, Opens[0])
      PROVE  KeysInv'
  <2>1. 0 \in Resources /\ Opens[0][1] = "open" /\ Opens[0][2] = 0 /\ Opens[0] \in Positions
    BY Labels, PositionsHold DEF Resources
  <2>2. pc[p] = <<"certificate">> /\ pc'[p] = Opens[0] /\ pc' = [pc EXCEPT ![p] = Opens[0]]
    BY <1>1, <1>8 DEF At, ProvisionTypeOK, Goto
  <2>3. k = enclave[p].key /\ k \in 0 .. MaxKeys
    BY <1>1, <1>3, <1>8 DEF Served, ProvisionTypeOK
  <2>4. enclave' = [enclave EXCEPT ![p] = [[enclave[p] EXCEPT !.cert = k] EXCEPT !.cacert = k]]
    BY <1>1, <1>8, ZenonT(30) DEF ProvisionTypeOK
  <2>5. enclave'[p] = [key |-> k, cert |-> k, cacert |-> k]
    <3>1. enclave'[p] = [[enclave[p] EXCEPT !.cert = k] EXCEPT !.cacert = k]
      BY <1>1, <2>4 DEF ProvisionTypeOK
    <3>2. enclave[p] \in [key : 0 .. MaxKeys, cert : 0 .. MaxKeys, cacert : 0 .. MaxKeys]
      BY <1>1 DEF ProvisionTypeOK
    <3> QED
      BY <2>3, <3>1, <3>2, ZenonT(30)
  <2>6. rs' = [rs EXCEPT ![p] = [[rs[p] EXCEPT ![SSL_RESOURCE_CERT] = Whole(k)]
                                      EXCEPT ![SSL_RESOURCE_CA_CERT] = Whole(k)]]
    BY <1>1, <1>8, ZenonT(30) DEF ProvisionTypeOK
  <2>7. Whole(k) \in File
    BY <2>3, ZenonT(30) DEF Whole, File
  <2>8. rs'[p] \in [Resources -> File] /\ \A r \in Resources : rs'[p][r] = Whole(k)
    <3>1. rs'[p] = [[rs[p] EXCEPT ![SSL_RESOURCE_CERT] = Whole(k)]
                                  EXCEPT ![SSL_RESOURCE_CA_CERT] = Whole(k)]
      BY <1>1, <2>6, ZenonT(30) DEF ProvisionTypeOK
    <3>2. rs[p] \in [Resources -> File] /\ rs[p][SSL_RESOURCE_PK] = Whole(k)
      BY <1>1, <1>3, <2>2, <2>3 DEF ProvisionTypeOK, Local, Holds, Asking
    <3> QED
      BY <2>7, <3>1, <3>2 DEF Resources, SSL_RESOURCE_PK, SSL_RESOURCE_CERT, SSL_RESOURCE_CA_CERT
  <2>9. \A q \in Programs \ {p} : Untouched(q)
    BY <1>1, <1>2, <2>2, <2>4, <2>6 DEF ProvisionTypeOK, Untouched
  <2>10. ProvisionTypeOK'
    <3>1. enclave' \in [Programs -> [key : 0 .. MaxKeys, cert : 0 .. MaxKeys, cacert : 0 .. MaxKeys]]
      BY <1>1, <2>3, <2>4, <2>5, SMTT(60), ZenonT(30) DEF ProvisionTypeOK
    <3>2. rs' \in [Programs -> [Resources -> File]]
      BY <1>1, <2>6, <2>8, ZenonT(30) DEF ProvisionTypeOK
    <3>3. pc' \in [Programs -> Positions]
      BY <1>1, <2>1, <2>2 DEF ProvisionTypeOK
    <3>4. sc_cert' \in 0 .. MaxKeys
      BY <1>2, SMTT(60) DEF NONE
    <3> QED
      BY <1>1, <1>2, <1>4, <3>1, <3>2, <3>3, <3>4, ZenonT(30) DEF ProvisionTypeOK
  <2>11. \A q \in Programs \ {p} : Served(q)'
    BY <1>2, <2>9, NoClient DEF Untouched
  <2>12. ~Waits(backlog', p)
    <3>1. pc[p] # <<"handshake">>
      BY ONLY <2>2
    <3> QED
      BY <1>2, <1>3, <3>1, NotWaiting, ZenonT(30)
  <2>13. Served(p)'
    <3>1. pc'[p][1] = "open"
      BY <2>1, <2>2, ZenonT(30)
    <3> QED
      BY <2>12, <3>1, NotServed, ZenonT(30)
  <2>14. KeyLast(p)' /\ files'[p][SSL_RESOURCE_PK].is = "absent"
    BY <1>2, <1>3, <2>2, ZenonT(30) DEF Local, KeyLast, Asking
  <2>15. WrittenSoFar(p)'
    <3>1. \A j \in 0 .. 0 - 1 : files'[p][j] = Whole(enclave'[p].key)
      OBVIOUS
    <3>2. \A r \in Resources : rs'[p][r] = Whole(enclave'[p].key)
      BY ONLY <2>5, <2>8
    <3> QED
      BY <2>1, <2>2, <2>14, <3>1, <3>2, AtOpen, ZenonT(30)
  <2>16. ReadSoFar(p)' /\ Holds(p)' /\ Serves(p)'
    <3>1. pc'[p][1] = "open"
      BY <2>1, <2>2, ZenonT(30)
    <3>2. pc'[p] \notin Asking \cup {<<"off">>, <<"init">>, <<"ctx">>, <<"serving">>}
      BY ONLY <3>1, Labels DEF Asking
    <3>3. enclave'[p].cert = enclave'[p].key
      BY ONLY <2>5
    <3>4. Holds(p)' /\ Serves(p)'
      BY ONLY <3>1, <3>2, <3>3, ZenonT(30) DEF Holds, Serves, At
    <3> QED
      BY <3>1, <3>4, NotReading, ZenonT(30)
  <2> QED
    BY <1>5, <2>9, <2>10, <2>11, <2>13, <2>14, <2>15, <2>16, OneProgram, ZenonT(30) DEF Local
<1> QED
  BY <1>6, <1>7, <1>8, ZenonT(30) DEF Reply, Provisioned

LEMMA RestartStep ==
    ASSUME MaxKeys \in Nat, "none" \notin Programs, KeysInv, CACrash \/ CAStart
    PROVE  KeysInv'
<1>1. /\ UNCHANGED <<files, enclave, rs, keys, pc, sc_cert>>
      /\ ca'.at \in {"accept", "down"} /\ ca'.client = "none" /\ ca'.req = NONE
      /\ ca' = [at |-> ca'.at, client |-> "none", req |-> NONE]
      /\ request' \in {request, NONE} /\ backlog' \in {backlog, <<>>}
  BY DEF CACrash, CAStart, Programmes, Accepting
<1>2. ProvisionTypeOK /\ ServerInv /\ <<>> \in Seq(Programs)
  BY DEF KeysInv
<1>3. ProvisionTypeOK'
  <2>1. ca' \in [at : {"accept", "measure", "request", "sign", "reply", "down"},
                 client : Programs \cup {"none"}, req : 0 .. MaxKeys]
    BY <1>1 DEF NONE
  <2> QED
    BY <1>1, <1>2, <2>1, ZenonT(30) DEF ProvisionTypeOK, NONE
<1>4. ServerInv'
  BY <1>1, <1>2 DEF ServerInv
<1>5. \A q : Waits(backlog', q) => Waits(backlog, q)
  BY ONLY <1>1, SMTT(60) DEF Waits
<1>6. \A q \in Programs : Served(q)'
  BY <1>1, <1>5, NoClient, ZenonT(30)
<1> QED
  BY <1>1, <1>3, <1>4, <1>6, NoProgram

-----------------------------------------------------------------------------
LEMMA InitHolds ==
    ASSUME MaxKeys \in Nat, ProvisionInit
    PROVE  KeysInv
<1> USE DEF ProvisionInit
<1>1. Absent \in File /\ Fresh \in [key : 0 .. MaxKeys, cert : 0 .. MaxKeys, cacert : 0 .. MaxKeys]
  BY DEF Absent, Fresh, File, NONE
<1>2. ProvisionTypeOK
  BY <1>1, PositionsHold DEF ProvisionTypeOK, NONE
<1>3. ServerInv
  BY DEF ServerInv
<1>4. \A p \in Programs : pc[p] = <<"off">> /\ pc[p][1] = "off" /\ enclave[p] = Fresh
  BY ZenonT(30)
<1>5. ASSUME NEW p \in Programs PROVE Local(p) /\ Served(p) /\ Serves(p)
  <2>1. KeyLast(p)
    BY <1>4, Labels, SMTT(60), ZenonT(30) DEF KeyLast, Asking, Absent, Resources, SSL_RESOURCE_PK, SSL_RESOURCE_CERT
  <2>2. ReadSoFar(p) /\ WrittenSoFar(p) /\ Holds(p) /\ Serves(p)
    BY <1>4, Labels, SMTT(60), ZenonT(30) DEF ReadSoFar, WrittenSoFar, Holds, Serves, At, Asking
  <2>3. Served(p)
    BY <1>4, Labels DEF Served, At, Waits
  <2> QED
    BY <2>1, <2>2, <2>3, ZenonT(30) DEF Local
<1> QED
  BY ONLY <1>2, <1>3, <1>5, ZenonT(30) DEF KeysInv, ServesOwnKey, Serves

LEMMA Stutter ==
    ASSUME KeysInv, UNCHANGED provisionVars
    PROVE  KeysInv'
<1> USE DEF provisionVars
<1>1. ProvisionTypeOK' /\ ServerInv'
  BY ZenonT(30) DEF KeysInv, ProvisionTypeOK, ServerInv
<1>2. \A q \in Programs : Served(q)'
  BY ServedKept
<1> QED
  BY <1>1, <1>2, NoProgram, ZenonT(30)

(* The order in which SSL_library_init writes the files, and the one in    *)
(* which the enclave and CA_server.c exchange key and certificate, keep    *)
(* KeysInv through every crash of a program or of the server, a missing    *)
(* seed, a certificate that does not parse and a failed write              *)
(* (wrapper_sgx.cpp:142-210, enclave.c:103-279, CA_server.c:99-199).       *)
THEOREM Inductive ==
    ASSUME MaxKeys \in Nat, "none" \notin Programs, "open" \notin Faults
    PROVE  ProvisionSpec => []KeysInv
<1>1. ProvisionInit => KeysInv
  BY InitHolds
<1>2. KeysInv /\ [ProvisionNext]_provisionVars => KeysInv'
  <2> SUFFICES ASSUME KeysInv, [ProvisionNext]_provisionVars PROVE KeysInv'
    OBVIOUS
  <2>1. ASSUME NEW p \in Programs, Start(p) \/ Step(p) \/ Crash(p) PROVE KeysInv'
    <3>1. CASE Start(p)
      BY <3>1, StartStep
    <3>2. CASE Crash(p)
      BY <3>2, KilledStep DEF Crash
    <3>3. CASE Step(p)
      BY <3>3, InitStep, HandshakeFailsStep, SendStep, ReadFailsStep, ContextStep, ReadStep,
         OpenStep, WriteStep DEF Step
    <3> QED
      BY <2>1, <3>1, <3>2, <3>3
  <2>2. CASE CAStep
    BY <2>2, AcceptStep, MeasureStep, RequestStep, SignStep, ReplyStep DEF CAStep
  <2>3. CASE CACrash \/ CAStart
    BY <2>3, RestartStep
  <2>4. CASE UNCHANGED provisionVars
    BY <2>4, Stutter
  <2> QED
    BY <2>1, <2>2, <2>3, <2>4 DEF ProvisionNext
<1> QED
  BY <1>1, <1>2, PTL DEF ProvisionSpec

(* A program that serves connections presents a certificate for the key in *)
(* its enclave, whatever crash came before and whichever files it left     *)
(* (enclave.c:125-279, wrapper_sgx.cpp:174-210).                           *)
THEOREM CertificateIsForKey ==
    ASSUME MaxKeys \in Nat, "none" \notin Programs, "open" \notin Faults
    PROVE  ProvisionSpec => []ServesOwnKey
<1>1. KeysInv => ServesOwnKey
  BY DEF KeysInv
<1> QED
  BY <1>1, Inductive, PTL
=============================================================================
