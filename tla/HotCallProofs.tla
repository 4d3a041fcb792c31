--------------------------- MODULE HotCallProofs ---------------------------
(***************************************************************************)
(* Proofs about the HotCall channel, for rings of any length, any batch    *)
(* the rings can hold, and builds with and without TIMEOUT.                *)
(***************************************************************************)
EXTENDS HotCallSteps

(* The value ring.  An index that has gone round at most once is reduced   *)
(* by one length of the ring.                                              *)
LEMMA ModuloRing ==
    ASSUME NEW x \in 0 .. 2 * ValueRing - 1
    PROVE  x % ValueRing = IF x < ValueRing THEN x ELSE x - ValueRing
  BY ValueAssumption

(* Values taken from the ring are the youngest; all the others age.  A     *)
(* cell that is young enough is not taken.                                 *)
LEMMA Aging ==
    ASSUME NEW i \in 0 .. ValueRing, NEW n \in 1 .. ValueRing
    PROVE  /\ \A c \in NextCells(i, n) : Age(AfterValues(i, n), c) < n
           /\ NextCells(i, n) # {}
           /\ \A c \in Cells : Age(i, c) < ValueRing - n =>
                 c \notin NextCells(i, n) /\ Age(AfterValues(i, n), c) = Age(i, c) + n
<1> ValueRing \in Nat \ {0}
  BY ValueAssumption
<1> DEFINE j == AfterValues(i, n)
<1>1. ASSUME NEW k \in 1 .. n
      PROVE  (i + k - 1) % ValueRing = IF i + k - 1 < ValueRing THEN i + k - 1 ELSE i + k - 1 - ValueRing
  BY ModuloRing
<1>2. j = IF i + n - 1 < ValueRing THEN i + n ELSE i + n - ValueRing
  <2>1. n \in 1 .. n
    OBVIOUS
  <2>2. \A x : x = (IF i + n - 1 < ValueRing THEN i + n - 1 ELSE i + n - 1 - ValueRing)
                => x + 1 = IF i + n - 1 < ValueRing THEN i + n ELSE i + n - ValueRing
    OBVIOUS
  <2> QED
    BY ONLY <1>1, <2>1, <2>2, ZenonT(30) DEF AfterValues
<1> HIDE DEF j
<1>3. ASSUME NEW c \in NextCells(i, n) PROVE Age(j, c) < n
  <2>1. PICK k \in 1 .. n : c = (i + k - 1) % ValueRing
    BY DEF NextCells
  <2>2. c = IF i + k - 1 < ValueRing THEN i + k - 1 ELSE i + k - 1 - ValueRing
    BY <1>1, <2>1
  <2> QED
    BY <1>2, <2>2 DEF Age
<1>4. NextCells(i, n) # {}
  <2>1. (i + 1 - 1) % ValueRing \in NextCells(i, n)
    BY DEF NextCells
  <2> QED
    BY <2>1
<1>5. ASSUME NEW c \in Cells, Age(i, c) < ValueRing - n
      PROVE  c \notin NextCells(i, n) /\ Age(j, c) = Age(i, c) + n
  <2>1. ASSUME NEW k \in 1 .. n, c = (i + k - 1) % ValueRing PROVE FALSE
    <3>1. c = IF i + k - 1 < ValueRing THEN i + k - 1 ELSE i + k - 1 - ValueRing
      BY <1>1, <2>1
    <3> QED
      BY <1>5, <3>1 DEF Age, Cells
  <2>2. c \notin NextCells(i, n)
    BY <2>1, ZenonT(30) DEF NextCells
  <2>3. Age(j, c) = Age(i, c) + n
    BY <1>2, <1>5 DEF Age, Cells
  <2> QED
    BY <2>2, <2>3
<1> QED
  BY <1>3, <1>4, <1>5 DEF j

(* The batch of a caller that may still add a call leaves room in the ring *)
(* for the values of that call.                                            *)
LEMMA Room ==
    ASSUME NEW d \in Nat, d < MaxBatch
    PROVE  /\ MaxValues * d + MaxValues <= ValueRing
           /\ MaxValues * d + MaxValues = MaxValues * (d + 1)
<1>1. MaxBatch \in Nat /\ MaxValues \in Nat
  BY RingAssumption, ValueAssumption
<1>2. MaxValues * (d + 1) = MaxValues * d + MaxValues
  BY <1>1
<1>3. PICK e \in Nat : MaxBatch = (d + 1) + e
  <2>1. MaxBatch - (d + 1) \in Nat /\ MaxBatch = (d + 1) + (MaxBatch - (d + 1))
    BY <1>1
  <2> QED
    BY <2>1, ZenonT(30)
<1>4. MaxBatch * MaxValues = MaxValues * (d + 1) + MaxValues * e /\ MaxValues * e \in Nat
  BY <1>1, <1>3
<1> QED
  BY <1>1, <1>2, <1>4, ValueAssumption

(* A step that prepares no call, executes none and ends no wrapper.        *)
LEMMA ArgsKept ==
    ASSUME ArgsInv, UNCHANGED calls, UNCHANGED executed,
           Depth \in Nat, Depth' \in 0 .. Depth,
           cpc' \in {"idle", "insert_async"} => cpc \in {"idle", "insert_async"}
    PROVE  ArgsInv'
<1>1. ASSUME NEW d \in 1 .. Depth'
      PROVE  /\ d \in 1 .. Depth
             /\ PendingCall(d)' = PendingCall(d)
  BY DEF PendingCall, calls, SlotBack
<1>2. ArgumentsIntact'
  BY DEF ArgsInv, ArgumentsIntact
<1> QED
  BY <1>1, <1>2 DEF ArgsInv, calls, Age

(* The calls that wait when another is prepared.                           *)
LEMMA PreparedOthers ==
    ASSUME TypeOK, RingInv, cpc = "idle", NEW fc,
           fcs' = [fcs EXCEPT ![idx] = fc], idx' = NextSlot(idx), queue' = queue,
           cpc' \in {"insert_async", "insert_sync"}
    PROVE  /\ Depth = Len(queue) /\ Depth \in Nat /\ Depth <= MaxBatch /\ Depth' = Depth + 1
           /\ PendingCall(1)' = fc
           /\ \A d \in 1 .. Depth : PendingCall(d + 1)' = PendingCall(d) /\ PendingCall(d).args \subseteq Cells
<1>1. Depth = Len(queue) /\ Depth \in Nat /\ Depth <= MaxBatch /\ Depth' = Depth + 1
  BY DEF TypeOK, RingInv, Depth, Inserting
<1>2. idx \in Slots /\ fcs \in [Slots -> [id : Nat, args : SUBSET Cells]]
  BY DEF TypeOK
<1>3. SlotBack(idx', 1) = idx
  BY <1>2, SlotShift
<1>4. PendingCall(1)' = fc
  BY <1>2, <1>3 DEF PendingCall
<1>5. ASSUME NEW d \in 1 .. Depth
      PROVE  PendingCall(d + 1)' = PendingCall(d) /\ PendingCall(d).args \subseteq Cells
  <2>1. d \in 1 .. RingSize - 1 /\ d \in 1 .. RingSize /\ d < RingSize
    BY <1>1, RingAssumption
  <2>2. SlotBack(idx', d + 1) = SlotBack(idx, d)
    BY <1>2, <2>1, SlotShift
  <2>3. SlotBack(idx, d) # idx
    BY <1>2, <2>1, SlotsDiffer
  <2>4. SlotBack(idx, d) \in Slots
    BY <1>2, <2>1, RingAssumption DEF SlotBack, Slots
  <2>5. fcs'[SlotBack(idx, d)] = fcs[SlotBack(idx, d)] /\ fcs[SlotBack(idx, d)].args \in SUBSET Cells
    BY <1>2, <2>3, <2>4
  <2> QED
    BY <2>2, <2>5 DEF PendingCall
<1> QED
  BY <1>1, <1>4, <1>5

(* A batched call takes cells that no waiting call still needs.            *)
LEMMA PrepareAsyncArgs ==
    ASSUME TypeOK, RingInv, ArgsInv, NEW n \in 1 .. MaxValues, PrepareAsync(n)
    PROVE  ArgsInv'
<1> USE DEF Caller, flags, sleepState, work
<1> DEFINE fc == [id |-> issued + 1, args |-> NextCells(idx_uint8, n)]
<1>1. /\ cpc = "idle" /\ cpc' = "insert_async" /\ queue' = queue /\ executed' = executed
      /\ Len(queue) < MaxBatch /\ fcs' = [fcs EXCEPT ![idx] = fc] /\ idx' = NextSlot(idx)
      /\ uint8_ts' = [c \in Cells |-> IF c \in NextCells(idx_uint8, n) THEN issued + 1 ELSE uint8_ts[c]]
      /\ idx_uint8' = AfterValues(idx_uint8, n)
  BY DEF PrepareAsync
<1>2. /\ Depth = Len(queue) /\ Depth \in Nat /\ Depth' = Depth + 1
      /\ PendingCall(1)' = fc
      /\ \A d \in 1 .. Depth : PendingCall(d + 1)' = PendingCall(d) /\ PendingCall(d).args \subseteq Cells
  BY <1>1, PreparedOthers, ZenonT(30)
<1>3. MaxValues \in Nat /\ ValueRing \in Nat /\ MaxValues <= ValueRing
      /\ n \in 1 .. ValueRing /\ idx_uint8 \in 0 .. ValueRing /\ n <= MaxValues
  <2>1. 0 \in Nat /\ 0 < MaxBatch
    BY <1>1, <1>2, RingAssumption
  <2>2. MaxValues * 0 + MaxValues <= ValueRing
    BY <2>1, Room
  <2> QED
    BY <2>2, ValueAssumption DEF TypeOK
<1>4. /\ \A c \in NextCells(idx_uint8, n) : Age(idx_uint8', c) < n
      /\ NextCells(idx_uint8, n) # {}
      /\ \A c \in Cells : Age(idx_uint8, c) < ValueRing - n =>
            c \notin NextCells(idx_uint8, n) /\ Age(idx_uint8', c) = Age(idx_uint8, c) + n
  BY <1>1, <1>3, Aging
<1>5. NextCells(idx_uint8, n) \subseteq Cells
  BY <1>3, CellsInRing
<1>6. \A c \in NextCells(idx_uint8, n) : Age(idx_uint8', c) \in Int
  <2>1. idx_uint8' \in 0 .. ValueRing
    <3>1. AfterValues(idx_uint8, n) \in 0 .. ValueRing
      BY ONLY <1>3, CellsInRing
    <3> QED
      BY ONLY <1>1, <3>1
  <2> QED
    BY <1>3, <1>5, <2>1 DEF Age, Cells
<1>7. fc.args # OnStack /\ \A c \in fc.args :
          uint8_ts'[c] = fc.id /\ Age(idx_uint8', c) < MaxValues * 1
  BY <1>1, <1>3, <1>4, <1>5, <1>6 DEF OnStack
<1>8. ASSUME NEW d \in 1 .. Depth
      PROVE  /\ PendingCall(d).args # OnStack
             /\ \A c \in PendingCall(d).args :
                   uint8_ts'[c] = PendingCall(d).id /\ Age(idx_uint8', c) < MaxValues * (d + 1)
  <2>1. PendingCall(d).args # OnStack
    BY <1>1 DEF ArgsInv
  <2>2. ASSUME NEW c \in PendingCall(d).args
        PROVE  uint8_ts'[c] = PendingCall(d).id /\ Age(idx_uint8', c) < MaxValues * (d + 1)
    <3>1. c \in Cells /\ uint8_ts[c] = PendingCall(d).id /\ Age(idx_uint8, c) < MaxValues * d
      BY <1>2 DEF ArgsInv
    <3>2. Age(idx_uint8, c) \in Int /\ MaxValues * d \in Nat
      BY <1>3, <3>1 DEF Age, Cells
    <3>3. MaxValues * d + MaxValues <= ValueRing /\ MaxValues * d + MaxValues = MaxValues * (d + 1)
      <4>1. d \in Nat /\ d < MaxBatch
        BY <1>1, <1>2, RingAssumption
      <4> QED
        BY <4>1, Room
    <3>4. Age(idx_uint8, c) < ValueRing - n
      BY <1>3, <3>1, <3>2, <3>3
    <3>5. c \notin NextCells(idx_uint8, n) /\ Age(idx_uint8', c) = Age(idx_uint8, c) + n
      BY <1>4, <3>1, <3>4
    <3>6. Age(idx_uint8', c) < MaxValues * (d + 1)
      BY <1>3, <3>1, <3>2, <3>3, <3>5
    <3> QED
      BY <1>1, <3>1, <3>5, <3>6
  <2> QED
    BY <2>1, <2>2
<1> HIDE DEF fc
<1>9. ASSUME NEW d \in 1 .. Depth'
      PROVE  /\ PendingCall(d)'.args # OnStack
             /\ \A c \in PendingCall(d)'.args :
                   uint8_ts'[c] = PendingCall(d)'.id /\ Age(idx_uint8', c) < MaxValues * d
  <2>1. CASE d = 1
    BY <1>2, <1>7, <2>1
  <2>2. CASE d # 1
    <3>1. PICK e \in 1 .. Depth : d = e + 1
      <4>1. d - 1 \in 1 .. Depth /\ d = (d - 1) + 1
        BY <1>2, <2>2
      <4> QED
        BY <4>1
    <3>2. PendingCall(d)' = PendingCall(e)
      BY <1>2, <3>1
    <3> QED
      BY <1>8, <3>1, <3>2
  <2> QED
    BY <2>1, <2>2
<1>10. ArgumentsIntact'
  BY <1>1 DEF ArgsInv, ArgumentsIntact
<1>11. \A c : Age(idx_uint8, c)' = Age(idx_uint8', c)
  BY DEF Age
<1> QED
  BY <1>9, <1>10, <1>11 DEF ArgsInv

(* A call that waits leaves the ring alone and uses its own stack frame.   *)
LEMMA PrepareSyncArgs ==
    ASSUME TypeOK, RingInv, ArgsInv, PrepareSync
    PROVE  ArgsInv'
<1> USE DEF Caller, flags, sleepState, work
<1> DEFINE fc == [id |-> issued + 1, args |-> OnStack]
<1>1. /\ cpc = "idle" /\ cpc' = "insert_sync" /\ queue' = queue /\ executed' = executed
      /\ fcs' = [fcs EXCEPT ![idx] = fc] /\ idx' = NextSlot(idx) /\ stack' = issued + 1
      /\ uint8_ts' = uint8_ts /\ idx_uint8' = idx_uint8
  BY DEF PrepareSync
<1>2. /\ Depth \in Nat /\ Depth' = Depth + 1
      /\ PendingCall(1)' = fc
      /\ \A d \in 1 .. Depth : PendingCall(d + 1)' = PendingCall(d) /\ PendingCall(d).args \subseteq Cells
  BY <1>1, PreparedOthers, ZenonT(30)
<1>3. MaxValues \in Nat /\ ValueRing \in Nat /\ idx_uint8 \in 0 .. ValueRing
  BY ValueAssumption DEF TypeOK
<1>4. ASSUME NEW d \in 1 .. Depth
      PROVE  /\ PendingCall(d).args # OnStack
             /\ \A c \in PendingCall(d).args :
                   uint8_ts[c] = PendingCall(d).id /\ Age(idx_uint8, c) < MaxValues * (d + 1)
  <2>1. PendingCall(d).args # OnStack
    BY <1>1 DEF ArgsInv
  <2>2. ASSUME NEW c \in PendingCall(d).args
        PROVE  uint8_ts[c] = PendingCall(d).id /\ Age(idx_uint8, c) < MaxValues * (d + 1)
    <3>1. c \in Cells /\ uint8_ts[c] = PendingCall(d).id /\ Age(idx_uint8, c) < MaxValues * d
      BY <1>2 DEF ArgsInv
    <3>2. Age(idx_uint8, c) \in Int /\ MaxValues * d \in Nat
      BY <1>3, <3>1 DEF Age, Cells
    <3>3. MaxValues * (d + 1) = MaxValues * d + MaxValues
      BY <1>3
    <3> QED
      BY <1>3, <3>1, <3>2, <3>3
  <2> QED
    BY ONLY <2>1, <2>2, ZenonT(30)
<1>5. fc.args = OnStack /\ fc.id = stack' /\ fc.args = {}
  BY <1>1 DEF OnStack
<1> HIDE DEF fc
<1>6. ASSUME NEW d \in 1 .. Depth'
      PROVE  /\ PendingCall(d)'.args = OnStack => stack' = PendingCall(d)'.id
             /\ \A c \in PendingCall(d)'.args :
                   uint8_ts'[c] = PendingCall(d)'.id /\ Age(idx_uint8', c) < MaxValues * d
  <2>1. CASE d = 1
    BY <1>2, <1>5, <2>1, SMTT(60)
  <2>2. CASE d # 1
    <3>1. PICK e \in 1 .. Depth : d = e + 1
      <4>1. d - 1 \in 1 .. Depth /\ d = (d - 1) + 1
        BY <1>2, <2>2
      <4> QED
        BY <4>1
    <3>2. PendingCall(d)' = PendingCall(e)
      BY <1>2, <3>1
    <3> QED
      BY <1>1, <1>4, <3>1, <3>2
  <2> QED
    BY <2>1, <2>2
<1>7. ArgumentsIntact'
  BY <1>1 DEF ArgsInv, ArgumentsIntact
<1>8. \A c : Age(idx_uint8, c)' = Age(idx_uint8', c)
  BY DEF Age
<1> QED
  BY <1>1, <1>6, <1>7, <1>8 DEF ArgsInv

(* The call the poller executes reads what its caller wrote.               *)
LEMMA ExecuteArgs ==
    ASSUME TypeOK, HandshakeInv, RingInv, ArgsInv, ExecuteFunction
    PROVE  ArgsInv'
<1> USE DEF Poller, flags, sleepState, work
<1> DEFINE fc == fcs[Head(queue)]
<1>1. /\ queue # <<>> /\ Len(queue) \in Nat /\ 1 \in 1 .. Len(queue)
      /\ Head(queue) = queue[1] /\ Head(queue) \in Slots
  BY SMTT(60) DEF ExecuteFunction, TypeOK
<1>2. Depth = Len(queue) /\ Depth \in 1 .. Depth /\ Depth' = Depth /\ Depth \in Nat
  BY <1>1 DEF ExecuteFunction, HandshakeInv, PollerInBatch, Depth, Inserting, CallerWaits,
              CallerHasSpin, CallerHasMutex
<1>3. fc = PendingCall(Depth)
  BY <1>1, <1>2 DEF RingInv, PendingCall
<1>4. fc.id \in Nat /\ fc.args \in SUBSET Cells /\ ArgumentsOf(fc) \in SUBSET Nat
  BY <1>1, ZenonT(30) DEF TypeOK, ArgumentsOf
<1>5. /\ fc.args = OnStack => stack = fc.id
      /\ \A c \in fc.args : uint8_ts[c] = fc.id
  BY <1>2, <1>3, SMTT(60) DEF ArgsInv
<1>6. ArgumentsOf(fc) = {fc.id}
  BY <1>5, SMTT(60) DEF ArgumentsOf, OnStack
<1>7. /\ executed' = Append(executed, [id |-> fc.id, read |-> ArgumentsOf(fc)])
      /\ executed \in Seq([id : Nat, read : SUBSET Nat])
      /\ UNCHANGED calls /\ cpc' = cpc
  BY DEF ExecuteFunction, TypeOK
<1> HIDE DEF fc
<1>8. /\ Len(executed) \in Nat /\ Len(executed') = Len(executed) + 1
      /\ DOMAIN executed' = 1 .. Len(executed') /\ DOMAIN executed = 1 .. Len(executed)
  BY <1>4, <1>7
<1>9. ArgumentsIntact'
  <2> SUFFICES ASSUME NEW k \in 1 .. Len(executed')
               PROVE  executed'[k].read = {executed'[k].id}
    BY <1>8, ZenonT(30) DEF ArgumentsIntact
  <2>1. CASE k = Len(executed) + 1
    BY ONLY <1>4, <1>6, <1>7, <2>1, SMTT(60)
  <2>2. CASE k \in 1 .. Len(executed)
    <3>1. executed'[k] = executed[k]
      BY <1>4, <1>7, <2>2
    <3> QED
      BY <1>8, <2>2, <3>1 DEF ArgsInv, ArgumentsIntact
  <2> QED
    BY <1>8, <2>1, <2>2
<1>10. \A d \in 1 .. Depth : PendingCall(d)' = PendingCall(d)
  BY <1>7 DEF PendingCall, calls, SlotBack
<1> QED
  BY <1>2, <1>7, <1>9, <1>10 DEF ArgsInv, calls, Age

(* Every step keeps the arguments of the calls that wait.                  *)
LEMMA ArgsStep == TypeOK /\ HandshakeInv /\ RingInv /\ ArgsInv /\ [Next]_vars => ArgsInv'
<1> SUFFICES ASSUME TypeOK, HandshakeInv, RingInv, ArgsInv, [Next]_vars
             PROVE  ArgsInv'
  OBVIOUS
<1> USE DEF Caller, Poller, flags, sleepState, work
<1>0. Depth \in Nat /\ Len(queue) \in Nat
  BY DEF TypeOK, Depth
<1>1. ASSUME NEW n \in 1 .. MaxValues, PrepareAsync(n)
      PROVE  ArgsInv'
  BY <1>1, PrepareAsyncArgs
<1>2. CASE PrepareSync
  BY <1>2, PrepareSyncArgs
<1>3. CASE InsertCall
  <2>1. queue' = Append(queue, SlotBack(idx, 1)) /\ SlotBack(idx, 1) \in Slots
    BY <1>3, InsertAppends, SlotsInRing, ZenonT(30) DEF InsertCall, Inserting
  <2>2. Depth' = Depth
    BY ONLY <1>3, <2>1, SMTT(60) DEF TypeOK, InsertCall, Depth, Inserting
  <2> QED
    BY <1>0, <1>3, <2>2, ArgsKept DEF InsertCall
<1>4. CASE ExecuteFunction
  BY <1>4, ExecuteArgs
<1>5. CASE RemoveCall
  <2>1. queue # <<>> /\ queue' = Tail(queue) /\ cpc' = cpc
    BY <1>5 DEF RemoveCall, HandshakeInv
  <2>2. Len(queue') = Len(queue) - 1 /\ Len(queue) > 0
    BY <2>1, SMTT(60) DEF TypeOK
  <2>3. Depth' \in 0 .. Depth
    BY <1>0, <2>1, <2>2 DEF Depth, Inserting
  <2> QED
    BY <1>0, <1>5, <2>3, ArgsKept DEF RemoveCall
<1>6. CASE ReturnFromCall
  <2>1. queue = <<>> /\ queue' = <<>> /\ executed' = executed /\ cpc' = "idle"
    BY <1>6 DEF ReturnFromCall, HandshakeInv, CallerWaits, CallerHasSpin
  <2>2. Depth' = 0
    BY <2>1 DEF Depth, Inserting
  <2> QED
    BY <2>1, <2>2 DEF ArgsInv, ArgumentsIntact
<1>7. CASE ClearDone \/ SetRun \/ CheckSleeping \/ WakeLock \/ WakeSignal \/ WakeUnlock
           \/ CallerSpinLock \/ TestDone \/ CallerSpinUnlock
  <2>1. UNCHANGED <<calls, queue, executed>> /\ ~Inserting /\ ~Inserting'
        /\ cpc' \notin {"idle", "insert_async"}
    BY <1>7 DEF ClearDone, SetRun, CheckSleeping, WakeLock, WakeSignal, WakeUnlock,
                CallerSpinLock, TestDone, CallerSpinUnlock, Inserting
  <2> QED
    BY <1>0, <2>1, ArgsKept, SMTT(60) DEF Depth
<1>8. CASE PollerSpinLock \/ TestRun \/ ClearRun \/ SetDone \/ PollerSpinUnlock \/ Tick
           \/ SetSleeping \/ ClearSleeping \/ SleepLock \/ SleepUnlock \/ SpuriousWakeup
           \/ UNCHANGED vars
  <2>1. UNCHANGED <<calls, queue, executed, cpc>>
    BY <1>8, ZenonT(30) DEF PollerSpinLock, TestRun, ClearRun, SetDone, PollerSpinUnlock, Tick, SetSleeping,
                ClearSleeping, SleepLock, SleepUnlock, SpuriousWakeup, vars, calls
  <2> QED
    BY <1>0, <2>1, ArgsKept DEF Depth, Inserting
<1> QED
  BY <1>1, <1>2, <1>3, <1>4, <1>5, <1>6, <1>7, <1>8
  DEF Next, CallerEnters, CallerSteps, PollerSteps

-----------------------------------------------------------------------------
(* ChannelInv is an invariant: the flags, the ring and the numbering of the    *)
(* calls stay in agreement under every interleaving.                       *)
THEOREM Inductive == Spec => []ChannelInv
<1>1. Init => ChannelInv
  <2> SUFFICES ASSUME Init
               PROVE  ChannelInv
    OBVIOUS
  <2>1. queue = <<>> /\ Len(queue) = 0 /\ executed = <<>> /\ Len(executed) = 0
    BY DEF Init
  <2>2. queue \in Seq(Slots) /\ executed \in Seq([id : Nat, read : SUBSET Nat])
    BY ONLY <2>1, SMTT(60)
  <2>3. fcs \in [Slots -> [id : Nat, args : SUBSET Cells]] /\ uint8_ts \in [Cells -> Nat]
    BY DEF Init, OnStack, NoValue
  <2>4. idx \in Slots /\ idx_uint8 \in 0 .. ValueRing /\ timer \in 1 .. InitTimer
    BY RingAssumption, ValueAssumption, BoundAssumption DEF Init, Slots
  <2>5. TypeOK
    BY <2>2, <2>3, <2>4, ZenonT(30)
    DEF Init, TypeOK, CallerPrepares, PollerPositions, NoValue
  <2>6. LockInv /\ HandshakeInv
    BY SMTT(60) DEF Init, LockInv, HandshakeInv, CallerWaits, CallerHasSpin, CallerHasMutex,
           PollerHasSpin, PollerInBatch
  <2>7. RingInv /\ OrderInv
    BY <2>1, RingAssumption, BoundAssumption, SMTT(60)
    DEF Init, RingInv, OrderInv, ExecutedInOrder, Retired, Depth, Inserting
  <2>8. ArgsInv
    BY <2>1 DEF Init, ArgsInv, ArgumentsIntact, Depth, Inserting
  <2> QED
    BY <2>5, <2>6, <2>7, <2>8 DEF ChannelInv
<1>2. ChannelInv /\ [Next]_vars => ChannelInv'
  BY TypeStep, LockStep, HandshakeStep, RingStep, OrderStep, ArgsStep DEF ChannelInv
<1> QED
  BY <1>1, <1>2, PTL DEF Spec

(* Every variable stays in its range, the ring indices included.           *)
THEOREM TypeCorrect == Spec => []TypeOK
<1>1. ChannelInv => TypeOK
  BY DEF ChannelInv
<1> QED
  BY <1>1, Inductive, PTL

(* The enclave thread walks the queue only while the caller waits.         *)
THEOREM QueueOwned == Spec => []QueueOwnership
<1>1. ChannelInv => QueueOwnership
  BY DEF ChannelInv, HandshakeInv, QueueOwnership
<1> QED
  BY <1>1, Inductive, PTL

(* Calls are executed in the order of issue, each exactly once.            *)
THEOREM InOrder == Spec => []ExecutedInOrder
<1>1. ChannelInv => ExecutedInOrder
  BY SMTT(60) DEF ChannelInv, OrderInv
<1> QED
  BY <1>1, Inductive, PTL

(* Every call is executed with the arguments it was issued with, though    *)
(* they are cells of a ring that is used again and again, or variables of  *)
(* a stack frame (hotcall-untrusted.h:73-80, app.c:29-36,                  *)
(* hotcall-trusted.c:39-40).                                               *)
THEOREM OwnArguments == Spec => []ArgumentsIntact
<1>1. ChannelInv => ArgumentsIntact
  BY DEF ChannelInv, ArgsInv
<1> QED
  BY <1>1, Inductive, PTL

(* When make_hotcall returns, everything issued has been executed.         *)
THEOREM ReturnComplete == Spec => []ReturnMeansExecuted
<1>1. ChannelInv => ReturnMeansExecuted
  <2> SUFFICES ASSUME ChannelInv, cpc = "leave"
               PROVE  queue = <<>> /\ Len(executed) = issued
    BY DEF ReturnMeansExecuted
  <2>1. is_done /\ cpc \in CallerWaits
    BY DEF ChannelInv, HandshakeInv, CallerWaits, CallerHasSpin
  <2>2. queue = <<>> /\ ppc # "unlink"
    BY <2>1 DEF ChannelInv, HandshakeInv, PollerInBatch
  <2>3. Depth = 0 /\ Retired = Len(executed) /\ Len(executed) \in Nat
    BY <2>2 DEF Depth, Inserting, Retired, ChannelInv, TypeOK
  <2> QED
    BY <2>2, <2>3 DEF ChannelInv, OrderInv
<1> QED
  BY <1>1, Inductive, PTL

-----------------------------------------------------------------------------
(* Consecutive call numbers: how the abstract channel's queues look.       *)
Consecutive(e, k) == [j \in 1 .. k |-> e + j]

(* Sequences of the same length with the same elements are the same.       *)
LEMMA SameSequence ==
    ASSUME NEW s \in Seq(Nat), NEW t \in Seq(Nat), Len(s) = Len(t),
           \A i \in 1 .. Len(s) : s[i] = t[i]
    PROVE  s = t
<1>1. s \in [1 .. Len(s) -> Nat] /\ t \in [1 .. Len(s) -> Nat]
  OBVIOUS
<1> QED
  BY <1>1, SMTT(60)

(* Appending, reading and removing at the ends of a run of numbers.        *)
LEMMA ConsecutiveProperties ==
    ASSUME NEW e \in Nat, NEW k \in Nat
    PROVE  /\ Consecutive(e, k) \in Seq(Nat) /\ Len(Consecutive(e, k)) = k
           /\ Append(Consecutive(e, k), e + k + 1) = Consecutive(e, k + 1)
           /\ k > 0 => /\ Consecutive(e, k) # <<>>
                       /\ Head(Consecutive(e, k)) = e + 1
                       /\ Tail(Consecutive(e, k)) = Consecutive(e + 1, k - 1)
           /\ k = 0 => Consecutive(e, k) = <<>>
<1>1. Consecutive(e, k) \in Seq(Nat) /\ Len(Consecutive(e, k)) = k
  BY DEF Consecutive
<1>2. Append(Consecutive(e, k), e + k + 1) = Consecutive(e, k + 1)
  BY <1>1 DEF Consecutive
<1>3. ASSUME k > 0
      PROVE  /\ Consecutive(e, k) # <<>>
             /\ Head(Consecutive(e, k)) = e + 1
             /\ Tail(Consecutive(e, k)) = Consecutive(e + 1, k - 1)
  <2>1. Consecutive(e, k) # <<>> /\ Head(Consecutive(e, k)) = e + 1
    BY <1>1, <1>3 DEF Consecutive
  <2>2. /\ Tail(Consecutive(e, k)) \in Seq(Nat) /\ Len(Tail(Consecutive(e, k))) = k - 1
        /\ \A j \in 1 .. k - 1 : Tail(Consecutive(e, k))[j] = Consecutive(e, k)[j + 1]
    BY <1>1, <1>3, <2>1
  <2>3. \A j \in 1 .. k - 1 : Tail(Consecutive(e, k))[j] = (e + 1) + j
    BY <2>2 DEF Consecutive
  <2>4. /\ Consecutive(e + 1, k - 1) \in Seq(Nat) /\ Len(Consecutive(e + 1, k - 1)) = k - 1
        /\ \A j \in 1 .. k - 1 : Consecutive(e + 1, k - 1)[j] = (e + 1) + j
    BY <1>3 DEF Consecutive
  <2>5. /\ Len(Tail(Consecutive(e, k))) = Len(Consecutive(e + 1, k - 1))
        /\ \A j \in 1 .. Len(Tail(Consecutive(e, k))) :
              Tail(Consecutive(e, k))[j] = Consecutive(e + 1, k - 1)[j]
    BY <2>2, <2>3, <2>4
  <2>6. Tail(Consecutive(e, k)) = Consecutive(e + 1, k - 1)
    BY ONLY <2>2, <2>4, <2>5, SameSequence, ZenonT(30)
  <2> QED
    BY <2>1, <2>6
<1>4. k = 0 => Consecutive(e, k) = <<>>
  BY <1>1
<1> QED
  BY ONLY <1>1, <1>2, <1>3, <1>4, ZenonT(30)

(* The abstract channel's view of a HotCall state.                         *)
MadeView == IF cpc \in {"insert_async", "insert_sync"} THEN issued - 1 ELSE issued
PendingView == [j \in DOMAIN PendingSlots |-> fcs[PendingSlots[j]].id]
FinishedView == [n \in DOMAIN executed |-> executed[n].id]
BlockedView == cpc \in CallerWaits \cup {"clear_done", "set_run"}

ViewShape ==
    /\ Len(executed) \in Nat /\ MadeView - Len(executed) \in Nat /\ MadeView \in Int
    /\ FinishedView = Consecutive(0, Len(executed))
    /\ PendingView = Consecutive(Len(executed), MadeView - Len(executed))

(* The view depends on two numbers only: how many calls were linked and    *)
(* how many executed.                                                      *)
LEMMA ViewIsConsecutive == ChannelInv => ViewShape
<1> SUFFICES ASSUME ChannelInv
             PROVE  ViewShape
  OBVIOUS
<1>1. Len(executed) \in Nat /\ DOMAIN executed = 1 .. Len(executed)
  BY DEF ChannelInv, TypeOK
<1>2. FinishedView = Consecutive(0, Len(executed))
  BY <1>1 DEF ChannelInv, OrderInv, ExecutedInOrder, FinishedView, Consecutive
<1>3. Len(queue) \in Nat /\ DOMAIN queue = 1 .. Len(queue) /\ issued \in Nat
  BY SMTT(60) DEF ChannelInv, TypeOK
<1>4. CASE ppc = "unlink"
  <2>1. queue # <<>> /\ ~Inserting
    BY <1>4 DEF ChannelInv, HandshakeInv, PollerInBatch, Inserting, CallerWaits, CallerHasSpin,
                CallerHasMutex
  <2>2. /\ PendingSlots = Tail(queue) /\ Len(queue) > 0
        /\ DOMAIN PendingSlots = 1 .. Len(queue) - 1
        /\ \A j \in 1 .. Len(queue) - 1 : PendingSlots[j] = queue[j + 1]
    BY <1>4, <2>1, SMTT(60) DEF PendingSlots, ChannelInv, TypeOK
  <2>3. MadeView - Len(executed) = Len(queue) - 1
    BY <1>1, <1>3, <1>4, <2>1, SMTT(60) DEF MadeView, ChannelInv, OrderInv, Retired, Depth, Inserting
  <2>4. \A j \in 1 .. Len(queue) - 1 : fcs[queue[j + 1]].id = Len(executed) + j
    BY <1>1, <1>3, <1>4, SMTT(60) DEF ChannelInv, OrderInv, Retired
  <2> QED
    BY ONLY <1>1, <1>2, <1>3, <2>2, <2>3, <2>4, SMTT(60) DEF ViewShape, PendingView, MadeView, Consecutive
<1>5. CASE ppc # "unlink"
  <2>1. PendingSlots = queue
    BY <1>5 DEF PendingSlots
  <2>2. MadeView - Len(executed) = Len(queue)
    BY <1>1, <1>3, <1>5 DEF MadeView, ChannelInv, OrderInv, Retired, Depth, Inserting
  <2>3. \A j \in 1 .. Len(queue) : fcs[queue[j]].id = Len(executed) + j
    BY <1>5 DEF ChannelInv, OrderInv, Retired
  <2> QED
    BY <1>1, <1>2, <1>3, <2>1, <2>2, <2>3, SMTT(60) DEF ViewShape, PendingView, MadeView, Consecutive
<1> QED
  BY <1>4, <1>5

(* The view changes only as the abstract channel does: one step of HotCall *)
(* is one step of the channel or leaves the view alone.                    *)
LEMMA ViewStep ==
    ASSUME ChannelInv, ViewShape, ViewShape', [Next]_vars
    PROVE  [Channel!ChNext]_(Channel!chVars)
<1>1. ASSUME MadeView' = MadeView, executed' = executed, BlockedView' = BlockedView
      PROVE  UNCHANGED Channel!chVars
  <2>1. PendingView' = PendingView /\ FinishedView' = FinishedView
    BY <1>1 DEF ViewShape
  <2> QED
    BY <1>1, <2>1 DEF Channel!chVars, MadeView, PendingView, FinishedView, BlockedView
<1>a. issued \in Nat /\ issued <= MaxCalls /\ MaxCalls \in Nat
  BY BoundAssumption DEF ChannelInv, TypeOK, OrderInv
<1> USE DEF Caller, Poller, flags, sleepState, calls, work
<1>2. CASE InsertCall
  <2>1. MadeView' = MadeView + 1 /\ executed' = executed /\ FinishedView' = FinishedView
    BY <1>2, SMTT(60) DEF InsertCall, MadeView, FinishedView, ChannelInv, TypeOK
  <2>2. PendingView' = Append(PendingView, MadeView + 1)
    BY <2>1, ConsecutiveProperties, SMTT(60) DEF ViewShape
  <2>3. ~BlockedView /\ MadeView < MaxCalls
    <3>1. cpc \in {"insert_async", "insert_sync"}
      BY <1>2 DEF InsertCall
    <3> QED
      BY ONLY <1>a, <3>1 DEF BlockedView, CallerWaits, CallerHasSpin, CallerHasMutex, MadeView
  <2>4. CASE cpc = "insert_sync"
    <3>1. BlockedView' = TRUE
      BY <1>2, <2>4 DEF InsertCall, BlockedView
    <3>2. Channel!IssueSync
      BY <2>1, <2>2, <2>3, <3>1, ZenonT(30)
      DEF Channel!IssueSync, MadeView, PendingView, FinishedView, BlockedView
    <3> QED
      BY <3>2 DEF Channel!ChNext
  <2>5. CASE cpc = "insert_async"
    <3>1. BlockedView' = BlockedView
      BY <1>2, <2>5 DEF InsertCall, BlockedView, CallerWaits, CallerHasSpin, CallerHasMutex
    <3>2. Len(PendingView) < MaxBatch
      <4>1. Len(PendingView) = MadeView - Len(executed)
        BY ConsecutiveProperties, ZenonT(30) DEF ViewShape
      <4>2. ppc # "unlink" /\ Inserting
        BY <2>5 DEF ChannelInv, HandshakeInv, PollerInBatch, Inserting, CallerWaits,
                    CallerHasSpin, CallerHasMutex
      <4>3. MadeView - Len(executed) = Len(queue)
        BY <4>2 DEF ViewShape, MadeView, ChannelInv, OrderInv, Retired, Depth, Inserting, TypeOK
      <4> QED
        BY <2>5, <4>1, <4>3 DEF ChannelInv, RingInv
    <3>3. Channel!IssueAsync
      BY <2>1, <2>2, <2>3, <3>1, <3>2, ZenonT(30)
      DEF Channel!IssueAsync, MadeView, PendingView, FinishedView, BlockedView
    <3> QED
      BY <3>3 DEF Channel!ChNext
  <2> QED
    BY ONLY <1>2, <2>4, <2>5, ZenonT(30) DEF InsertCall
<1>3. CASE ExecuteFunction
  <2>1. /\ cpc \in CallerWaits /\ cpc' = cpc /\ queue # <<>> /\ Len(queue) > 0 /\ ~Inserting
    BY <1>3, SMTT(60) DEF ExecuteFunction, ChannelInv, HandshakeInv, PollerInBatch, TypeOK, Inserting,
       CallerWaits, CallerHasSpin, CallerHasMutex
  <2>2. MadeView' = MadeView /\ BlockedView /\ BlockedView' = BlockedView
    BY <1>3, <2>1, ZenonT(30) DEF ExecuteFunction, MadeView, BlockedView
  <2>3. Len(executed') = Len(executed) + 1
    BY ONLY <1>3, SMTT(60) DEF ExecuteFunction, ChannelInv, TypeOK
  <2>4. MadeView - Len(executed) > 0
    BY <1>3, <2>1
    DEF ExecuteFunction, MadeView, ChannelInv, OrderInv, Retired, Depth, Inserting, TypeOK
  <2>5. /\ PendingView # <<>> /\ Head(PendingView) = Len(executed) + 1
        /\ Tail(PendingView) = PendingView'
    <3>1. PendingView' = Consecutive(Len(executed) + 1, (MadeView - Len(executed)) - 1)
      BY <2>2, <2>3 DEF ViewShape
    <3> QED
      BY <2>4, <3>1, ConsecutiveProperties, ZenonT(30) DEF ViewShape
  <2>6. FinishedView' = Append(FinishedView, Len(executed) + 1)
    <3>1. FinishedView' = Consecutive(0, Len(executed) + 1)
      BY <2>3 DEF ViewShape
    <3>2. Append(Consecutive(0, Len(executed)), 0 + Len(executed) + 1)
             = Consecutive(0, Len(executed) + 1)
      BY ConsecutiveProperties, ZenonT(30) DEF ViewShape
    <3> QED
      BY <3>1, <3>2 DEF ViewShape
  <2>7. Channel!Execute
    BY <2>2, <2>5, <2>6, ZenonT(30)
    DEF Channel!Execute, MadeView, PendingView, FinishedView, BlockedView
  <2> QED
    BY ONLY <2>7, ZenonT(30) DEF Channel!ChNext
<1>4. CASE ReturnFromCall
  <2>1. MadeView' = MadeView /\ executed' = executed
    BY <1>4 DEF ReturnFromCall, MadeView
  <2>2. BlockedView /\ BlockedView' = FALSE
    BY <1>4 DEF ReturnFromCall, BlockedView, CallerWaits, CallerHasSpin, CallerHasMutex
  <2>3. queue = <<>> /\ ppc # "unlink" /\ ~Inserting
    BY <1>4, ZenonT(30)
       DEF ReturnFromCall, ChannelInv, HandshakeInv, PollerInBatch, Inserting, CallerWaits, CallerHasSpin
  <2>4. MadeView - Len(executed) = 0
    BY <2>3 DEF MadeView, ChannelInv, OrderInv, Retired, Depth, Inserting, TypeOK
  <2>5. PendingView = <<>> /\ PendingView' = PendingView /\ FinishedView' = FinishedView
    BY <2>1, <2>4, ConsecutiveProperties, ZenonT(30) DEF ViewShape
  <2>6. Channel!Return
    BY <2>1, <2>2, <2>5
    DEF Channel!Return, MadeView, PendingView, FinishedView, BlockedView
  <2> QED
    BY <2>6 DEF Channel!ChNext
<1>5. ASSUME NEW n \in 1 .. MaxValues, PrepareAsync(n)
      PROVE  UNCHANGED Channel!chVars
  <2>1. /\ cpc = "idle" /\ cpc' = "insert_async" /\ issued' = issued + 1
        /\ executed' = executed
    BY <1>5 DEF PrepareAsync
  <2>2. MadeView' = MadeView
    BY ONLY <1>a, <2>1 DEF MadeView
  <2>3. BlockedView' = BlockedView
    BY ONLY <2>1 DEF BlockedView, CallerWaits, CallerHasSpin, CallerHasMutex
  <2> QED
    BY <1>1, <2>1, <2>2, <2>3, ZenonT(30)
<1>6. CASE PrepareSync
  <2>1. /\ cpc = "idle" /\ cpc' = "insert_sync" /\ issued' = issued + 1
        /\ executed' = executed
    BY <1>6 DEF PrepareSync
  <2>2. MadeView' = MadeView
    BY ONLY <1>a, <2>1 DEF MadeView
  <2>3. BlockedView' = BlockedView
    BY ONLY <2>1 DEF BlockedView, CallerWaits, CallerHasSpin, CallerHasMutex
  <2> QED
    BY ONLY <1>1, <2>1, <2>2, <2>3, ZenonT(30)
<1>7. ASSUME \/ ClearDone \/ SetRun \/ CheckSleeping \/ WakeLock \/ WakeSignal \/ WakeUnlock
             \/ CallerSpinLock \/ TestDone \/ CallerSpinUnlock
      PROVE  UNCHANGED Channel!chVars
  <2> DEFINE W == {"clear_done", "set_run", "check_sleeping", "wake_lock", "wake_signal",
                   "wake_unlock", "spin", "test_done", "again", "leave"}
  <2>1. cpc \in W /\ cpc' \in W /\ issued' = issued /\ executed' = executed
    BY ONLY <1>7 DEF ClearDone, SetRun, CheckSleeping, WakeLock, WakeSignal, WakeUnlock,
       CallerSpinLock, TestDone, CallerSpinUnlock, Caller, flags, sleepState, calls, work
  <2>2. MadeView' = MadeView /\ BlockedView' = BlockedView
    BY ONLY <2>1 DEF MadeView, BlockedView, CallerWaits, CallerHasSpin, CallerHasMutex
  <2> QED
    BY ONLY <1>1, <2>1, <2>2, ZenonT(30)
<1>8. ASSUME \/ PollerSpinLock \/ TestRun \/ ClearRun \/ RemoveCall \/ SetDone
             \/ PollerSpinUnlock \/ Tick \/ SetSleeping \/ ClearSleeping \/ SleepLock
             \/ SleepUnlock \/ SpuriousWakeup
      PROVE  UNCHANGED Channel!chVars
  BY <1>8, <1>1, ZenonT(30) DEF PollerSpinLock, TestRun, ClearRun, RemoveCall, SetDone, PollerSpinUnlock,
     Tick, SetSleeping, ClearSleeping, SleepLock, SleepUnlock, SpuriousWakeup, MadeView,
     BlockedView
<1>9. CASE UNCHANGED vars
  BY <1>9, <1>1 DEF vars, MadeView, BlockedView
<1> QED
  BY <1>2, <1>3, <1>4, <1>5, <1>6, <1>7, <1>8, <1>9, ZenonT(30)
     DEF Next, CallerEnters, CallerSteps, PollerSteps

(* HotCall implements the abstract call channel: whatever the two threads  *)
(* do, callers see calls executed once, in order, before a synchronous     *)
(* call returns.                                                           *)
THEOREM Refinement == Spec => Channel!ChSafeSpec
<1>1. Init => Channel!ChInit
  BY DEF Init, Channel!ChInit, PendingSlots, CallerWaits, CallerHasSpin, CallerHasMutex
<1>2. ChannelInv /\ ViewShape /\ ViewShape' /\ [Next]_vars => [Channel!ChNext]_(Channel!chVars)
  BY ViewStep
<1>3. Spec => []ViewShape
  BY Inductive, ViewIsConsecutive, PTL
<1> QED
  BY <1>1, <1>2, <1>3, Inductive, PTL DEF Spec, Channel!ChSafeSpec

=============================================================================
