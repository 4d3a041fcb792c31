---------------------------- MODULE HotCallSteps ----------------------------
(***************************************************************************)
(* What the steps of the HotCall channel keep: the types, the spin lock,   *)
(* the handshake of the flags, the ring of calls and the order in which    *)
(* they are executed.                                                      *)
(***************************************************************************)
EXTENDS HotCall, TLAPS

(* The value ring's index arithmetic stays inside the ring.                *)
LEMMA CellsInRing ==
    ASSUME NEW i \in Nat, NEW n \in Nat \ {0}
    PROVE  /\ NextCells(i, n) \subseteq Cells
           /\ AfterValues(i, n) \in 0 .. ValueRing
<1>1. \A k \in 1 .. n : (i + k - 1) % ValueRing \in Cells
  BY ValueAssumption DEF Cells
<1>2. (i + n - 1) % ValueRing \in Cells
  BY ValueAssumption DEF Cells
<1> QED
  BY <1>1, <1>2, ValueAssumption DEF NextCells, AfterValues, Cells

(* The slots handed out stay inside the ring.                              *)
LEMMA SlotsInRing ==
    ASSUME TypeOK
    PROVE  /\ NextSlot(idx) \in Slots
           /\ SlotBack(idx, 1) \in Slots
  BY RingAssumption DEF TypeOK, NextSlot, SlotBack, Slots

(* Slots handed out at different times in the last RingSize calls differ.  *)
LEMMA SlotsDiffer ==
    ASSUME idx \in Slots, NEW d \in 1 .. RingSize
    PROVE  /\ d < RingSize => SlotBack(idx, d) # idx
           /\ d > 1 => SlotBack(idx, d) # SlotBack(idx, 1)
  BY RingAssumption DEF SlotBack, Slots

(* The slot get_fcall hands out is not in use: the queue is shorter than   *)
(* the ring.                                                               *)
LEMMA NextSlotIsFree ==
    ASSUME TypeOK, RingInv, cpc = "idle"
    PROVE  \A j \in 1 .. Len(queue) : queue[j] # idx
<1>1. Len(queue) \in Nat /\ Len(queue) < RingSize /\ Depth = Len(queue)
  BY RingAssumption DEF TypeOK, RingInv, Depth, Inserting
<1>2. \A j \in 1 .. Len(queue) : (Depth + 1) - j \in 1 .. RingSize /\ (Depth + 1) - j < RingSize
  BY <1>1, RingAssumption
<1> QED
  BY <1>2, SlotsDiffer, ZenonT(30) DEF RingInv, TypeOK

(* So linking the call just prepared appends it to the queue.              *)
LEMMA InsertAppends ==
    ASSUME TypeOK, RingInv, Inserting
    PROVE  list_insert(queue, SlotBack(idx, 1)) = Append(queue, SlotBack(idx, 1))
<1>1. Len(queue) \in Nat /\ Len(queue) < RingSize /\ Depth = Len(queue) + 1
  BY RingAssumption, SMTT(60) DEF TypeOK, RingInv, Depth, Inserting
<1>2. \A j \in 1 .. Len(queue) : (Depth + 1) - j \in 1 .. RingSize /\ (Depth + 1) - j > 1
  BY <1>1, RingAssumption
<1>3. \A j \in 1 .. Len(queue) : queue[j] # SlotBack(idx, 1)
  BY <1>2, SlotsDiffer, ZenonT(30) DEF RingInv, TypeOK
<1>4. DOMAIN queue = 1 .. Len(queue)
  BY DEF TypeOK
<1> QED
  BY <1>3, <1>4 DEF list_insert

(* Every step keeps the variables in their ranges.                         *)
LEMMA TypeStep == TypeOK /\ RingInv /\ HandshakeInv /\ [Next]_vars => TypeOK'
<1> SUFFICES ASSUME TypeOK, RingInv, HandshakeInv, [Next]_vars
             PROVE  TypeOK'
  OBVIOUS
<1> USE DEF TypeOK, Caller, Poller, Acquire, Release, flags, sleepState, calls, work,
            CallerPrepares, CallerWaits, CallerHasSpin, CallerHasMutex,
            PollerPositions, PollerHasSpin, PollerInBatch, PollerAsleep, PollerHasMutex
<1>1. ASSUME NEW n \in 1 .. MaxValues, PrepareAsync(n)
      PROVE  TypeOK'
  <2>1. n \in Nat \ {0} /\ idx_uint8 \in Nat
    BY ValueAssumption
  <2>2. NextCells(idx_uint8, n) \subseteq Cells /\ AfterValues(idx_uint8, n) \in 0 .. ValueRing
    BY <2>1, CellsInRing
  <2>3. NextSlot(idx) \in Slots
    BY SlotsInRing
  <2>4. uint8_ts' \in [Cells -> Nat]
    BY <1>1 DEF PrepareAsync
  <2>5. fcs' \in [Slots -> [id : Nat, args : SUBSET Cells]]
    BY <1>1, <2>2 DEF PrepareAsync
  <2> QED
    BY <1>1, <2>2, <2>3, <2>4, <2>5, SMTT(60) DEF PrepareAsync
<1>2. CASE PrepareSync
  <2>1. NextSlot(idx) \in Slots
    BY SlotsInRing
  <2>2. fcs' \in [Slots -> [id : Nat, args : SUBSET Cells]]
    BY <1>2 DEF PrepareSync, OnStack
  <2> QED
    BY <1>2, <2>1, <2>2 DEF PrepareSync
<1>3. CASE InsertCall
  <2>1. queue' = Append(queue, SlotBack(idx, 1))
    BY <1>3, InsertAppends DEF InsertCall, Inserting
  <2>2. queue' \in Seq(Slots)
    BY <2>1, SlotsInRing
  <2> QED
    BY <1>3, <2>2 DEF InsertCall
<1>4. CASE ClearDone
  BY <1>4, ZenonT(30) DEF ClearDone
<1>5. CASE SetRun
  BY <1>5 DEF SetRun
<1>6. CASE CheckSleeping
  BY <1>6 DEF CheckSleeping
<1>7. CASE WakeLock
  BY <1>7 DEF WakeLock
<1>8. CASE WakeSignal
  BY <1>8 DEF WakeSignal
<1>9. CASE WakeUnlock
  BY <1>9 DEF WakeUnlock
<1>10. CASE CallerSpinLock
  BY <1>10 DEF CallerSpinLock
<1>11. CASE TestDone
  BY <1>11 DEF TestDone
<1>12. CASE CallerSpinUnlock
  BY <1>12 DEF CallerSpinUnlock
<1>13. CASE ReturnFromCall
  BY <1>13 DEF ReturnFromCall, NoValue
<1>14. CASE PollerSpinLock
  BY <1>14 DEF PollerSpinLock
<1>15. CASE TestRun
  BY <1>15 DEF TestRun
<1>16. CASE ClearRun
  <2>1. timer' \in 1 .. InitTimer
    BY <1>16, BoundAssumption DEF ClearRun
  <2> QED
    BY <1>16, <2>1, ZenonT(30) DEF ClearRun
<1>17. CASE ExecuteFunction
  <2> DEFINE fc == fcs[Head(queue)]
  <2>1. Head(queue) \in Slots
    BY <1>17 DEF ExecuteFunction
  <2>2. fc.id \in Nat /\ fc.args \in SUBSET Cells
    BY <2>1
  <2>3. ArgumentsOf(fc) \in SUBSET Nat
    BY <2>2 DEF ArgumentsOf
  <2>4. executed' \in Seq([id : Nat, read : SUBSET Nat])
    BY <1>17, <2>2, <2>3 DEF ExecuteFunction
  <2> QED
    BY <1>17, <2>4 DEF ExecuteFunction
<1>18. CASE RemoveCall
  <2>1. queue' \in Seq(Slots)
    BY <1>18 DEF RemoveCall, HandshakeInv
  <2> QED
    BY <1>18, <2>1 DEF RemoveCall
<1>19. CASE SetDone
  BY <1>19 DEF SetDone
<1>20. CASE PollerSpinUnlock
  BY <1>20 DEF PollerSpinUnlock
<1>21. CASE Tick
  <2>1. timer' \in 1 .. InitTimer
    BY <1>21, BoundAssumption, SMTT(60) DEF Tick
  <2> QED
    BY <1>21, <2>1 DEF Tick
<1>22. CASE SetSleeping
  BY <1>22 DEF SetSleeping
<1>23. CASE ClearSleeping
  BY <1>23, ZenonT(30) DEF ClearSleeping
<1>24. CASE SleepLock
  BY <1>24 DEF SleepLock
<1>25. CASE SleepUnlock
  BY <1>25 DEF SleepUnlock
<1>26. CASE SpuriousWakeup
  BY <1>26 DEF SpuriousWakeup
<1>27. CASE UNCHANGED vars
  BY <1>27, SMTT(60) DEF vars
<1> QED
  BY <1>1, <1>2, <1>3, <1>4, <1>5, <1>6, <1>7, <1>8, <1>9, <1>10, <1>11, <1>12,
     <1>13, <1>14, <1>15, <1>16, <1>17, <1>18, <1>19, <1>20, <1>21, <1>22, <1>23, <1>24, <1>25, <1>26, <1>27, ZenonT(30)
     DEF Next, CallerEnters, CallerSteps, PollerSteps

(* Every step keeps the spinlock with at most one of the threads.          *)
LEMMA LockStep == TypeOK /\ LockInv /\ [Next]_vars => LockInv'
<1> SUFFICES ASSUME TypeOK, LockInv, [Next]_vars
             PROVE  LockInv'
  OBVIOUS
<1> USE DEF TypeOK, LockInv, Caller, Poller, Acquire, Release, flags, sleepState, calls, work,
            CallerPrepares, CallerWaits, CallerHasSpin, CallerHasMutex,
            PollerPositions, PollerHasSpin, PollerInBatch, PollerAsleep, PollerHasMutex
<1>1. ASSUME NEW n \in 1 .. MaxValues, PrepareAsync(n)
      PROVE  LockInv'
  BY <1>1 DEF PrepareAsync
<1>2. CASE PrepareSync
  BY <1>2 DEF PrepareSync
<1>3. CASE InsertCall
  BY <1>3 DEF InsertCall
<1>4. CASE ClearDone
  BY <1>4 DEF ClearDone
<1>5. CASE SetRun
  BY <1>5 DEF SetRun
<1>6. CASE CheckSleeping
  BY <1>6 DEF CheckSleeping
<1>7. CASE WakeLock
  BY <1>7 DEF WakeLock
<1>8. CASE WakeSignal
  BY <1>8 DEF WakeSignal
<1>9. CASE WakeUnlock
  BY <1>9 DEF WakeUnlock
<1>10. CASE CallerSpinLock
  BY <1>10 DEF CallerSpinLock
<1>11. CASE TestDone
  BY <1>11 DEF TestDone
<1>12. CASE CallerSpinUnlock
  BY <1>12 DEF CallerSpinUnlock
<1>13. CASE ReturnFromCall
  BY <1>13 DEF ReturnFromCall
<1>14. CASE PollerSpinLock
  BY <1>14 DEF PollerSpinLock
<1>15. CASE TestRun
  BY <1>15 DEF TestRun
<1>16. CASE ClearRun
  BY <1>16, ZenonT(30) DEF ClearRun
<1>17. CASE ExecuteFunction
  BY <1>17 DEF ExecuteFunction
<1>18. CASE RemoveCall
  BY <1>18 DEF RemoveCall
<1>19. CASE SetDone
  BY <1>19 DEF SetDone
<1>20. CASE PollerSpinUnlock
  BY <1>20 DEF PollerSpinUnlock
<1>21. CASE Tick
  BY <1>21 DEF Tick
<1>22. CASE SetSleeping
  BY <1>22 DEF SetSleeping
<1>23. CASE ClearSleeping
  BY <1>23 DEF ClearSleeping
<1>24. CASE SleepLock
  BY <1>24 DEF SleepLock
<1>25. CASE SleepUnlock
  BY <1>25 DEF SleepUnlock
<1>26. CASE SpuriousWakeup
  BY <1>26 DEF SpuriousWakeup
<1>27. CASE UNCHANGED vars
  BY <1>27 DEF vars
<1> QED
  BY <1>1, <1>2, <1>3, <1>4, <1>5, <1>6, <1>7, <1>8, <1>9, <1>10, <1>11, <1>12,
     <1>13, <1>14, <1>15, <1>16, <1>17, <1>18, <1>19, <1>20, <1>21, <1>22, <1>23,
     <1>24, <1>25, <1>26, <1>27, ZenonT(30)
  DEF Next, CallerEnters, CallerSteps, PollerSteps

(* Every step keeps run, is_done and the queue in agreement with where the *)
(* two threads are.                                                        *)
LEMMA HandshakeStep == TypeOK /\ LockInv /\ HandshakeInv /\ [Next]_vars => HandshakeInv'
<1> SUFFICES ASSUME TypeOK, LockInv, HandshakeInv, [Next]_vars
             PROVE  HandshakeInv'
  BY ZenonT(30)
<1> USE DEF TypeOK, LockInv, HandshakeInv, Caller, Poller, Acquire, Release,
            flags, sleepState, calls, work,
            CallerPrepares, CallerWaits, CallerHasSpin, CallerHasMutex,
            PollerPositions, PollerHasSpin, PollerInBatch, PollerAsleep, PollerHasMutex
<1>1. ASSUME NEW n \in 1 .. MaxValues, PrepareAsync(n)
      PROVE  HandshakeInv'
  BY <1>1, ZenonT(30) DEF PrepareAsync
<1>2. CASE PrepareSync
  BY <1>2, SMTT(60) DEF PrepareSync
<1>3. CASE InsertCall
  BY <1>3, ZenonT(30) DEF InsertCall
<1>4. CASE ClearDone
  BY <1>4, SMTT(60) DEF ClearDone
<1>5. CASE SetRun
  BY <1>5, SMTT(60) DEF SetRun
<1>6. CASE CheckSleeping
  BY <1>6, SMTT(60) DEF CheckSleeping
<1>7. CASE WakeLock
  BY <1>7 DEF WakeLock
<1>8. CASE WakeSignal
  BY <1>8, ZenonT(30) DEF WakeSignal
<1>9. CASE WakeUnlock
  BY <1>9, ZenonT(30) DEF WakeUnlock
<1>10. CASE CallerSpinLock
  BY <1>10, ZenonT(30) DEF CallerSpinLock
<1>11. CASE TestDone
  BY <1>11, ZenonT(30) DEF TestDone
<1>12. CASE CallerSpinUnlock
  BY <1>12, SMTT(60) DEF CallerSpinUnlock
<1>13. CASE ReturnFromCall
  BY <1>13, ZenonT(30) DEF ReturnFromCall
<1>14. CASE PollerSpinLock
  BY <1>14, ZenonT(30) DEF PollerSpinLock
<1>15. CASE TestRun
  BY <1>15, ZenonT(30) DEF TestRun
<1>16. CASE ClearRun
  BY <1>16, ZenonT(30) DEF ClearRun
<1>17. CASE ExecuteFunction
  BY <1>17, ZenonT(30) DEF ExecuteFunction
<1>18. CASE RemoveCall
  BY <1>18, ZenonT(30) DEF RemoveCall
<1>19. CASE SetDone
  BY <1>19, ZenonT(30) DEF SetDone
<1>20. CASE PollerSpinUnlock
  BY <1>20, ZenonT(30) DEF PollerSpinUnlock
<1>21. CASE Tick
  BY <1>21, ZenonT(30) DEF Tick
<1>22. CASE SetSleeping
  BY <1>22, ZenonT(30) DEF SetSleeping
<1>23. CASE ClearSleeping
  BY <1>23, ZenonT(30) DEF ClearSleeping
<1>24. CASE SleepLock
  BY <1>24, ZenonT(30) DEF SleepLock
<1>25. CASE SleepUnlock
  BY <1>25, ZenonT(30) DEF SleepUnlock
<1>26. CASE SpuriousWakeup
  BY <1>26, ZenonT(30) DEF SpuriousWakeup
<1>27. CASE UNCHANGED vars
  BY <1>27 DEF vars
<1> QED
  BY <1>1, <1>2, <1>3, <1>4, <1>5, <1>6, <1>7, <1>8, <1>9, ZenonT(30),
     <1>10, <1>11, <1>12,
     <1>13, <1>14, <1>15, <1>16, <1>17, <1>18,
     <1>19, <1>20, <1>21, <1>22, <1>23, <1>24, <1>25, <1>26, <1>27
  DEF Next, CallerEnters, CallerSteps, PollerSteps

(* Handing out a slot moves every earlier one a call further back.         *)
LEMMA SlotShift ==
    ASSUME NEW i \in Slots
    PROVE  /\ SlotBack(NextSlot(i), 1) = i
           /\ \A d \in 1 .. RingSize - 1 : SlotBack(NextSlot(i), d + 1) = SlotBack(i, d)
  BY RingAssumption DEF SlotBack, NextSlot, Slots

(* What preparing a call does to the window of slots in use.               *)
LEMMA PrepareRing ==
    ASSUME TypeOK, RingInv, cpc = "idle", queue' = queue, idx' = NextSlot(idx),
           \/ cpc' = "insert_async" /\ Len(queue) < MaxBatch
           \/ cpc' = "insert_sync"
    PROVE  RingInv'
<1>1. /\ Len(queue) \in Nat /\ Len(queue) <= MaxBatch
      /\ Depth = Len(queue) /\ Depth' = Len(queue) + 1
  BY DEF TypeOK, RingInv, Depth, Inserting
<1>2. ASSUME NEW j \in 1 .. Len(queue)
      PROVE  queue[j] = SlotBack(idx', (Depth' + 1) - j)
  <2>1. (Depth + 1) - j \in 1 .. RingSize - 1 /\ (Depth' + 1) - j = ((Depth + 1) - j) + 1
    BY <1>1, RingAssumption
  <2>2. SlotBack(idx', ((Depth + 1) - j) + 1) = SlotBack(idx, (Depth + 1) - j)
    BY <2>1, SlotShift, ZenonT(30) DEF TypeOK
  <2> QED
    BY <2>1, <2>2 DEF RingInv
<1> QED
  BY <1>1, <1>2, RingAssumption DEF RingInv

(* Every step keeps the queue a window of the ring.                        *)
LEMMA RingStep == TypeOK /\ HandshakeInv /\ RingInv /\ [Next]_vars => RingInv'
<1> SUFFICES ASSUME TypeOK, HandshakeInv, RingInv, [Next]_vars
             PROVE  RingInv'
  OBVIOUS
<1> USE DEF Caller, Poller, flags, sleepState, calls, work
<1>1. ASSUME NEW n \in 1 .. MaxValues, PrepareAsync(n)
      PROVE  RingInv'
  BY <1>1, PrepareRing DEF PrepareAsync
<1>2. CASE PrepareSync
  BY <1>2, PrepareRing DEF PrepareSync
<1>3. CASE InsertCall
  <2>1. queue' = Append(queue, SlotBack(idx, 1)) /\ SlotBack(idx, 1) \in Slots
    BY <1>3, InsertAppends, SlotsInRing DEF InsertCall, Inserting
  <2>2. /\ Len(queue) \in Nat /\ Len(queue') = Len(queue) + 1
        /\ Depth = Len(queue) + 1 /\ Depth' = Depth
    BY ONLY <1>3, <2>1, SMTT(60) DEF TypeOK, InsertCall, Depth, Inserting
  <2>3. ASSUME NEW j \in 1 .. Len(queue')
        PROVE  queue'[j] = SlotBack(idx, (Depth + 1) - j)
    <3>1. CASE j = Len(queue) + 1
      BY <2>1, <2>2, <3>1 DEF TypeOK
    <3>2. CASE j \in 1 .. Len(queue)
      BY <2>1, <2>2, <3>2 DEF TypeOK, RingInv
    <3> QED
      BY <2>2, <3>1, <3>2
  <2>4. idx' = idx
    BY <1>3 DEF InsertCall
  <2> QED
    BY <1>3, <2>2, <2>3, <2>4, RingAssumption DEF InsertCall, RingInv, Inserting
<1>4. CASE ClearDone
  BY <1>4 DEF ClearDone, RingInv, Depth, Inserting
<1>5. CASE SetRun
  BY <1>5 DEF SetRun, RingInv, Depth, Inserting
<1>6. CASE CheckSleeping
  BY <1>6 DEF CheckSleeping, RingInv, Depth, Inserting
<1>7. CASE WakeLock
  BY <1>7 DEF WakeLock, RingInv, Depth, Inserting
<1>8. CASE WakeSignal
  BY <1>8 DEF WakeSignal, RingInv, Depth, Inserting
<1>9. CASE WakeUnlock
  BY <1>9 DEF WakeUnlock, RingInv, Depth, Inserting
<1>10. CASE CallerSpinLock
  BY <1>10 DEF CallerSpinLock, RingInv, Depth, Inserting
<1>11. CASE TestDone
  BY <1>11 DEF TestDone, RingInv, Depth, Inserting
<1>12. CASE CallerSpinUnlock
  BY <1>12 DEF CallerSpinUnlock, RingInv, Depth, Inserting
<1>13. CASE ReturnFromCall
  BY <1>13, RingAssumption
  DEF ReturnFromCall, RingInv, Depth, Inserting, HandshakeInv, CallerWaits, CallerHasSpin
<1>14. CASE PollerSpinLock
  BY <1>14 DEF PollerSpinLock, RingInv, Depth, Inserting
<1>15. CASE TestRun
  BY <1>15 DEF TestRun, RingInv, Depth, Inserting
<1>16. CASE ClearRun
  BY <1>16, ZenonT(30) DEF ClearRun, RingInv, Depth, Inserting
<1>17. CASE ExecuteFunction
  BY <1>17 DEF ExecuteFunction, RingInv, Depth, Inserting
<1>18. CASE RemoveCall
  <2>1. queue # <<>> /\ queue' = Tail(queue) /\ cpc' = cpc /\ cpc \in CallerWaits
    BY <1>18 DEF RemoveCall, HandshakeInv, PollerInBatch
  <2>2. /\ Len(queue) \in Nat \ {0} /\ Len(queue') = Len(queue) - 1
        /\ \A j \in 1 .. Len(queue') : queue'[j] = queue[j + 1]
    BY <2>1 DEF TypeOK
  <2>3. Depth = Len(queue) /\ Depth' = Len(queue) - 1
    BY <2>1, <2>2, ZenonT(30) DEF Depth, Inserting, CallerWaits, CallerHasSpin, CallerHasMutex
  <2>4. idx' = idx
    BY <1>18 DEF RemoveCall
  <2>5. ASSUME NEW j \in 1 .. Len(queue')
        PROVE  queue'[j] = SlotBack(idx, (Depth' + 1) - j)
    <3>1. j + 1 \in 1 .. Len(queue) /\ (Depth' + 1) - j = (Depth + 1) - (j + 1)
      BY <2>2, <2>3
    <3> QED
      BY <2>2, <3>1 DEF RingInv
  <2> QED
    BY <2>1, <2>2, <2>4, <2>5, RingAssumption
    DEF RingInv, CallerWaits, CallerHasSpin, CallerHasMutex
<1>19. CASE SetDone
  BY <1>19 DEF SetDone, RingInv, Depth, Inserting
<1>20. CASE PollerSpinUnlock
  BY <1>20 DEF PollerSpinUnlock, RingInv, Depth, Inserting
<1>21. CASE Tick
  BY <1>21 DEF Tick, RingInv, Depth, Inserting
<1>22. CASE SetSleeping
  BY <1>22 DEF SetSleeping, RingInv, Depth, Inserting
<1>23. CASE ClearSleeping
  BY <1>23 DEF ClearSleeping, RingInv, Depth, Inserting
<1>24. CASE SleepLock
  BY <1>24 DEF SleepLock, RingInv, Depth, Inserting
<1>25. CASE SleepUnlock
  BY <1>25 DEF SleepUnlock, RingInv, Depth, Inserting
<1>26. CASE SpuriousWakeup
  BY <1>26 DEF SpuriousWakeup, RingInv, Depth, Inserting
<1>27. CASE UNCHANGED vars
  BY <1>27, ZenonT(30) DEF vars, RingInv, Depth, Inserting
<1> QED
  BY <1>1, <1>2, <1>3, <1>4, <1>5, <1>6, <1>7, <1>8, <1>9,
     <1>10, <1>11, <1>12,
     <1>13, <1>14, <1>15, <1>16, <1>17, <1>18,
     <1>19, <1>20, <1>21, <1>22, <1>23, <1>24, <1>25, <1>26, <1>27, ZenonT(30)
  DEF Next, CallerEnters, CallerSteps, PollerSteps

(* What preparing a call does to the numbering of the calls.               *)
LEMMA PrepareOrder ==
    ASSUME TypeOK, RingInv, OrderInv, cpc = "idle", issued < MaxCalls, NEW c,
           fcs' = [fcs EXCEPT ![idx] = [id |-> issued + 1, args |-> c]],
           cpc' \in {"insert_async", "insert_sync"}, issued' = issued + 1,
           idx' = NextSlot(idx), UNCHANGED <<queue, executed, ppc>>
    PROVE  OrderInv'
<1>1. Depth = Len(queue) /\ Depth' = Len(queue) + 1 /\ Inserting' /\ Retired' = Retired
  BY ZenonT(30) DEF Depth, Inserting, Retired
<1>2. Len(queue) \in Nat /\ issued \in Nat /\ Len(executed) \in Nat /\ Retired \in Int
  BY SMTT(60) DEF TypeOK, Retired
<1>3. ASSUME NEW j \in 1 .. Len(queue)
      PROVE  fcs'[queue[j]].id = Retired + j
  <2>1. queue[j] # idx /\ queue[j] \in Slots
    BY NextSlotIsFree, SMTT(60) DEF TypeOK
  <2>2. fcs'[queue[j]] = fcs[queue[j]]
    BY <2>1 DEF TypeOK
  <2> QED
    BY <2>2, ZenonT(30) DEF OrderInv
<1>4. fcs'[SlotBack(idx', 1)].id = issued'
  BY SlotShift, ZenonT(30) DEF TypeOK
<1>5. ExecutedInOrder'
  BY ZenonT(30) DEF OrderInv, ExecutedInOrder
<1>6. issued' = Retired' + Depth' /\ issued' <= MaxCalls
  BY <1>1, <1>2, BoundAssumption, SMTT(60) DEF OrderInv
<1> QED
  BY <1>1, <1>3, <1>4, <1>5, <1>6 DEF OrderInv

(* Every step keeps the calls numbered and executed in the order of issue. *)
LEMMA OrderStep == TypeOK /\ HandshakeInv /\ RingInv /\ OrderInv /\ [Next]_vars => OrderInv'
<1> SUFFICES ASSUME TypeOK, HandshakeInv, RingInv, OrderInv, [Next]_vars
             PROVE  OrderInv'
  OBVIOUS
<1> USE DEF Caller, Poller, flags, sleepState, calls, work
<1>1. ASSUME NEW n \in 1 .. MaxValues, PrepareAsync(n)
      PROVE  OrderInv'
  BY <1>1, PrepareOrder, ZenonT(30) DEF PrepareAsync
<1>2. CASE PrepareSync
  BY <1>2, PrepareOrder, ZenonT(30) DEF PrepareSync
<1>3. CASE InsertCall
  <2>1. queue' = Append(queue, SlotBack(idx, 1)) /\ SlotBack(idx, 1) \in Slots
    BY <1>3, InsertAppends, SlotsInRing, ZenonT(30) DEF InsertCall, Inserting
  <2>2. /\ Len(queue) \in Nat /\ Len(queue') = Len(queue) + 1
        /\ Depth = Len(queue) + 1 /\ Depth' = Depth /\ ~Inserting' /\ Inserting
    BY <1>3, <2>1 DEF TypeOK, InsertCall, Depth, Inserting
  <2>3. Retired' = Retired /\ fcs' = fcs /\ issued' = issued /\ executed' = executed
    BY <1>3 DEF InsertCall, Retired
  <2>4. ASSUME NEW j \in 1 .. Len(queue')
        PROVE  fcs[queue'[j]].id = Retired + j
    <3>1. CASE j = Len(queue) + 1
      BY <2>1, <2>2, <3>1 DEF TypeOK, OrderInv
    <3>2. CASE j \in 1 .. Len(queue)
      BY <2>1, <3>2, SMTT(60) DEF TypeOK, OrderInv
    <3> QED
      BY ONLY <2>2, <3>1, <3>2, SMTT(60)
  <2> QED
    BY <2>2, <2>3, <2>4, ZenonT(30) DEF OrderInv, ExecutedInOrder
<1>4. CASE ClearDone
  BY <1>4 DEF ClearDone, OrderInv, ExecutedInOrder, Retired, Depth, Inserting
<1>5. CASE SetRun
  BY <1>5, ZenonT(30) DEF SetRun, OrderInv, ExecutedInOrder, Retired, Depth, Inserting
<1>6. CASE CheckSleeping
  BY <1>6, ZenonT(30) DEF CheckSleeping, OrderInv, ExecutedInOrder, Retired, Depth, Inserting
<1>7. CASE WakeLock
  BY <1>7, ZenonT(30) DEF WakeLock, OrderInv, ExecutedInOrder, Retired, Depth, Inserting
<1>8. CASE WakeSignal
  BY <1>8, ZenonT(30) DEF WakeSignal, OrderInv, ExecutedInOrder, Retired, Depth, Inserting
<1>9. CASE WakeUnlock
  BY <1>9, ZenonT(30) DEF WakeUnlock, OrderInv, ExecutedInOrder, Retired, Depth, Inserting
<1>10. CASE CallerSpinLock
  BY <1>10, ZenonT(30) DEF CallerSpinLock, OrderInv, ExecutedInOrder, Retired, Depth, Inserting
<1>11. CASE TestDone
  BY <1>11, ZenonT(30) DEF TestDone, OrderInv, ExecutedInOrder, Retired, Depth, Inserting
<1>12. CASE CallerSpinUnlock
  BY <1>12, ZenonT(30) DEF CallerSpinUnlock, OrderInv, ExecutedInOrder, Retired, Depth, Inserting
<1>13. CASE ReturnFromCall
  BY <1>13, ZenonT(30) DEF ReturnFromCall, OrderInv, ExecutedInOrder, Retired, Depth, Inserting
<1>14. CASE PollerSpinLock
  BY <1>14, ZenonT(30) DEF PollerSpinLock, OrderInv, ExecutedInOrder, Retired, Depth, Inserting
<1>15. CASE TestRun
  BY <1>15, ZenonT(30) DEF TestRun, OrderInv, ExecutedInOrder, Retired, Depth, Inserting
<1>16. CASE ClearRun
  BY <1>16, ZenonT(30) DEF ClearRun, OrderInv, ExecutedInOrder, Retired, Depth, Inserting
<1>17. CASE ExecuteFunction
  <2> DEFINE fc == fcs[Head(queue)]
  <2>1. /\ queue # <<>> /\ Len(queue) \in Nat /\ 1 \in 1 .. Len(queue)
        /\ Head(queue) = queue[1] /\ Head(queue) \in Slots
    BY <1>17 DEF ExecuteFunction, TypeOK
  <2>2. Retired = Len(executed) /\ Len(executed) \in Nat
    BY <1>17 DEF ExecuteFunction, Retired, TypeOK
  <2>3. fc.id = Len(executed) + 1
    BY <2>1, <2>2, ZenonT(30) DEF OrderInv
  <2>4. fc.id \in Nat /\ ArgumentsOf(fc) \in SUBSET Nat
    BY <2>1, ZenonT(30) DEF TypeOK, ArgumentsOf
  <2>5. /\ executed' = Append(executed, [id |-> fc.id, read |-> ArgumentsOf(fc)])
        /\ Len(executed') = Len(executed) + 1
    BY ONLY <1>17, <2>4, SMTT(60) DEF ExecuteFunction, TypeOK
  <2>6. Retired' = Retired /\ Depth' = Depth /\ Inserting' = Inserting
    BY ONLY <1>17, <2>2, <2>5, SMTT(60) DEF ExecuteFunction, Retired, Depth, Inserting
  <2>7. ASSUME NEW n \in 1 .. Len(executed')
        PROVE  executed'[n].id = n
    <3>1. CASE n = Len(executed) + 1
      BY ONLY <2>3, <2>5, <3>1, SMTT(60) DEF TypeOK
    <3>2. CASE n \in 1 .. Len(executed)
      <4>1. executed'[n] = executed[n]
        BY <2>5, <3>2 DEF TypeOK
      <4> QED
        BY <4>1, <3>2, SMTT(60) DEF OrderInv, ExecutedInOrder, TypeOK
    <3> QED
      BY ONLY <2>2, <2>5, <3>1, <3>2, SMTT(60)
  <2>8. DOMAIN executed' = 1 .. Len(executed')
    BY ONLY <2>5, SMTT(60) DEF TypeOK
  <2> QED
    BY <1>17, <2>6, <2>7, <2>8 DEF ExecuteFunction, OrderInv, ExecutedInOrder
<1>18. CASE RemoveCall
  <2>1. queue # <<>> /\ queue' = Tail(queue) /\ cpc' = cpc
    BY <1>18 DEF RemoveCall, HandshakeInv
  <2>2. /\ Len(queue) \in Nat \ {0} /\ Len(queue') = Len(queue) - 1
        /\ \A j \in 1 .. Len(queue') : queue'[j] = queue[j + 1]
    BY ONLY <2>1, SMTT(60) DEF TypeOK
  <2>3. /\ Retired = Len(executed) - 1 /\ Retired' = Len(executed) /\ Len(executed) \in Nat
        /\ Inserting' = Inserting /\ Depth' = Depth - 1
    BY ONLY <1>18, <2>2, SMTT(60) DEF RemoveCall, Retired, Depth, Inserting, TypeOK
  <2>4. \A j \in 1 .. Len(queue') : fcs[queue'[j]].id = Retired' + j
    BY <2>2, <2>3, SMTT(60) DEF OrderInv
  <2>5. issued = Retired' + Depth'
    BY <2>2, <2>3 DEF OrderInv, Depth
  <2> QED
    BY <1>18, <2>3, <2>4, <2>5, ZenonT(30) DEF RemoveCall, OrderInv, ExecutedInOrder
<1>19. CASE SetDone
  BY <1>19 DEF SetDone, OrderInv, ExecutedInOrder, Retired, Depth, Inserting
<1>20. CASE PollerSpinUnlock
  BY <1>20, ZenonT(30) DEF PollerSpinUnlock, OrderInv, ExecutedInOrder, Retired, Depth, Inserting
<1>21. CASE Tick
  BY <1>21, ZenonT(30) DEF Tick, OrderInv, ExecutedInOrder, Retired, Depth, Inserting
<1>22. CASE SetSleeping
  BY <1>22, ZenonT(30) DEF SetSleeping, OrderInv, ExecutedInOrder, Retired, Depth, Inserting
<1>23. CASE ClearSleeping
  BY <1>23 DEF ClearSleeping, OrderInv, ExecutedInOrder, Retired, Depth, Inserting
<1>24. CASE SleepLock
  BY <1>24, ZenonT(30) DEF SleepLock, OrderInv, ExecutedInOrder, Retired, Depth, Inserting
<1>25. CASE SleepUnlock
  BY <1>25, ZenonT(30) DEF SleepUnlock, OrderInv, ExecutedInOrder, Retired, Depth, Inserting
<1>26. CASE SpuriousWakeup
  BY <1>26 DEF SpuriousWakeup, OrderInv, ExecutedInOrder, Retired, Depth, Inserting
<1>27. CASE UNCHANGED vars
  BY <1>27, ZenonT(30) DEF vars, OrderInv, ExecutedInOrder, Retired, Depth, Inserting
<1> QED
  BY <1>1, <1>2, <1>3, <1>4, <1>5, <1>6, <1>7, <1>8, <1>9, <1>10, <1>11, <1>12,
     <1>13, <1>14, <1>15, <1>16, <1>17, <1>18, <1>19, <1>20, <1>21, <1>22, <1>23,
     <1>24, <1>25, <1>26, <1>27, ZenonT(30)
  DEF Next, CallerEnters, CallerSteps, PollerSteps

=============================================================================
