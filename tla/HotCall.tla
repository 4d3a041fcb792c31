------------------------------ MODULE HotCall ------------------------------
(***************************************************************************)
(* The HotCall channel between Open vSwitch and the flow-table enclave.    *)
(*                                                                         *)
(* Two threads share the struct hotcall: the OVS main thread (the caller), *)
(* which runs the HCALL macro of untrusted/app.c and make_hotcall, and the *)
(* enclave thread started by hotcall_init (the poller), which never leaves *)
(* ecall_start_poller.  Every shared access is a step of its own, in       *)
(* program order; stores become visible in program order (x86-TSO).        *)
(***************************************************************************)
EXTENDS Integers, Sequences

CONSTANTS
    RingSize,    \* slots of pfc.fcs (20 in the code)
    ValueRing,   \* cells of pfc.uint8_ts (20 in the code)
    MaxValues,   \* ring values one asynchronous wrapper takes (2 in the code)
    MaxBatch,    \* asynchronous calls the callers queue before a synchronous one
    Timeout,     \* TRUE in a TIMEOUT build: an idle poller goes to sleep
    InitTimer,   \* INIT_TIMER_VALUE, idle rounds before the poller sleeps
    MaxCalls     \* bound on the calls issued

(* The callers queue fewer calls than the rings can hold.                  *)
ASSUME RingAssumption ==
    /\ RingSize \in Nat \ {0, 1}
    /\ MaxBatch \in Nat
    /\ MaxBatch < RingSize

ASSUME ValueAssumption ==
    /\ ValueRing \in Nat \ {0}
    /\ MaxValues \in Nat \ {0}
    /\ MaxBatch * MaxValues <= ValueRing

ASSUME BoundAssumption ==
    /\ Timeout \in BOOLEAN
    /\ InitTimer \in Nat \ {0}
    /\ MaxCalls \in Nat

VARIABLES
    cpc,        \* the caller's position in HCALL / make_hotcall
    ppc,        \* the poller's position in ecall_start_poller / ocall_sleep
    spinlock,   \* hcall.spinlock
    run,        \* hcall.run
    is_done,    \* hcall.is_done
    sleeping,   \* hcall.sleeping
    mutex,      \* hcall.mutex
    timer,      \* timeout_counter
    idx,        \* pfc.idx
    fcs,        \* pfc.fcs: the call in each slot and the cells of its arguments
    idx_uint8,  \* pfc.idx_uint8
    uint8_ts,   \* pfc.uint8_ts: the value in each cell
    stack,      \* the argument variable of the synchronous wrapper on the stack
    queue,      \* hcall.ecall_queue, as the slots a forward walk meets
    issued,     \* number of calls issued so far; the n-th call has identity n
    executed    \* what execute_function has run: the call and the arguments it read

flags == <<run, is_done>>
sleepState == <<sleeping, mutex, timer>>
calls == <<idx, fcs, idx_uint8, uint8_ts, stack, issued>>
work == <<queue, executed>>
vars == <<cpc, ppc, spinlock, run, is_done, sleeping, mutex, timer, idx, fcs,
          idx_uint8, uint8_ts, stack, queue, issued, executed>>

(* A thread moves from one position of its program to the next.            *)
Caller(from, to) == cpc = from /\ cpc' = to
Poller(from, to) == ppc = from /\ ppc' = to
Acquire(lock) == lock = 0 /\ lock' = 1
Release(lock) == lock' = 0

Slots == 0 .. RingSize - 1
Cells == 0 .. ValueRing - 1
OnStack == {}            \* a synchronous call points to its stack frame instead
NoValue == 0

Init ==
    /\ cpc = "idle" /\ ppc = "acquire"
    /\ spinlock = 0 /\ mutex = 0
    /\ run = FALSE /\ is_done = FALSE /\ sleeping = FALSE
    /\ timer = InitTimer
    /\ idx = 0 /\ idx_uint8 = 0
    /\ fcs = [s \in Slots |-> [id |-> 0, args |-> OnStack]]
    /\ uint8_ts = [c \in Cells |-> NoValue]
    /\ stack = NoValue
    /\ queue = <<>>
    /\ issued = 0 /\ executed = <<>>

-----------------------------------------------------------------------------
(* The rings.  get_fcall hands out the slots in turn; next_uint8 wraps     *)
(* before it writes, so the index it leaves behind may equal ValueRing.    *)
NextSlot_EarlyWrap(i) == IF i + 2 = RingSize THEN 0 ELSE i + 1
NextSlot(i) == IF i + 1 = RingSize THEN 0 ELSE i + 1
NextCells(i, n) == {(i + k - 1) % ValueRing : k \in 1 .. n}
AfterValues_OneOnly(i, n) == (i % ValueRing) + 1
AfterValues_NoWrap(i, n) == i + n
AfterValues(i, n) == ((i + n - 1) % ValueRing) + 1

(* The slot handed out d calls before slot i; one back from idx is fc_.    *)
SlotBack(i, d) == IF i >= d THEN i - d ELSE (i + RingSize) - d

(* list_insert(&ecall_queue, node): the node becomes the last one.  A node *)
(* still linked at position p cuts the list off behind itself.             *)
list_insert_Front(q, s) == <<s>> \o q
list_insert(q, s) ==
    IF \E p \in DOMAIN q : q[p] = s
    THEN SubSeq(q, 1, CHOOSE p \in DOMAIN q : q[p] = s)
    ELSE Append(q, s)

(* A wrapper that batches: its n values go to the value ring and the call  *)
(* to the next slot.                                                       *)
PrepareAsync(n) ==
    /\ Caller("idle", "insert_async") /\ UNCHANGED <<ppc, spinlock, flags, sleepState, work, stack>>
    /\ issued < MaxCalls /\ issued' = issued + 1
    /\ Len(queue) < MaxBatch
    /\ uint8_ts' = [c \in Cells |-> IF c \in NextCells(idx_uint8, n)
                                    THEN issued + 1 ELSE uint8_ts[c]]
    /\ idx_uint8' = AfterValues(idx_uint8, n)
    /\ fcs' = [fcs EXCEPT ![idx] = [id |-> issued + 1, args |-> NextCells(idx_uint8, n)]]
    /\ idx' = NextSlot(idx)

(* A wrapper that waits: its arguments stay on its own stack frame.        *)
PrepareSync ==
    /\ Caller("idle", "insert_sync")
    /\ UNCHANGED <<ppc, spinlock, flags, sleepState, work, idx_uint8, uint8_ts>>
    /\ issued < MaxCalls /\ issued' = issued + 1
    /\ stack' = issued + 1
    /\ fcs' = [fcs EXCEPT ![idx] = [id |-> issued + 1, args |-> OnStack]]
    /\ idx' = NextSlot(idx)

(* The rest of HCALL: link the call just prepared, then return or enter    *)
(* make_hotcall.                                                           *)
InsertCall ==
    /\ \/ Caller("insert_async", "idle")
       \/ Caller("insert_sync", "clear_done")
    /\ queue' = list_insert(queue, SlotBack(idx, 1))
    /\ UNCHANGED <<ppc, spinlock, flags, sleepState, calls, executed>>

-----------------------------------------------------------------------------
(* make_hotcall *)
ClearDone_Dropped ==
    Caller("clear_done", "set_run") /\ UNCHANGED <<ppc, spinlock, flags, sleepState, calls, work>>

ClearDone ==
    /\ Caller("clear_done", "set_run") /\ is_done' = FALSE
    /\ UNCHANGED <<ppc, spinlock, run, sleepState, calls, work>>

SetRun ==
    /\ Caller("set_run", "check_sleeping") /\ run' = TRUE
    /\ UNCHANGED <<ppc, spinlock, is_done, sleepState, calls, work>>

CheckSleeping_Never ==
    Caller("check_sleeping", "spin") /\ UNCHANGED <<ppc, spinlock, flags, sleepState, calls, work>>

CheckSleeping ==
    /\ Caller("check_sleeping", IF Timeout /\ sleeping THEN "wake_lock" ELSE "spin")
    /\ UNCHANGED <<ppc, spinlock, flags, sleepState, calls, work>>

WakeLock ==
    /\ Caller("wake_lock", "wake_signal") /\ Acquire(mutex)
    /\ UNCHANGED <<ppc, spinlock, flags, sleeping, timer, calls, work>>

(* pthread_cond_signal reaches the poller only while it waits.             *)
WakeSignal ==
    /\ Caller("wake_signal", "wake_unlock")
    /\ ppc' = IF ppc = "waiting" THEN "relock" ELSE ppc
    /\ UNCHANGED <<spinlock, flags, sleepState, calls, work>>

WakeUnlock ==
    /\ Caller("wake_unlock", "check_sleeping") /\ Release(mutex)
    /\ UNCHANGED <<ppc, spinlock, flags, sleeping, timer, calls, work>>

CallerSpinLock ==
    /\ Caller("spin", "test_done") /\ Acquire(spinlock)
    /\ UNCHANGED <<ppc, flags, sleepState, calls, work>>

TestDone ==
    /\ Caller("test_done", IF is_done THEN "leave" ELSE "again")
    /\ UNCHANGED <<ppc, spinlock, flags, sleepState, calls, work>>

CallerSpinUnlock_NoRecheck ==
    Caller("again", "spin") /\ Release(spinlock) /\ UNCHANGED <<ppc, flags, sleepState, calls, work>>

CallerSpinUnlock ==
    /\ Caller("again", "check_sleeping") /\ Release(spinlock)
    /\ UNCHANGED <<ppc, flags, sleepState, calls, work>>

(* The wrapper returns: its stack frame is gone.                           *)
ReturnFromCall ==
    /\ Caller("leave", "idle") /\ Release(spinlock)
    /\ stack' = NoValue
    /\ UNCHANGED <<ppc, flags, sleepState, idx, fcs, idx_uint8, uint8_ts, issued, work>>

-----------------------------------------------------------------------------
(* ecall_start_poller *)
PollerSpinLock ==
    /\ Poller("acquire", "test_run") /\ Acquire(spinlock)
    /\ UNCHANGED <<cpc, flags, sleepState, calls, work>>

TestRun ==
    /\ Poller("test_run", IF run THEN "clear_run" ELSE "release")
    /\ UNCHANGED <<cpc, spinlock, flags, sleepState, calls, work>>

ClearRun_Dropped ==
    /\ Poller("clear_run", "walk") /\ timer' = InitTimer
    /\ UNCHANGED <<cpc, spinlock, flags, sleeping, mutex, calls, work>>

ClearRun ==
    /\ Poller("clear_run", "walk") /\ run' = FALSE /\ timer' = InitTimer
    /\ UNCHANGED <<cpc, spinlock, is_done, sleeping, mutex, calls, work>>

(* execute_function reads its arguments through the pointers in the call.  *)
ArgumentsOf(fc) == IF fc.args = OnStack THEN {stack} ELSE {uint8_ts[c] : c \in fc.args}

ExecuteFunction ==
    /\ Poller("walk", "unlink") /\ queue # <<>>
    /\ LET fc == fcs[Head(queue)] IN
       executed' = Append(executed, [id |-> fc.id, read |-> ArgumentsOf(fc)])
    /\ UNCHANGED <<cpc, spinlock, flags, sleepState, calls, queue>>

RemoveCall ==
    /\ Poller("unlink", "walk") /\ queue' = Tail(queue)
    /\ UNCHANGED <<cpc, spinlock, flags, sleepState, calls, executed>>

SetDone ==
    /\ Poller("walk", "finish") /\ queue = <<>> /\ is_done' = TRUE
    /\ UNCHANGED <<cpc, spinlock, run, sleepState, calls, work>>

(* The spinlock is dropped after a batch and after an idle round alike.    *)
PollerSpinUnlock ==
    /\ \/ Poller("finish", "acquire")
       \/ Poller("release", IF Timeout THEN "tick" ELSE "acquire")
    /\ Release(spinlock)
    /\ UNCHANGED <<cpc, flags, sleepState, calls, work>>

(* TIMEOUT: the counter is decremented on every idle round; at zero it is  *)
(* reset and the poller announces that it sleeps.                          *)
Tick ==
    /\ Poller("tick", IF timer = 1 THEN "set_sleeping" ELSE "acquire")
    /\ timer' = IF timer = 1 THEN InitTimer ELSE timer - 1
    /\ UNCHANGED <<cpc, spinlock, flags, sleeping, mutex, calls, work>>

SetSleeping ==
    /\ Poller("set_sleeping", "sleep_lock") /\ sleeping' = TRUE
    /\ UNCHANGED <<cpc, spinlock, flags, mutex, timer, calls, work>>

ClearSleeping ==
    /\ Poller("clear_sleeping", "acquire") /\ sleeping' = FALSE
    /\ UNCHANGED <<cpc, spinlock, flags, mutex, timer, calls, work>>

-----------------------------------------------------------------------------
(* ocall_sleep: pthread_cond_wait without a predicate, which gives the     *)
(* mutex up while it waits and takes it again before it returns.           *)
SleepLock ==
    /\ Poller("sleep_lock", "wait") \/ Poller("relock", "sleep_unlock")
    /\ Acquire(mutex)
    /\ UNCHANGED <<cpc, spinlock, flags, sleeping, timer, calls, work>>

SleepUnlock ==
    /\ Poller("wait", "waiting") \/ Poller("sleep_unlock", "clear_sleeping")
    /\ Release(mutex)
    /\ UNCHANGED <<cpc, spinlock, flags, sleeping, timer, calls, work>>

SpuriousWakeup ==
    /\ Poller("waiting", "relock")
    /\ UNCHANGED <<cpc, spinlock, flags, sleepState, calls, work>>

-----------------------------------------------------------------------------
CallerEnters == PrepareSync \/ \E n \in 1 .. MaxValues : PrepareAsync(n)

CallerSteps ==
    \/ InsertCall \/ ClearDone \/ SetRun \/ CheckSleeping
    \/ WakeLock \/ WakeSignal \/ WakeUnlock
    \/ CallerSpinLock \/ TestDone \/ CallerSpinUnlock \/ ReturnFromCall

PollerSteps ==
    \/ PollerSpinLock \/ TestRun \/ ClearRun \/ ExecuteFunction \/ RemoveCall
    \/ SetDone \/ PollerSpinUnlock \/ Tick \/ SetSleeping \/ ClearSleeping
    \/ SleepLock \/ SleepUnlock

Next == CallerEnters \/ CallerSteps \/ PollerSteps \/ SpuriousWakeup

Spec == Init /\ [][Next]_vars

(* Both threads keep running, and neither is starved for ever by the other *)
(* at a lock or by the other's sleep periods.  Nothing obliges OVS to make *)
(* a call, and nothing obliges a condition variable to wake up spuriously. *)
Fairness ==
    /\ WF_vars(CallerSteps) /\ WF_vars(PollerSteps)
    /\ SF_vars(CallerSpinLock) /\ SF_vars(PollerSpinLock)
    /\ SF_vars(WakeLock) /\ SF_vars(SleepLock)
    /\ SF_vars(CheckSleeping /\ ~sleeping)

(* An idle period is ten million rounds of the poller, and the caller's    *)
(* lock-signal-unlock a handful of instructions: a period does not run out *)
(* inside one of them.                                                     *)
LongIdlePeriod ==
    (ppc = "tick" /\ timer = 1) => cpc \notin {"wake_lock", "wake_signal", "wake_unlock"}

TimedNext ==
    CallerEnters \/ CallerSteps \/ (PollerSteps /\ LongIdlePeriod) \/ SpuriousWakeup

FairSpec == Init /\ [][TimedNext]_vars /\ Fairness

-----------------------------------------------------------------------------
(* Where the threads can be.                                               *)
CallerPrepares == {"idle", "insert_async", "insert_sync", "clear_done", "set_run"}
CallerHasSpin == {"test_done", "again", "leave"}
CallerHasMutex == {"wake_signal", "wake_unlock"}
CallerWaits == CallerHasSpin \cup CallerHasMutex \cup {"check_sleeping", "wake_lock", "spin"}
PollerInBatch == {"clear_run", "walk", "unlink"}
PollerHasSpin == PollerInBatch \cup {"test_run", "finish", "release"}
PollerHasMutex == {"wait", "sleep_unlock"}
PollerAsleep == PollerHasMutex \cup {"sleep_lock", "waiting", "relock", "clear_sleeping"}
PollerPositions == PollerHasSpin \cup PollerAsleep \cup {"acquire", "tick", "set_sleeping"}

(* Every variable stays in its range: the ring indices never leave the     *)
(* rings (next_uint8 leaves an index that may equal the ring's length).    *)
TypeOK ==
    /\ cpc \in CallerPrepares \cup CallerWaits
    /\ ppc \in PollerPositions
    /\ spinlock \in {0, 1} /\ mutex \in {0, 1}
    /\ run \in BOOLEAN /\ is_done \in BOOLEAN /\ sleeping \in BOOLEAN
    /\ timer \in 1 .. InitTimer
    /\ idx \in Slots
    /\ idx_uint8 \in 0 .. ValueRing
    /\ issued \in Nat
    /\ fcs \in [Slots -> [id : Nat, args : SUBSET Cells]]
    /\ uint8_ts \in [Cells -> Nat]
    /\ stack \in Nat
    /\ queue \in Seq(Slots)
    /\ executed \in Seq([id : Nat, read : SUBSET Nat])

(* make_hotcall sets run and clears is_done without the spinlock.  Even so *)
(* the enclave walks the call queue only while the caller waits inside     *)
(* make_hotcall, so HCALL never links a call into a list being unlinked.   *)
QueueOwnership == ppc \in PollerInBatch => cpc \in CallerWaits

(* When make_hotcall is about to return, every call issued so far, batched *)
(* or not, has been executed and the queue is empty again.                 *)
ReturnMeansExecuted == cpc = "leave" => queue = <<>> /\ Len(executed) = issued

(* The enclave executes the calls in the order of issue, each exactly      *)
(* once, whatever slots the ring hands out.                                *)
ExecutedInOrder == \A n \in DOMAIN executed : executed[n].id = n

(* Every call finds its own arguments when it is executed, though they are *)
(* passed by pointer into a reused ring or into a stack frame.             *)
ArgumentsIntact == \A n \in DOMAIN executed : executed[n].read = {executed[n].id}

-----------------------------------------------------------------------------
(* The inductive invariant behind the safety properties.                   *)
Inserting == cpc \in {"insert_async", "insert_sync"}

LockInv ==
    /\ spinlock = 1 <=> (cpc \in CallerHasSpin \/ ppc \in PollerHasSpin)
    /\ ~ (cpc \in CallerHasSpin /\ ppc \in PollerHasSpin)

(* run and is_done hand the queue over and back: a waiting caller has      *)
(* posted work, or the poller is at it, or it is done and the queue empty. *)
HandshakeInv ==
    /\ run => cpc \in CallerWaits /\ ~is_done /\ ppc \notin {"walk", "unlink"}
    /\ ppc \in PollerInBatch => cpc \in CallerWaits /\ ~is_done
    /\ ppc = "clear_run" => run
    /\ ppc = "unlink" => queue # <<>>
    /\ cpc = "set_run" => ~is_done
    /\ cpc \in CallerWaits /\ is_done => queue = <<>>
    /\ cpc \in CallerWaits /\ ~is_done => run \/ ppc \in {"walk", "unlink"}
    /\ cpc = "leave" => is_done

Depth == IF Inserting THEN Len(queue) + 1 ELSE Len(queue)

(* The queue holds the slots handed out last, in order, and the ring is    *)
(* long enough for all of them.                                            *)
RingInv ==
    /\ \A j \in 1 .. Len(queue) : queue[j] = SlotBack(idx, (Depth + 1) - j)
    /\ Len(queue) <= MaxBatch + 1
    /\ cpc \in {"idle", "insert_sync"} => Len(queue) <= MaxBatch
    /\ cpc = "insert_async" => Len(queue) < MaxBatch

(* The calls executed, those in the queue and the one being inserted are   *)
(* numbered without gap or repetition.                                     *)
Retired == IF ppc = "unlink" THEN Len(executed) - 1 ELSE Len(executed)
OrderInv ==
    /\ issued = Retired + Depth /\ issued <= MaxCalls
    /\ \A j \in 1 .. Len(queue) : fcs[queue[j]].id = Retired + j
    /\ Inserting => fcs[SlotBack(idx, 1)].id = issued
    /\ ExecutedInOrder

(* A call that waits has its arguments: on the stack of a wrapper that has *)
(* not returned, or in cells that were written so recently that the ring   *)
(* cannot have come round to them.  The last cell written has age 0.       *)
Age(i, c) == IF c < i THEN i - 1 - c ELSE (i - 1 - c) + ValueRing
PendingCall(d) == fcs[SlotBack(idx, d)]
ArgsInv ==
    /\ \A d \in 1 .. Depth :
          /\ PendingCall(d).args = OnStack =>
                stack = PendingCall(d).id /\ cpc \notin {"idle", "insert_async"}
          /\ \A c \in PendingCall(d).args :
                uint8_ts[c] = PendingCall(d).id /\ Age(idx_uint8, c) < MaxValues * d
    /\ ArgumentsIntact

(* The handshake of the flags, the window of the ring, the numbering of    *)
(* the calls and their arguments hold together after every step of either  *)
(* thread.                                                                 *)
ChannelInv == TypeOK /\ LockInv /\ HandshakeInv /\ RingInv /\ OrderInv /\ ArgsInv

-----------------------------------------------------------------------------
(* A synchronous call returns, also when it races with a poller that goes  *)
(* to sleep and misses a signal.                                           *)
SyncCallReturns == (cpc = "insert_sync") ~> (cpc = "idle")

(* A poller that sleeps while work is posted is woken up.                  *)
SleeperIsWoken == (sleeping /\ run) ~> ~sleeping

(* Whatever the two threads do at the same time, nobody waits for ever     *)
(* (hotcall-untrusted.c:19-40, hotcall-trusted.c).                         *)
CallsReturn == SyncCallReturns /\ SleeperIsWoken

(* The channel as its callers see it: calls are issued when they are       *)
(* linked, and leave the list when they are executed.                      *)
PendingSlots == IF ppc = "unlink" THEN Tail(queue) ELSE queue
Channel == INSTANCE CallChannel WITH
    MaxPending <- MaxBatch,
    MaxIssued <- MaxCalls,
    made <- IF cpc \in {"insert_async", "insert_sync"} THEN issued - 1 ELSE issued,
    pending <- [j \in DOMAIN PendingSlots |-> fcs[PendingSlots[j]].id],
    finished <- [n \in DOMAIN executed |-> executed[n].id],
    blocked <- cpc \in CallerWaits \cup {"clear_done", "set_run"}

(* HotCall implements the abstract channel, its progress included.         *)
ImplementsChannel == Channel!ChSpec
=============================================================================
