---------------------------- MODULE CallChannel ----------------------------
(***************************************************************************)
(* What the HotCall channel promises its callers, without locks, flags,    *)
(* rings or sleeping: a call may be left pending, a synchronous call       *)
(* blocks the caller until every pending call has been executed once, in   *)
(* the order of issue, and it does return.                                 *)
(***************************************************************************)
EXTENDS Naturals, Sequences

CONSTANTS MaxPending, \* calls that may be left pending before a blocking one
          MaxIssued   \* bound on the calls issued

VARIABLES
    made,      \* number of calls issued
    pending,   \* calls issued and not executed, oldest first
    finished,  \* calls executed, oldest first
    blocked    \* the caller waits for a synchronous call

chVars == <<made, pending, finished, blocked>>

ChInit == made = 0 /\ pending = <<>> /\ finished = <<>> /\ blocked = FALSE

(* Calls are numbered in the order of issue.                               *)
IssueAsync ==
    /\ ~blocked /\ made < MaxIssued /\ Len(pending) < MaxPending
    /\ made' = made + 1 /\ pending' = Append(pending, made + 1)
    /\ UNCHANGED <<finished, blocked>>

IssueSync ==
    /\ ~blocked /\ made < MaxIssued
    /\ made' = made + 1 /\ pending' = Append(pending, made + 1) /\ blocked' = TRUE
    /\ UNCHANGED finished

Execute ==
    /\ blocked /\ pending # <<>>
    /\ finished' = Append(finished, Head(pending)) /\ pending' = Tail(pending)
    /\ UNCHANGED <<made, blocked>>

Return ==
    /\ blocked /\ pending = <<>>
    /\ blocked' = FALSE
    /\ UNCHANGED <<made, pending, finished>>

ChNext == IssueAsync \/ IssueSync \/ Execute \/ Return

ChSafeSpec == ChInit /\ [][ChNext]_chVars
ChSpec == ChSafeSpec /\ WF_chVars(Execute) /\ WF_chVars(Return)
=============================================================================
