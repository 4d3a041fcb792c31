---------------------------- MODULE Connections -----------------------------
(***************************************************************************)
(* How the switch works through the requests of its OpenFlow connections   *)
(* (ovs_modified/ovs_sgx/connmgr.c, ofproto.c).                            *)
(*                                                                         *)
(* A request that meets a flow table operation in progress is postponed:   *)
(* the connection keeps it in 'blocked' and reads no further until         *)
(* connmgr_retry.  Connections drop, and their controllers are removed     *)
(* from the configuration, while groups of operations they started are     *)
(* still running.  One step of ofconn_run is one turn of its loop.         *)
(***************************************************************************)
EXTENDS Integers, Sequences

CONSTANTS
    Ofconns,       \* connections of controllers
    Kinds,         \* requests: "mod", "buffered", "barrier", "format"
    ReplyMax,      \* OFCONN_REPLY_MAX, 100 in the code
    PendingLimit,  \* groups that may be pending, 50 in the code
    Drops,         \* TRUE: connections may drop and come back
    Removes,       \* TRUE: controllers may be removed
    MaxRequests    \* requests of one controller

ASSUME RequestsAssumption ==
    /\ Kinds \subseteq {"mod", "buffered", "barrier", "format"}
    /\ PendingLimit \in Nat /\ MaxRequests \in Nat

VARIABLES
    conn_status,   \* "up", "broken" (lost, not yet noticed), "down", "gone" (freed)
    inbox,         \* requests sent on the current connection and not yet received
    blocked,       \* ofconn->blocked: at most one request
    retry,         \* ofconn->retry
    nxm,           \* whether ofconn->protocol is NXM
    groups,        \* ofproto->pending: conn, n, attached, buffered
    conn_clogged,  \* "before", "clogged", "after": operations complete late in between
    replies,       \* replies on the way to the controller
    sent,          \* requests sent on the current connection
    handled,       \* history: the last of them that was dealt with
    requests       \* requests of each controller so far

requestVars == <<conn_status, inbox, blocked, retry, nxm, groups, conn_clogged, replies,
                 sent, handled, requests>>

RequestsInit ==
    /\ conn_status = [c \in Ofconns |-> "up"]
    /\ inbox = [c \in Ofconns |-> <<>>]
    /\ blocked = [c \in Ofconns |-> <<>>]
    /\ retry = [c \in Ofconns |-> FALSE]
    /\ nxm = [c \in Ofconns |-> FALSE]
    /\ groups = <<>>
    /\ conn_clogged = "before"
    /\ replies = [c \in Ofconns |-> <<>>]
    /\ sent = [c \in Ofconns |-> 0]
    /\ handled = [c \in Ofconns |-> 0]
    /\ requests = [c \in Ofconns |-> 0]

-----------------------------------------------------------------------------
(* ofconn_send: rconn_send discards what it cannot send.                   *)
ofconn_send_reply(rs, c, r) == IF conn_status[c] = "up" THEN [rs EXCEPT ![c] = Append(@, r)] ELSE rs

ofconn_has_pending_opgroups(c) == \E i \in DOMAIN groups : groups[i].attached /\ groups[i].conn = c

connmgr_retry_Own(t, c) == [t EXCEPT ![c] = TRUE]
connmgr_retry(t, c) == [d \in Ofconns |-> t[d] \/ conn_status[d] # "gone"]

(* ofopgroup_complete: 'failed' if the buffered packet is not found.       *)
ofopgroup_complete(S, g, failed) ==
    IF ~g.attached THEN S
    ELSE [replies |-> IF failed THEN ofconn_send_reply(S.replies, g.conn, [n |-> g.n, kind |-> "error"])
                      ELSE S.replies,
          retry |-> connmgr_retry(S.retry, g.conn)]

(* complete_operations in ofproto-dpif's run, once it is not clogged, in   *)
(* the order of the groups: those of a connection that fail, and whether   *)
(* postponed requests are retried.                                         *)
Failures(c) ==
    LET I == {i \in DOMAIN groups : groups[i].buffered /\ groups[i].attached /\ groups[i].conn = c}
    IN  {e \in UNION {[1 .. k -> I] : k \in 0 .. Len(groups)} :
            \A i, j \in DOMAIN e : i < j => e[i] < e[j]}
Errors(e) == [k \in DOMAIN e |-> [n |-> groups[e[k]].n, kind |-> "error"]]
CompleteGroups ==
    /\ conn_clogged = "after" /\ groups # <<>>
    /\ \E E \in [Ofconns -> UNION {Failures(c) : c \in Ofconns}] :
         /\ \A c \in Ofconns : E[c] \in Failures(c)
         /\ replies' = [c \in Ofconns |->
                          IF conn_status[c] # "up" THEN replies[c] ELSE replies[c] \o Errors(E[c])]
    /\ retry' = [d \in Ofconns |->
                   \/ retry[d]
                   \/ \E i \in DOMAIN groups : groups[i].attached /\ connmgr_retry(retry, groups[i].conn)[d]]
    /\ groups' = <<>>
    /\ UNCHANGED <<conn_status, inbox, blocked, nxm, conn_clogged, sent, handled, requests>>

ClogGroups ==
    /\ \/ conn_clogged = "before" /\ conn_clogged' = "clogged"
       \/ conn_clogged = "clogged" /\ conn_clogged' = "after"
    /\ UNCHANGED <<conn_status, inbox, blocked, retry, nxm, groups, replies, sent, handled, requests>>

-----------------------------------------------------------------------------
(* What handle_openflow does with a request: it is postponed, or dealt     *)
(* with, which may queue a reply, change the format, and start or run a    *)
(* group of operations.                                                    *)
Outcome == [postpone |-> FALSE, reply |-> "none", nxm |-> FALSE, group |-> "none", failed |-> FALSE]
Postpone == [Outcome EXCEPT !.postpone = TRUE]

(* handle_flow_mod__: the rule may have an operation in progress, or the   *)
(* request may be refused.                                                 *)
handle_flow_mod__LateLimit(c, m) ==
    IF Len(groups) > PendingLimit THEN {Postpone}
    ELSE {Postpone : i \in DOMAIN groups}
         \cup {[Outcome EXCEPT !.reply = "error"]}
         \cup IF conn_clogged = "clogged" THEN {[Outcome EXCEPT !.group = "pending"]}
              ELSE {[Outcome EXCEPT !.group = "done", !.failed = f] :
                       f \in {FALSE, m.kind = "buffered"}}
handle_flow_mod__(c, m) ==
    IF Len(groups) >= PendingLimit THEN {Postpone}
    ELSE {Postpone : i \in DOMAIN groups}
         \cup {[Outcome EXCEPT !.reply = "error"]}
         \cup IF conn_clogged = "clogged" THEN {[Outcome EXCEPT !.group = "pending"]}
              ELSE {[Outcome EXCEPT !.group = "done", !.failed = f] :
                       f \in {FALSE, m.kind = "buffered"}}

handle_barrier_request_Any(c) == {[Outcome EXCEPT !.reply = "barrier"]}
handle_barrier_request(c) ==
    {IF ofconn_has_pending_opgroups(c) THEN Postpone ELSE [Outcome EXCEPT !.reply = "barrier"]}

(* handle_nxt_set_flow_format and handle_nxt_set_packet_in_format.         *)
handle_nxt_set_flow_format(c) ==
    {IF ~nxm[c] /\ ofconn_has_pending_opgroups(c) THEN Postpone ELSE [Outcome EXCEPT !.nxm = TRUE]}

handle_openflow(c, m) ==
    CASE m.kind \in {"mod", "buffered"} -> handle_flow_mod__(c, m)
      [] m.kind = "barrier" -> handle_barrier_request(c)
      [] m.kind = "format" -> handle_nxt_set_flow_format(c)

ofconn_may_recv(c) == (blocked[c] = <<>> \/ retry[c]) /\ Len(replies[c]) < ReplyMax

(* One turn of the loop in ofconn_run.  A blocked request that the same    *)
(* run would still handle after rconn_run found the connection lost is     *)
(* modelled as handled just before the loss.                               *)
Receive(c) ==
    LET m == Head(blocked[c] \o inbox[c])
    IN  /\ conn_status[c] = "up" /\ ofconn_may_recv(c)
        /\ blocked[c] \o inbox[c] # <<>>
        /\ inbox' = IF blocked[c] = <<>> THEN [inbox EXCEPT ![c] = Tail(@)] ELSE inbox
        /\ \E o \in handle_openflow(c, m) :
             LET g == [conn |-> c, n |-> m.n, attached |-> TRUE, buffered |-> m.kind = "buffered"]
                 S == IF o.group = "done"
                      THEN ofopgroup_complete([replies |-> replies, retry |-> retry], g, o.failed)
                      ELSE [replies |-> replies, retry |-> retry]
             IN  /\ blocked' = [blocked EXCEPT ![c] = IF o.postpone THEN <<m>> ELSE <<>>]
                 /\ retry' = IF o.postpone THEN [S.retry EXCEPT ![c] = FALSE] ELSE S.retry
                 /\ replies' = IF o.reply = "none" THEN S.replies
                               ELSE ofconn_send_reply(S.replies, c, [n |-> m.n, kind |-> o.reply])
                 /\ nxm' = [nxm EXCEPT ![c] = @ \/ o.nxm]
                 /\ groups' = IF o.group = "pending" THEN Append(groups, g) ELSE groups
                 /\ handled' = IF o.postpone THEN handled ELSE [handled EXCEPT ![c] = m.n]
        /\ UNCHANGED <<conn_status, conn_clogged, sent, requests>>

-----------------------------------------------------------------------------
(* ofconn_flush: groups of the connection are detached, and its blocked    *)
(* request is discarded.                                                   *)
Detached(gs, c) == [i \in DOMAIN gs |-> [gs[i] EXCEPT !.attached = @ /\ gs[i].conn # c]]
ofconn_flush_requests_KeepsBlocked(c) ==
    /\ groups' = Detached(groups, c)
    /\ nxm' = [nxm EXCEPT ![c] = FALSE]
    /\ UNCHANGED blocked
ofconn_flush_requests(c) ==
    /\ groups' = Detached(groups, c)
    /\ nxm' = [nxm EXCEPT ![c] = FALSE]
    /\ blocked' = [blocked EXCEPT ![c] = <<>>]

(* The connection is lost, with what was on it; ofconn_run notices it.     *)
Lose(c) ==
    /\ Drops /\ conn_status[c] = "up" /\ requests[c] > 0
    /\ conn_status' = [conn_status EXCEPT ![c] = "broken"]
    /\ inbox' = [inbox EXCEPT ![c] = <<>>] /\ replies' = [replies EXCEPT ![c] = <<>>]
    /\ UNCHANGED <<blocked, retry, nxm, groups, conn_clogged, sent, handled, requests>>

Notice(c) ==
    /\ conn_status[c] = "broken"
    /\ ofconn_flush_requests(c)
    /\ conn_status' = [conn_status EXCEPT ![c] = "down"]
    /\ UNCHANGED <<inbox, retry, conn_clogged, replies, sent, handled, requests>>

Return(c) ==
    /\ conn_status[c] = "down"
    /\ conn_status' = [conn_status EXCEPT ![c] = "up"]
    /\ sent' = [sent EXCEPT ![c] = 0] /\ handled' = [handled EXCEPT ![c] = 0]
    /\ UNCHANGED <<inbox, blocked, retry, nxm, groups, conn_clogged, replies, requests>>

(* connmgr_set_controllers without this controller.                        *)
ofconn_destroy(c) ==
    /\ Removes /\ conn_status[c] # "gone" /\ requests[c] > 0
    /\ ofconn_flush_requests(c)
    /\ conn_status' = [conn_status EXCEPT ![c] = "gone"]
    /\ inbox' = [inbox EXCEPT ![c] = <<>>] /\ replies' = [replies EXCEPT ![c] = <<>>]
    /\ UNCHANGED <<retry, conn_clogged, sent, handled, requests>>

(* The controller sends a request, or takes a reply.                       *)
Ask(c, k) ==
    /\ conn_status[c] = "up" /\ requests[c] < MaxRequests
    /\ requests' = [requests EXCEPT ![c] = @ + 1]
    /\ sent' = [sent EXCEPT ![c] = @ + 1]
    /\ inbox' = [inbox EXCEPT ![c] = Append(@, [n |-> sent[c] + 1, kind |-> k])]
    /\ UNCHANGED <<conn_status, blocked, retry, nxm, groups, conn_clogged, replies, handled>>

TakeReply(c) ==
    /\ replies[c] # <<>>
    /\ replies' = [replies EXCEPT ![c] = Tail(@)]
    /\ UNCHANGED <<conn_status, inbox, blocked, retry, nxm, groups, conn_clogged, sent, handled, requests>>

RequestsNext ==
    \/ CompleteGroups
    \/ ClogGroups
    \/ \E c \in Ofconns :
         \/ Receive(c) \/ TakeReply(c)
         \/ Lose(c) \/ Notice(c) \/ Return(c) \/ ofconn_destroy(c)
         \/ \E k \in Kinds : Ask(c, k)

RequestsSpec == RequestsInit /\ [][RequestsNext]_requestVars

(* The main loop runs every connection and the provider again and again;   *)
(* operations complete in the end, and controllers take their replies.     *)
RequestsFairSpec ==
    /\ RequestsSpec
    /\ WF_requestVars(CompleteGroups)
    /\ WF_requestVars(conn_clogged = "clogged" /\ ClogGroups)
    /\ \A c \in Ofconns :
         WF_requestVars(Receive(c)) /\ WF_requestVars(Notice(c)) /\ WF_requestVars(TakeReply(c))

-----------------------------------------------------------------------------
Queued(c) == blocked[c] \o inbox[c]
Message == [n : 1 .. MaxRequests, kind : Kinds]
Reply == [n : 1 .. MaxRequests, kind : {"error", "barrier"}]
Group == [conn : Ofconns, n : 1 .. MaxRequests, attached : BOOLEAN, buffered : BOOLEAN]
RequestsTypeOK ==
    /\ conn_status \in [Ofconns -> {"up", "broken", "down", "gone"}]
    /\ inbox \in [Ofconns -> Seq(Message)]
    /\ blocked \in [Ofconns -> Seq(Message)]
    /\ replies \in [Ofconns -> Seq(Reply)]
    /\ groups \in Seq(Group)
    /\ retry \in [Ofconns -> BOOLEAN] /\ nxm \in [Ofconns -> BOOLEAN]
    /\ {sent, handled, requests} \subseteq [Ofconns -> 0 .. MaxRequests]
    /\ \A c \in Ofconns : sent[c] <= requests[c] /\ Len(blocked[c]) <= 1
    /\ Len(groups) <= PendingLimit

(* Requests are dealt with once each, in the order in which they were sent *)
(* on this connection, however often one is postponed and whatever an      *)
(* earlier connection of the same controller left behind                   *)
(* (connmgr.c:1104-1126, 1253-1275).                                       *)
OnceInOrder(c) ==
    conn_status[c] = "up" =>
        /\ Len(Queued(c)) = sent[c] - handled[c]
        /\ \A i \in 1 .. Len(Queued(c)) : Queued(c)[i].n = handled[c] + i

(* When a barrier reply is on its way, the operations of all earlier       *)
(* requests have completed, and their errors are ahead of it               *)
(* (ofproto.c:4619-4633, 5326-5332).                                       *)
Running(c) == {groups[i].n : i \in {j \in 1 .. Len(groups) : groups[j].attached /\ groups[j].conn = c}}
BarrierHolds(c) ==
    \A i \in 1 .. Len(replies[c]) : replies[c][i].kind = "barrier" =>
        /\ \A n \in Running(c) : n > replies[c][i].n
        /\ \A j \in i + 1 .. Len(replies[c]) : replies[c][j].n > replies[c][i].n

(* What makes these inductive.  Nothing of a connection that is lost is    *)
(* left for the next, and replies and attached groups belong to requests   *)
(* that have been dealt with on this connection.                           *)
NothingLeftOver(c) ==
    /\ conn_status[c] # "up" => inbox[c] = <<>> /\ replies[c] = <<>>
    /\ conn_status[c] \in {"down", "gone"} => blocked[c] = <<>> /\ Running(c) = {}
AnswersDealtWith(c) ==
    /\ \A i \in 1 .. Len(replies[c]) : replies[c][i].n <= handled[c]
    /\ \A n \in Running(c) : n <= handled[c]

(* Requests are dealt with once each and in order, however often one is    *)
(* postponed and whatever earlier connections left behind, and a barrier   *)
(* reply follows everything that was asked before it (connmgr.c:1104-1126, *)
(* 1253-1275, ofproto.c:4619-4633, 5326-5332).                             *)
Orderly(c) == OnceInOrder(c) /\ BarrierHolds(c) /\ NothingLeftOver(c) /\ AnswersDealtWith(c)
RequestsInv == RequestsTypeOK /\ \A c \in Ofconns : Orderly(c)

(* "The caller should retry the operation later" (ofproto-provider.h:1322):*)
(* a postponed request does not stay postponed for ever                    *)
(* (connmgr.c:400-411, ofproto.c:5331).  This needs that no connection     *)
(* drops while requests of another wait for its operations.                *)
Retried == \A c \in Ofconns : blocked[c] # <<>> ~> blocked[c] = <<>>

(* Where connections drop: a request that is postponed for groups which    *)
(* all have their connections is dealt with in the end, unless one of      *)
(* these connections drops before its group completes                      *)
(* (ofproto.c:5326-5332, connmgr.c:400-411).                               *)
Owned == \A i \in DOMAIN groups : groups[i].attached
RetriedWhileOwned ==
    \A c \in Ofconns :
        blocked[c] # <<>> /\ groups # <<>> /\ Owned ~> blocked[c] = <<>> \/ ~Owned

(* "The client may, therefore, use list_is_empty(ofconn_node) to determine *)
(* whether 'ofconn_node' is still associated with an active ofconn"        *)
(* (connmgr.c:1061-1063): a group that will look up a buffered packet has  *)
(* a connection to look it up in (ofproto.c:5176-5183).                    *)
BufferOwnerAlive ==
    \A i \in DOMAIN groups : groups[i].buffered => conn_status[groups[i].conn] # "gone"
=============================================================================
