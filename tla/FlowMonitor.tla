---------------------------- MODULE FlowMonitor -----------------------------
(***************************************************************************)
(* Flow monitors (ovs_modified/ovs_sgx/connmgr.c, ofproto.c): a controller *)
(* asks to be told of changes to the flow table.  When too much is queued  *)
(* for a connection its monitors are paused; they are resumed, with what   *)
(* changed in between, when the queue is empty.                            *)
(*                                                                         *)
(* A flow is its match, with the actions it has; a request to the flow     *)
(* table is the group of operations it causes.  The controller keeps a     *)
(* view of the flow table from the updates it receives.                    *)
(***************************************************************************)
EXTENDS Integers, Sequences, FiniteSets, SequencesExt

CONSTANTS
    Conns,      \* connections to controllers
    Flows,
    Hidden,     \* those of them that are the switch's own, invisible to controllers
    Actions,    \* positive numbers
    Requests,   \* monitor requests: sequences of [id, flags, match]
    Limit,      \* updates queued before a pause, 128 kB in the code
    Clogs,      \* TRUE: operations may complete later
    Replaces,   \* TRUE: a flow may be added that is in the table already
    Patient,    \* TRUE: controllers make no monitor requests during a pause
    MaxMods     \* changes of the flow table and monitor requests

VARIABLES
    table,      \* each flow's rule: live, actions, add_seqno, modify_seqno
    seqno,      \* monitor_seqno
    pending,    \* groups of operations that have not completed
    up,         \* connections that are connected
    monitors,   \* ofconn->monitors
    paused,     \* ofconn->monitor_paused
    queue,      \* messages to each controller
    view,       \* the actions of each flow as a controller knows them, 0 for none
    aborted,    \* an ovs_assert failed
    misled,     \* history: flows replaced, or listed to a controller, during a pause
    mods

vars == <<table, seqno, pending, up, monitors, paused, queue, view, aborted, misled, mods>>

Switch == "switch"     \* what makes a group that belongs to no connection
NoRule == [live |-> FALSE, act |-> 0, add |-> 0, mod |-> 0]
Empty == [f \in Flows |-> 0]

Init ==
    /\ table = [f \in Flows |-> NoRule]
    /\ seqno = 1
    /\ pending = <<>>
    /\ up = [c \in Conns |-> FALSE]
    /\ monitors = [c \in Conns |-> {}]
    /\ paused = [c \in Conns |-> 0]
    /\ queue = [c \in Conns |-> <<>>]
    /\ view = [c \in Conns |-> Empty]
    /\ aborted = FALSE
    /\ misled = [c \in Conns |-> {}]
    /\ mods = 0

Ops == UNION {ToSet(pending[i].ops) : i \in DOMAIN pending}
Busy == {op.flow : op \in Ops}                     \* flows whose rule->pending is set
Deletions == {op \in Ops : op.type = "DELETE"}     \* ofproto->deletions

-----------------------------------------------------------------------------
(* ofmonitor_report, folded over the operations of a group: A holds the    *)
(* table, monitor_seqno, the pauses and the updates composed so far.  No   *)
(* operation fails: the provider completes all of them with error 0.       *)
Heard_NoDeletes(since, op, rule) == since = 0
Heard(since, op, rule) ==
    since # 0 => op.type = "DELETE" /\ rule.add <= since
Watched(c, op) == \E m \in monitors[c] : op.type \in m.flags /\ op.flow \in m.match

(* An addition replaces a flow that a paused controller may know.          *)
Misled(c, A, op) ==
    CASE op.type = "ADD" /\ A.paused[c] = 0 -> A.misled[c] \ {op.flow}
      [] op.type = "ADD" /\ A.paused[c] # 0 /\ op.rule.live -> A.misled[c] \cup {op.flow}
      [] OTHER -> A.misled[c]

(* The group's own connection gets one abbreviated update.                 *)
Update(c, A, op, rule, g) ==
    IF ~(Heard(A.paused[c], op, rule) /\ Watched(c, op)) THEN A.updates[c]
    ELSE IF c # g.conn \/ A.paused[c] # 0
    THEN Append(A.updates[c], <<op.type, op.flow, rule.act>>)
    ELSE IF \E i \in DOMAIN A.updates[c] : A.updates[c][i][1] = "ABBREV" THEN A.updates[c]
    ELSE Append(A.updates[c], <<"ABBREV", g.ops>>)

ofmonitor_report(A, op, g) ==
    LET old  == IF op.type = "DELETE" THEN op.rule ELSE A.table[op.flow]
        rule == CASE op.type = "ADD" -> [old EXCEPT !.add = A.seqno, !.mod = A.seqno]
                  [] op.type = "MODIFY" -> [old EXCEPT !.mod = A.seqno]
                  [] OTHER -> old
    IN  [A EXCEPT !.table   = IF op.type = "DELETE" THEN @ ELSE [@ EXCEPT ![op.flow] = rule],
                  !.seqno   = IF op.type = "DELETE" THEN @ ELSE @ + 1,
                  !.misled  = [c \in Conns |-> Misled(c, A, op)],
                  !.updates = [c \in Conns |-> Update(c, A, op, rule, g)]]

(* What ofopgroup_complete does not report.                                *)
Unreported(op, A) ==
    op.flow \in Hidden \/ (op.type = "MODIFY" /\ op.rule.act = A.table[op.flow].act)

(* ofmonitor_flush, with the pause it may begin.                           *)
PAUSED == [counted |-> TRUE, fresh |-> {}, updates |-> <<>>]
Bytes(q) == FoldLeft(LAMBDA n, msg : IF msg.counted THEN n + Len(msg.updates) ELSE n, 0, q)
PauseSeqno_Kept(n) == n
PauseSeqno(n) == n + 1
ofmonitor_flush(A) ==
    FoldLeft(LAMBDA B, c :
        LET q == Append(B.queue[c], [counted |-> TRUE, fresh |-> {}, updates |-> B.updates[c]])
        IN  IF B.updates[c] = <<>> THEN B
            ELSE IF B.paused[c] = 0 /\ Bytes(q) > Limit
            THEN [B EXCEPT !.queue[c] = Append(q, PAUSED),
                           !.paused[c] = B.seqno, !.seqno = PauseSeqno(@)]
            ELSE [B EXCEPT !.queue[c] = q],
      A, SetToSeq(Conns))

(* ofopgroup_complete, of groups one after the other.                      *)
ofopgroup_complete(A, g) ==
    ofmonitor_flush(
        FoldLeft(LAMBDA B, op : IF Unreported(op, B) THEN B ELSE ofmonitor_report(B, op, g),
                 [A EXCEPT !.updates = [c \in Conns |-> <<>>]], g.ops))
Before(t) == [table |-> t, seqno |-> seqno, queue |-> queue, paused |-> paused, misled |-> misled,
              updates |-> <<>>]
Becomes(A) ==
    /\ table' = A.table /\ seqno' = A.seqno /\ queue' = A.queue /\ paused' = A.paused
    /\ misled' = A.misled

-----------------------------------------------------------------------------
(* Requests to the flow table: an addition, or a modification or deletion  *)
(* of several flows.  Flows with an operation in progress make it wait.    *)
Op(type, f) == [type |-> type, flow |-> f, rule |-> table[f]]
Changed(ops, act) ==
    FoldLeft(LAMBDA t, op :
        [t EXCEPT ![op.flow] =
           CASE op.type = "ADD" -> [live |-> TRUE, act |-> act, add |-> 0, mod |-> 0]
             [] op.type = "MODIFY" -> [@ EXCEPT !.act = act]
             [] OTHER -> NoRule],
      table, ops)

Submit(conn, ops, act) ==
    LET g == [conn |-> conn, ops |-> [i \in DOMAIN ops |-> ops[i] @@ [act |-> act]]]
    IN  /\ ~aborted /\ mods < MaxMods
        /\ ops # <<>> /\ \A i \in DOMAIN ops : ops[i].flow \notin Busy
        /\ mods' = mods + 1
        /\ \/ /\ pending = <<>>
              /\ \E A \in {ofopgroup_complete(Before(Changed(ops, act)), g)} : Becomes(A)
              /\ UNCHANGED pending
           \/ /\ Clogs
              /\ table' = Changed(ops, act)
              /\ pending' = Append(pending, g)
              /\ UNCHANGED <<seqno, queue, paused, misled>>
        /\ UNCHANGED <<up, monitors, view, aborted>>

OnAll(type, S) == SetToSeq({Op(type, f) : f \in {x \in S : table[x].live}})
(* When the packet that an addition or modification names is not found in  *)
(* the connection's buffers, its updates are not abbreviated, as if the    *)
(* group were the switch's own.                                            *)
FlowMod(c, act) ==
    /\ up[c]
    /\ \/ \E owner \in {c, Switch} :
            \/ \E f \in Flows \ Hidden :
                 (Replaces \/ ~table[f].live) /\ Submit(owner, <<Op("ADD", f)>>, act)
            \/ Submit(owner, OnAll("MODIFY", Flows \ Hidden), act)
       \/ Submit(c, OnAll("DELETE", Flows \ Hidden), act)

(* The switch expires a flow, and adds and deletes flows of its own.       *)
OwnChange(f, act) ==
    \/ f \in Hidden /\ ~table[f].live /\ Submit(Switch, <<Op("ADD", f)>>, act)
    \/ table[f].live /\ Submit(Switch, <<Op("DELETE", f)>>, act)

(* complete_operations, once the bridge is unclogged.                      *)
Unclog ==
    /\ ~aborted /\ pending # <<>>
    /\ \E A \in {FoldLeft(ofopgroup_complete, Before(table), pending)} : Becomes(A)
    /\ pending' = <<>>
    /\ UNCHANGED <<up, monitors, view, aborted, mods>>

-----------------------------------------------------------------------------
(* ofproto_collect_ofmonitor_refresh_rules over the monitors ms, for what  *)
(* changed since the pause, or everything when since is 0.                 *)
RuleOf(f) == IF table[f].live THEN table[f]
             ELSE IF \E op \in Deletions : op.flow = f
             THEN (CHOOSE op \in Deletions : op.flow = f).rule ELSE NoRule
Newer(r, since) == IF r.add > since THEN {"ADD", "MODIFY"} ELSE IF r.mod > since THEN {"MODIFY"} ELSE {}
Collected(m, f, since) ==
    IF ~RuleOf(f).live \/ f \in Hidden \/ f \notin m.match THEN {}
    ELSE IF since = 0 THEN m.flags \cap {"INITIAL"}
    ELSE IF m.flags \cap Newer(RuleOf(f), since) # {} THEN Newer(RuleOf(f), since) ELSE {}

(* ofmonitor_compose_refresh_updates.                                      *)
Refresh(ms, since) ==
    LET flags(f) == UNION {Collected(m, f, since) : m \in ms}
        event(f) == IF flags(f) \cap {"INITIAL", "ADD"} # {} THEN "ADD" ELSE "MODIFY"
    IN  SetToSeq({<<event(f), f, RuleOf(f).act>> : f \in {x \in Flows : flags(x) # {}}})

(* "ovs_assert(!rule->pending)" for every rule found in the classifier.    *)
Asserted(ms, since) ==
    \A f \in Busy, m \in ms :
        ~(table[f].live /\ f \in m.match /\ (since # 0 \/ "INITIAL" \in m.flags))

Send(c, msgs) == queue' = [queue EXCEPT ![c] = @ \o msgs]
Reply(updates, S) == [counted |-> FALSE, fresh |-> S, updates |-> updates]
RESUMED == Reply(<<>>, {})
Listed(ms) == UNION {m.match : m \in {x \in ms : "INITIAL" \in x.flags}}

(* handle_flow_monitor_request: all of its monitors are made, or none.     *)
handle_flow_monitor_request(c, reqs) ==
    LET used == {m.id : m \in monitors[c]} IN
    /\ ~aborted /\ up[c] /\ mods < MaxMods
    /\ Patient => paused[c] = 0
    /\ \A i, j \in DOMAIN reqs : reqs[i].id \notin used /\ (i # j => reqs[i].id # reqs[j].id)
    /\ monitors' = [monitors EXCEPT ![c] = @ \cup ToSet(reqs)]
    /\ aborted' = ~Asserted(ToSet(reqs), 0)
    /\ Send(c, <<Reply(Refresh(ToSet(reqs), 0), Listed(ToSet(reqs)))>>)
    /\ misled' = [misled EXCEPT ![c] = IF paused[c] = 0 THEN @ ELSE @ \cup Listed(ToSet(reqs))]
    /\ mods' = mods + 1
    /\ UNCHANGED <<table, seqno, pending, up, paused, view>>

handle_flow_monitor_cancel(c, m) ==
    /\ ~aborted /\ m \in monitors[c]
    /\ monitors' = [monitors EXCEPT ![c] = @ \ {m}]
    /\ UNCHANGED <<table, seqno, pending, up, paused, queue, view, aborted, misled, mods>>

(* ofmonitor_run and ofmonitor_resume of a connection.                     *)
Drained(c) == \A i \in DOMAIN queue[c] : ~queue[c][i].counted
ofmonitor_run_WithMonitors(c) ==
    /\ ~aborted /\ paused[c] # 0 /\ Drained(c) /\ monitors[c] # {}
    /\ paused' = [paused EXCEPT ![c] = 0]
    /\ aborted' = ~Asserted(monitors[c], paused[c])
    /\ Send(c, <<Reply(Refresh(monitors[c], paused[c]), {}), RESUMED>>)
    /\ misled' = [misled EXCEPT ![c] = {f \in @ : ~RuleOf(f).live}]
    /\ UNCHANGED <<table, seqno, pending, up, monitors, view, mods>>
ofmonitor_run(c) ==
    /\ ~aborted /\ paused[c] # 0 /\ Drained(c)
    /\ paused' = [paused EXCEPT ![c] = 0]
    /\ aborted' = ~Asserted(monitors[c], paused[c])
    /\ Send(c, <<Reply(Refresh(monitors[c], paused[c]), {}), RESUMED>>)
    /\ misled' = [misled EXCEPT ![c] = {f \in @ : ~RuleOf(f).live}]
    /\ UNCHANGED <<table, seqno, pending, up, monitors, view, mods>>

(* The connection comes up, or drops: ofconn_flush, and ofmonitor_run in   *)
(* the same connmgr_run, which finds no monitors and ends the pause.       *)
Connect(c) ==
    /\ ~aborted /\ ~up[c]
    /\ up' = [up EXCEPT ![c] = TRUE]
    /\ UNCHANGED <<table, seqno, pending, monitors, paused, queue, view, aborted, misled, mods>>
ofconn_flush(c) ==
    /\ ~aborted /\ up[c]
    /\ up' = [up EXCEPT ![c] = FALSE]
    /\ monitors' = [monitors EXCEPT ![c] = {}]
    /\ paused' = [paused EXCEPT ![c] = 0]
    /\ queue' = [queue EXCEPT ![c] = <<>>]
    /\ view' = [view EXCEPT ![c] = Empty]
    /\ misled' = [misled EXCEPT ![c] = {}]
    /\ pending' = [i \in DOMAIN pending |->
                     IF pending[i].conn = c THEN [pending[i] EXCEPT !.conn = Switch] ELSE pending[i]]
    /\ UNCHANGED <<table, seqno, aborted, mods>>

(* The controller takes the next message and brings its view up to date.   *)
(* An abbreviated update stands for the request it made itself; the answer *)
(* to a monitor request lists all flows that are there.                    *)
Apply(v, u) ==
    IF u[1] = "ABBREV"
    THEN [f \in Flows |->
            LET mine == {op \in ToSet(u[2]) : op.flow = f}
            IN  CASE mine = {} -> v[f]
                  [] mine # {} /\ (CHOOSE op \in mine : TRUE).type = "DELETE" -> 0
                  [] OTHER -> (CHOOSE op \in mine : TRUE).act]
    ELSE [v EXCEPT ![u[2]] = IF u[1] = "DELETE" THEN 0 ELSE u[3]]
Receive(c) ==
    /\ queue[c] # <<>>
    /\ LET msg == Head(queue[c])
           kept == [f \in Flows |-> IF f \in msg.fresh THEN 0 ELSE view[c][f]]
       IN  view' = [view EXCEPT ![c] = FoldLeft(Apply, kept, msg.updates)]
    /\ queue' = [queue EXCEPT ![c] = Tail(@)]
    /\ UNCHANGED <<table, seqno, pending, up, monitors, paused, aborted, misled, mods>>

Next ==
    \/ \E c \in Conns :
         \/ Connect(c) \/ ofconn_flush(c) \/ Receive(c) \/ ofmonitor_run(c)
         \/ \E r \in Requests : handle_flow_monitor_request(c, r)
         \/ \E m \in monitors[c] : handle_flow_monitor_cancel(c, m)
         \/ \E act \in Actions : FlowMod(c, act)
    \/ \E f \in Flows, act \in Actions : OwnChange(f, act)
    \/ Unclog

Spec == Init /\ [][Next]_vars

(* The controller goes on reading, and the bridge running.                 *)
FairSpec == Spec /\ WF_vars(Unclog)
                 /\ \A c \in Conns : WF_vars(Receive(c)) /\ WF_vars(ofmonitor_run(c))

-----------------------------------------------------------------------------
TypeOK ==
    /\ \A f \in Flows : table[f].act \in Actions \cup {0} /\ table[f].add <= table[f].mod
    /\ \A f \in Flows : table[f].mod < seqno
    /\ \A c \in Conns : paused[c] < seqno /\ (~up[c] => monitors[c] = {} /\ queue[c] = <<>>)
    /\ view \in [Conns -> [Flows -> Actions \cup {0}]]

(* What a connection's monitors cover: all events of these flows.          *)
EveryFlag == {"INITIAL", "ADD", "DELETE", "MODIFY"}
Covered(c) == (UNION {m.match : m \in {x \in monitors[c] : EveryFlag \subseteq x.flags}}) \ Hidden
Settled(c) == queue[c] = <<>> /\ paused[c] = 0 /\ pending = <<>> /\ ~aborted

(* Once everything sent has been read, a controller knows every flow its   *)
(* monitors cover with its present actions: through pauses, changes made   *)
(* by others, abbreviated updates and operations that complete late        *)
(* (connmgr.c:1832-1983, ofproto.c:4635-4847).                             *)
NothingMissed ==
    \A c \in Conns : Settled(c) =>
        \A f \in Covered(c) : table[f].live => view[c][f] = table[f].act

(* And it knows of no flow that is gone: a rule's add_seqno tells whether  *)
(* "the rule was added before or after the old value was read"             *)
(* (connmgr.c:1768-1770), so deletions during a pause reach the            *)
(* controllers that know the flow.  This needs that no flow is replaced    *)
(* and no monitor requested while the controller is paused.                *)
NoGhosts ==
    \A c \in Conns : Settled(c) =>
        \A f \in Covered(c) : ~table[f].live => view[c][f] = 0

(* In general it may still know a flow that is gone, but only one that was *)
(* replaced, or listed to it, during a pause and was not there when the    *)
(* pause ended (connmgr.c:1863-1871, ofproto.c:4898).                      *)
GhostsExplained ==
    \A c \in Conns : Settled(c) =>
        \A f \in Covered(c) : ~table[f].live => view[c][f] = 0 \/ f \in misled[c]

(* A pause ends if the controller goes on reading, also when its monitors  *)
(* were cancelled meanwhile (connmgr.c:1985-1996).                         *)
Resumed == \A c \in Conns : paused[c] # 0 ~> paused[c] = 0 \/ aborted

(* "ovs_assert(!rule->pending)" (ofproto.c:4805).                          *)
NoPendingRule == ~aborted
=============================================================================
