----------------------------- MODULE FlowTable ------------------------------
(***************************************************************************)
(* Flow modifications in ofproto: adding, modifying, deleting, evicting,   *)
(* expiring and flushing rules, with operations that stay pending while    *)
(* the datapath layer is clogged (ovs_sgx/ofproto.c, and the parts of      *)
(* ofproto-dpif.c and of the enclave's oftable.c, ofproto.c and            *)
(* eviction.c it calls).                                                   *)
(*                                                                         *)
(* The file is compiled three ways and so is the model: "vanilla" without  *)
(* SGX, "plain" with one enclave call per step, "optimized" with one       *)
(* enclave call per operation.  Match and priority of a rule are a key,    *)
(* cookie and output-port filters one filter on actions.  Which rule is    *)
(* evicted is left open; EvictionGroups models that choice.                *)
(***************************************************************************)
EXTENDS Integers, Sequences, FiniteSets, SequencesExt

CONSTANTS
    Build,         \* "vanilla", "plain" or "optimized"
    Rules,         \* addresses at which struct rule may be allocated
    Keys,          \* match and priority of a flow
    Covers(_),     \* the keys that the match of a key covers loosely
    Overlaps(_, _),\* whether two keys of one priority overlap
    NTables,       \* ofproto->n_tables; the last table is TBL_INTERNAL
    Internal,      \* the rule add_internal_flows put into TBL_INTERNAL
    Limits,        \* values of max_flows that may be configured
    Actions,       \* action lists of flows
    Timeouts,      \* whether a flow has a timeout, a subset of BOOLEAN
    BufSize,       \* default_buffer_size, 32 in the code
    PendingLimit,  \* 50 in handle_flow_mod__
    MaxNodes,      \* bound on nodes left in the enclave for one address
    MayClog        \* whether ofproto/clog is used

VARIABLES
    rules,      \* struct rule by address
    cls,        \* the rules in each table's classifier
    nodes,      \* number of sgx_cls_rules the enclave holds for an address
    evg,        \* the rules in each table's eviction groups
    expirable,  \* ofproto->expirable
    pending,    \* ofproto->pending: groups, each a sequence of operations
    aborted,    \* the failed assertion or look-up that ended the process
    reply,      \* result of the last flow_mod; "ran" after ofproto_run
    state,      \* ofproto->state
    limit,      \* max_flows of each table
    grouped,    \* whether a table has eviction_fields
    clogged

tables == <<rules, cls, nodes, evg, expirable, pending, aborted>>
config == <<limit, grouped>>
vars == <<tables, reply, state, config, clogged>>

Tables == 0 .. NTables - 1
InternalTable == NTables - 1
Visible == Tables \ {InternalTable}   \* the internal one is OFTABLE_HIDDEN | OFTABLE_READONLY
NoRule == "NULL"
NoTable == 255                        \* 0xff: all tables
AnyPort == "OFPP_ANY"
SGX == Build # "vanilla"
OPTIMIZED == Build = "optimized"
Freed == [live |-> FALSE, key |-> NoRule, table |-> 0, acts |-> NoRule, expires |-> FALSE, op |-> NoRule]

(* The state that one call threads through the functions it calls; group   *)
(* and running belong to the ofopgroup under construction.                 *)
Current == [rules |-> rules, cls |-> cls, nodes |-> nodes, evg |-> evg, expirable |-> expirable,
            pending |-> pending, aborted |-> aborted, group |-> <<>>, running |-> FALSE]
Become(s) ==
    /\ rules' = s.rules /\ cls' = s.cls /\ nodes' = s.nodes /\ evg' = s.evg
    /\ expirable' = s.expirable /\ pending' = s.pending /\ aborted' = s.aborted
Abort(s, why) == IF s.aborted = "no" THEN [s EXCEPT !.aborted = why] ELSE s

Deletions(s) == {r \in Rules : s.rules[r].op = "DELETE"}
InTable(s, t, k) == {r \in s.cls[t] : s.rules[r].key = k}
The(S) == IF S = {} THEN NoRule ELSE CHOOSE r \in S : TRUE

-----------------------------------------------------------------------------
(* Rules and tables.                                                       *)

(* sgx_rule_from_ut_cr, which the enclave calls for every rule it is given *)
LookUp(s, r) == IF SGX /\ s.nodes[r] = 0 THEN Abort(s, "no enclave rule") ELSE s

cls_rule_init_Twice(s, r) == IF SGX THEN [s EXCEPT !.nodes[r] = @ + 2] ELSE s
cls_rule_init(s, r) == IF SGX THEN [s EXCEPT !.nodes[r] = @ + 1] ELSE s

ofproto_rule_destroy___Leaks(s, r) ==
    IF r = NoRule THEN s ELSE [s EXCEPT !.rules[r] = Freed]
ofproto_rule_destroy__(s, r) ==
    IF r = NoRule THEN s
    ELSE IF SGX THEN [LookUp(s, r) EXCEPT !.rules[r] = Freed, !.nodes[r] = IF @ > 0 THEN @ - 1 ELSE 0]
    ELSE [s EXCEPT !.rules[r] = Freed]

eviction_group_add_rule(s, r) ==
    IF grouped[s.rules[r].table] /\ s.rules[r].expires
    THEN [s EXCEPT !.evg[s.rules[r].table] = @ \cup {r}] ELSE s

oftable_remove_rule_KeepsGroup(s, r) ==
    [s EXCEPT !.cls[s.rules[r].table] = @ \ {r}, !.expirable = @ \ {r}]
oftable_remove_rule(s, r) ==
    LET t == s.rules[r].table
    IN  IF r \notin s.cls[t] THEN Abort(s, "not in classifier")
        ELSE [LookUp(s, r) EXCEPT !.cls[t] = @ \ {r}, !.evg[t] = @ \ {r}, !.expirable = @ \ {r}]

(* The rule that an insertion of r displaces.                              *)
Victim(s, r) == The(InTable(s, s.rules[r].table, s.rules[r].key) \ {r})

oftable_replace_rule_KeepsVictim(s, r) ==
    LET t == s.rules[r].table
    IN  eviction_group_add_rule([s EXCEPT !.cls[t] = @ \cup {r},
            !.expirable = IF s.rules[r].expires THEN @ \cup {r} ELSE @], r)
oftable_replace_rule(s, r) ==
    LET t == s.rules[r].table
        v == Victim(s, r)
        s1 == [LookUp(s, r) EXCEPT !.cls[t] = (@ \ {v}) \cup {r}, !.evg[t] = @ \ {v},
                 !.expirable = (IF s.rules[r].expires THEN @ \cup {r} ELSE @) \ {v}]
    IN  eviction_group_add_rule(s1, r)

oftable_substitute_rule_Forgets(s, old, new) == oftable_remove_rule(s, old)
oftable_substitute_rule(s, old, new) ==
    IF new # NoRule THEN oftable_replace_rule(s, new) ELSE oftable_remove_rule(s, old)

-----------------------------------------------------------------------------
(* Groups of operations.                                                   *)

ofoperation_create(s, r, type, victim) ==
    IF s.rules[r].op # NoRule THEN Abort(s, "operation pending")
    ELSE [s EXCEPT !.rules[r].op = type,
                   !.group = Append(@, [type |-> type, rule |-> r, victim |-> victim])]

(* ofproto-dpif: the operation completes at once unless clogged.           *)
complete_operation(s) == [s EXCEPT !.running = @ \/ clogged]

(* One operation of ofopgroup_complete.  is_hidden tells whether the       *)
(* caller already knows which rules are hidden.                            *)
CompleteOperation_KeepsVictim(s, op, is_hidden) ==
    LET s1 == [s EXCEPT !.rules[op.rule].op = NoRule]
    IN  IF op.type = "DELETE" THEN ofproto_rule_destroy__(s1, op.rule) ELSE s1
CompleteOperation_DestroysRule(s, op, is_hidden) ==
    LET s1 == [s EXCEPT !.rules[op.rule].op = NoRule]
    IN  CASE op.type = "ADD" -> ofproto_rule_destroy__(s1, op.victim)
          [] op.type = "MODIFY" -> s1
          [] op.type = "DELETE" -> ofproto_rule_destroy__(s1, op.rule)
CompleteOperation(s, op, is_hidden) ==
    LET s1 == [(IF is_hidden THEN s ELSE LookUp(s, op.rule)) EXCEPT !.rules[op.rule].op = NoRule]
    IN  CASE op.type = "ADD" -> ofproto_rule_destroy__(s1, op.victim)
          [] op.type = "MODIFY" -> s1
          [] op.type = "DELETE" /\ OPTIMIZED -> [s1 EXCEPT !.rules[op.rule] = Freed]
          [] op.type = "DELETE" /\ ~OPTIMIZED -> ofproto_rule_destroy__(s1, op.rule)

ofopgroup_complete(s, ops, is_hidden) ==
    FoldLeft(LAMBDA s1, op : CompleteOperation(s1, op, is_hidden), s, ops)

ofopgroup_submit(s, is_hidden) ==
    LET s1 == [s EXCEPT !.group = <<>>, !.running = FALSE]
    IN  IF s.running THEN [s1 EXCEPT !.pending = Append(@, s.group)]
        ELSE ofopgroup_complete(s1, s.group, is_hidden)

(* complete_operations finishes every pending operation, group by group.   *)
complete_operations(s) ==
    FoldLeft(LAMBDA s1, ops : ofopgroup_complete(s1, ops, FALSE), [s EXCEPT !.pending = <<>>], s.pending)

delete_flow__(s, r) ==
    complete_operation(oftable_remove_rule(ofoperation_create(s, r, "DELETE", NoRule), r))

-----------------------------------------------------------------------------
(* OFPFC_ADD.  Result: the state and the reply.                            *)
Result(s, what) == [s |-> s, reply |-> what]

is_flow_deletion_pending(s, k, t) ==
    \E d \in Deletions(s) : s.rules[d].key = k /\ (OPTIMIZED \/ s.rules[d].table = t)

(* The rules from which choose_rule_to_evict may choose.                   *)
Evictable(s, t, r) == IF grouped[t] THEN s.evg[t] \ {r} ELSE {}

Overfull_AtLimit(s, t) == Cardinality(s.cls[t]) > limit[t] + 1
Overfull(s, t) == Cardinality(s.cls[t]) > limit[t]

BackOut(s, r, victim) ==
    ofproto_rule_destroy__(oftable_substitute_rule(s, r, victim), r)

(* In the optimized build the enclave has already removed the rule to be   *)
(* evicted from classifier and groups when ofproto looks at it.            *)
EvictedInEnclave(s, t, e) ==
    IF OPTIMIZED /\ e # NoRule THEN [s EXCEPT !.cls[t] = @ \ {e}, !.evg[t] = @ \ {e}] ELSE s

DeleteEvicted_StaysExpirable(s, e) ==
    IF e = NoRule THEN s ELSE complete_operation(ofoperation_create(s, e, "DELETE", NoRule))
DeleteEvicted_NoOperation(s, e) == IF e = NoRule THEN s ELSE [s EXCEPT !.expirable = @ \ {e}]
DeleteEvicted(s, e) ==
    IF e = NoRule THEN s
    ELSE LET s1 == ofoperation_create(s, e, "DELETE", NoRule)
         IN  complete_operation(IF OPTIMIZED THEN [s1 EXCEPT !.expirable = @ \ {e}]
                                ELSE oftable_remove_rule(s1, e))

(* e is the rule chosen for eviction if the table overflows.               *)
AddRule(s0, r, e) ==
    LET t == s0.rules[r].table
        victim == Victim(s0, r)
        s == oftable_replace_rule(s0, r)
        full == Overfull(s, t)
        s1 == IF full THEN EvictedInEnclave(s, t, e) ELSE s
        s2 == complete_operation(ofoperation_create(s1, r, "ADD", victim))
    IN  CASE victim # NoRule /\ s.rules[victim].op # NoRule -> Result(BackOut(s1, r, victim), "postpone")
          [] ~(victim # NoRule /\ s.rules[victim].op # NoRule) /\ full /\ e = NoRule ->
                Result(BackOut(s1, r, victim), "error")
          [] ~(victim # NoRule /\ s.rules[victim].op # NoRule) /\ full /\ e # NoRule /\ s.rules[e].op # NoRule ->
                Result(BackOut(s1, r, victim), "postpone")
          [] OTHER -> Result(ofopgroup_submit(IF full THEN DeleteEvicted(s2, e) ELSE s2, FALSE), "ok")

(* The table of a new flow; ofproto-dpif has no rule_choose_table.         *)
Picked(table_id) == IF table_id = NoTable THEN 0 ELSE table_id

add_flow(s, r, flow, check_overlap, e) ==
    LET t == Picked(flow.table)
        unknown == OPTIMIZED /\ \E d \in Deletions(s) : s.nodes[d] = 0
        s0 == IF unknown THEN Abort(s, "no enclave rule") ELSE s
        s1 == cls_rule_init([s0 EXCEPT !.rules[r] =
                 [live |-> TRUE, key |-> flow.key, table |-> t, acts |-> flow.acts,
                  expires |-> flow.expires, op |-> NoRule]], r)
    IN  CASE t = InternalTable -> Result(s, "error")
          [] t # InternalTable /\ is_flow_deletion_pending(s, flow.key, t) ->
                Result(ofproto_rule_destroy__(s1, r), "postpone")
          [] t # InternalTable /\ ~is_flow_deletion_pending(s, flow.key, t)
               /\ check_overlap /\ \E x \in s.cls[t] : Overlaps(s.rules[x].key, flow.key) ->
                Result(ofproto_rule_destroy__(s1, r), "error")
          [] OTHER -> AddRule(s1, r, e)

-----------------------------------------------------------------------------
(* OFPFC_MODIFY and OFPFC_DELETE, loose and strict.                        *)

MatchingTables(table_id) == IF table_id = NoTable THEN Visible ELSE {table_id}
Filtered(s, S, port) == {r \in S : port = AnyPort \/ s.rules[r].acts = port}

Matching(s, table_id, k, strict) ==
    {r \in UNION {s.cls[t] : t \in MatchingTables(table_id)} :
        IF strict THEN s.rules[r].key = k ELSE s.rules[r].key \in Covers(k)}

(* collect_rules_loose postpones on a pending rule.                        *)
collect_rules_loose(s, table_id, k, port) ==
    LET found == Matching(s, table_id, k, FALSE)
    IN  IF \E r \in found : s.rules[r].op # NoRule THEN Result({}, "postpone")
        ELSE Result(Filtered(s, found, port), "ok")

(* collect_rules_strict stops at a pending rule and returns 0 with the     *)
(* rules of the tables before it.                                          *)
collect_rules_strict(s, table_id, k, port) ==
    LET found == Matching(s, table_id, k, TRUE)
        stops == {s.rules[r].table : r \in {x \in found : s.rules[x].op # NoRule}}
    IN  Result(Filtered(s, {r \in found : \A t \in stops : s.rules[r].table < t}, port), "ok")

modify_flows__(s, S, acts) ==
    LET Modify(s1, r) ==
          LET s2 == ofoperation_create(s1, r, "MODIFY", NoRule)
          IN  IF s1.rules[r].acts = acts THEN s2
              ELSE complete_operation([s2 EXCEPT !.rules[r].acts = acts])
        modifiable == {r \in S : s.rules[r].table # InternalTable}
    IN  Result(ofopgroup_submit(FoldLeft(Modify, s, SetToSeq(modifiable)), FALSE),
               IF modifiable = {} THEN "error" ELSE "ok")

delete_flows__(s, S) ==
    Result(ofopgroup_submit(FoldLeft(delete_flow__, s, SetToSeq(S)), FALSE), "ok")

(* modify_flows_loose and modify_flow_strict; without a match the flow is  *)
(* added, unless the request filters by cookie (adds).                     *)
ModifyFlows(s, got, strict, r, flow, e, adds) ==
    CASE got.reply # "ok" -> Result(s, got.reply)
      [] got.reply = "ok" /\ got.s = {} -> IF adds THEN add_flow(s, r, flow, FALSE, e) ELSE Result(s, "ok")
      [] got.reply = "ok" /\ got.s # {} ->
            IF strict /\ Cardinality(got.s) > 1 THEN Result(s, "ok") ELSE modify_flows__(s, got.s, flow.acts)

DeleteFlows(s, got, strict) ==
    CASE got.reply # "ok" -> Result(s, got.reply)
      [] got.reply = "ok" /\ (got.s = {} \/ (strict /\ Cardinality(got.s) > 1)) -> Result(s, "ok")
      [] OTHER -> delete_flows__(s, got.s)

-----------------------------------------------------------------------------
(* Eviction of a table that is over a lowered limit.                       *)

(* The rules of table t above its limit, in the order in which they are    *)
(* chosen.  Limits are below INT_MAX here: EvictionGroups has the others.  *)
Chosen(s, t, order) ==
    LET over == Cardinality(s.cls[t]) - limit[t]
        can == SelectSeq(order, LAMBDA r : r \in Evictable(s, t, NoRule))
    IN  IF over <= 0 THEN <<>> ELSE SubSeq(can, 1, IF over < Len(can) THEN over ELSE Len(can))
UpToPending(s, seq) ==
    LET stops == {i \in 1 .. Len(seq) : s.rules[seq[i]].op # NoRule}
    IN  IF stops = {} THEN seq ELSE SubSeq(seq, 1, (CHOOSE i \in stops : \A j \in stops : i <= j) - 1)

EvictOneByOne(s, order) ==
    FoldLeft(LAMBDA s1, t : FoldLeft(delete_flow__, s1, UpToPending(s1, Chosen(s1, t, order))),
             s, [i \in 1 .. NTables |-> i - 1])

(* SGX_ofproto_evict and SGX_remove_rules: one batch for all tables.  The  *)
(* loop visits the rules chosen; where the enclave counts more than it     *)
(* could choose, the code's loop runs past them (5590; TotalIsFeasible of  *)
(* EvictionGroups).                                                        *)
EvictBatch(s, order) ==
    LET chosen == FlattenSeq([i \in 1 .. NTables |-> Chosen(s, i - 1, order)])
        batch == UpToPending(s, chosen)
        Create(s1, r) == ofoperation_create(s1, r, "DELETE", NoRule)
        RemoveNode(s1, r) == [oftable_remove_rule(s1, r) EXCEPT !.nodes[r] = @ - 1]
        Destruct(s1, r) == complete_operation(s1)
        s0 == IF Len(chosen) > BufSize THEN Abort(s, "buffer overrun") ELSE s
    IN  FoldLeft(Destruct, FoldLeft(RemoveNode, FoldLeft(Create, s0, batch), batch), batch)

ofproto_evict(s, order) ==
    IF OPTIMIZED THEN ofopgroup_submit(EvictBatch(s, order), TRUE)
    ELSE ofopgroup_submit(EvictOneByOne(s, order), FALSE)

-----------------------------------------------------------------------------
(* Flushing.                                                               *)

(* ecall_ofproto_flush: up to size rules leave classifier and groups;      *)
(* count also counts the ones that did not fit.                            *)
ecall_ofproto_flush(s, order, size) ==
    LET all == SelectSeq(order, LAMBDA r : r \in UNION {s.cls[t] : t \in Visible})
        got == ToSet(SubSeq(all, 1, IF size < Len(all) THEN size ELSE Len(all)))
    IN  [s |-> [s EXCEPT !.cls = [t \in Tables |-> @[t] \ got], !.evg = [t \in Tables |-> @[t] \ got]],
         got |-> SelectSeq(all, LAMBDA r : r \in got), count |-> Len(all)]

FlushBatch(s, order) ==
    LET first == ecall_ofproto_flush(s, order, BufSize)
        leftover == first.count - Len(first.got)
        second == ecall_ofproto_flush(first.s, order, leftover)
        n_rules == IF leftover > 0 THEN second.count ELSE first.count
        listed == first.got \o second.got
        Drop(s1, r) == complete_operation([ofoperation_create(s1, r, "DELETE", NoRule) EXCEPT !.expirable = @ \ {r}])
    IN  FoldLeft(Drop, second.s, SubSeq(listed, 1, n_rules))

ofproto_flush___AllRules(s, order) ==
    ofopgroup_submit(FoldLeft(delete_flow__, s,
        SelectSeq(order, LAMBDA r : r \in UNION {s.cls[t] : t \in Visible})), FALSE)
ofproto_flush___FirstTable(s, order) ==
    ofopgroup_submit(FoldLeft(delete_flow__, s, SelectSeq(order, LAMBDA r : r \in s.cls[0])), FALSE)
ofproto_flush__(s, order) ==
    LET all == SelectSeq(order, LAMBDA r : r \in UNION {s.cls[t] : t \in Visible})
        idle == SelectSeq(all, LAMBDA r : s.rules[r].op = NoRule)
        s1 == IF OPTIMIZED THEN FlushBatch(s, order)
              ELSE FoldLeft(delete_flow__, s, IF SGX THEN all ELSE idle)
    IN  ofopgroup_submit(s1, FALSE)

-----------------------------------------------------------------------------
(* The initial state is that after construct: the internal flow is in      *)
(* place, its table hidden and read-only.                                  *)
Init ==
    /\ rules = [r \in Rules |->
         IF r = Internal THEN [live |-> TRUE, key |-> CHOOSE k \in Keys : TRUE, table |-> InternalTable,
                               acts |-> CHOOSE a \in Actions : TRUE, expires |-> FALSE, op |-> NoRule]
         ELSE Freed]
    /\ cls = [t \in Tables |-> IF t = InternalTable THEN {Internal} ELSE {}]
    /\ nodes = [r \in Rules |-> IF SGX /\ r = Internal THEN 1 ELSE 0]
    /\ evg = [t \in Tables |-> {}]
    /\ expirable = {} /\ pending = <<>> /\ aborted = "no" /\ reply = "none"
    /\ state = "OPENFLOW"
    /\ limit = [t \in Tables |-> Cardinality(Rules)]
    /\ grouped = [t \in Tables |-> FALSE]
    /\ clogged = FALSE

(* What a flow_mod names: check_table_id lets every table through, hidden  *)
(* ones included, and 0xff.                                                *)
TableIds == Tables \cup {NoTable}
Flows == [key : Keys, table : TableIds, acts : Actions, expires : Timeouts]

(* Once the internal rule has been deleted its address is not used again.  *)
Free == {r \in Rules \ {Internal} : ~rules[r].live /\ nodes[r] < MaxNodes}
Postponed == Len(pending) >= PendingLimit
Running == aborted = "no" /\ state # "DESTROYED"

Do(res) ==
    /\ Become(res.s) /\ reply' = res.reply
    /\ UNCHANGED <<state, config, clogged>>

(* The rules that may turn out to be the one to evict from table t.        *)
EvictChoices(t, k) ==
    LET S == Evictable(Current, t, NoRule) \ InTable(Current, t, k)
    IN  IF S = {} THEN {NoRule} ELSE S

(* handle_flow_mod__, called for controllers and, through                  *)
(* ofproto_flow_mod, for learn actions, in-band control and fail-open.     *)
Postpone == Running /\ Postponed /\ Do(Result(Current, "postpone"))

AddFlow ==
    /\ Running /\ ~Postponed
    /\ \E r \in Free, flow \in Flows, check_overlap \in BOOLEAN, e \in Rules \cup {NoRule} :
          /\ e \in EvictChoices(Picked(flow.table), flow.key)
          /\ Do(add_flow(Current, r, flow, check_overlap, e))

Modify ==
    /\ Running /\ ~Postponed
    /\ \E r \in Free, flow \in Flows, strict \in BOOLEAN, adds \in BOOLEAN, e \in Rules \cup {NoRule} :
          /\ e \in EvictChoices(Picked(flow.table), flow.key)
          /\ Do(ModifyFlows(Current, IF strict THEN collect_rules_strict(Current, flow.table, flow.key, AnyPort)
                                     ELSE collect_rules_loose(Current, flow.table, flow.key, AnyPort),
                            strict, r, flow, e, adds))

DeleteLoose ==
    /\ Running /\ ~Postponed
    /\ \E k \in Keys, table_id \in TableIds, port \in Actions \cup {AnyPort} :
          Do(DeleteFlows(Current, collect_rules_loose(Current, table_id, k, port), FALSE))

DeleteStrict(k, table_id, port) ==
    /\ Running /\ ~Postponed
    /\ Do(DeleteFlows(Current, collect_rules_strict(Current, table_id, k, port), TRUE))

(* rule_expire and ofproto_rule_expire, at any time after the timeout.     *)
rule_expire(r) ==
    /\ Running /\ rules[r].op = NoRule
    /\ Become(ofopgroup_submit(delete_flow__(Current, r), FALSE))
    /\ reply' = "none" /\ UNCHANGED <<state, config, clogged>>

ofproto_configure_table(t, max_flows, groups) ==
    LET over == Cardinality(cls[t]) > max_flows /\ groups
    IN  /\ Running /\ t # InternalTable
        /\ limit' = [limit EXCEPT ![t] = max_flows]
        /\ grouped' = [grouped EXCEPT ![t] = groups]
        /\ evg' = [evg EXCEPT ![t] = IF groups THEN {r \in cls[t] : rules[r].expires} ELSE {}]
        /\ state' = IF over /\ state = "OPENFLOW" THEN "EVICT" ELSE state
        /\ reply' = "none"
        /\ UNCHANGED <<rules, cls, nodes, expirable, pending, aborted, clogged>>

ofproto_flush_flows ==
    /\ Running /\ state # "FLUSH"
    /\ state' = "FLUSH" /\ reply' = "none"
    /\ UNCHANGED <<tables, config, clogged>>

(* ofproto_run: operations complete unless clogged, then eviction or       *)
(* flushing goes on until nothing is pending.                              *)
ofproto_run_UntilFits(order) ==
    LET s == IF clogged THEN Current ELSE complete_operations(Current)
        s1 == CASE state = "OPENFLOW" -> s
                [] state = "EVICT" -> ofproto_evict(s, order)
                [] state = "FLUSH" -> ofproto_flush__(s, order)
    IN  /\ Running /\ reply' = "ran" /\ UNCHANGED <<config, clogged>>
        /\ state' = IF \A t \in Visible : ~Overfull(s1, t) THEN "OPENFLOW" ELSE state
        /\ Become(s1)
ofproto_run(order) ==
    LET s == IF clogged THEN Current ELSE complete_operations(Current)
        s1 == CASE state = "OPENFLOW" -> s
                [] state = "EVICT" -> ofproto_evict(s, order)
                [] state = "FLUSH" -> ofproto_flush__(s, order)
    IN  /\ Running /\ reply' = "ran" /\ UNCHANGED <<config, clogged>>
        /\ state' = IF s1.pending = <<>> /\ Deletions(s1) = {} THEN "OPENFLOW" ELSE state
        /\ Become(s1)

(* ofproto_destroy: flush, then destruct completes all operations and      *)
(* destroys the rules that are left, the internal ones included.           *)
DestroyRule(s, r) ==
    ofproto_rule_destroy__(oftable_remove_rule(IF s.rules[r].op # NoRule THEN Abort(s, "operation pending") ELSE s, r), r)
ofproto_destroy_SkipsHidden(order) ==
    LET s == complete_operations(ofproto_flush__(Current, order))
        left == SelectSeq(order, LAMBDA r : r \in UNION {s.cls[t] : t \in Visible})
    IN  /\ Running /\ Become(FoldLeft(DestroyRule, s, left))
        /\ state' = "DESTROYED" /\ reply' = "none"
        /\ UNCHANGED <<config, clogged>>
ofproto_destroy(order) ==
    LET s == complete_operations(ofproto_flush__(Current, order))
        left == SelectSeq(order, LAMBDA r : r \in UNION {s.cls[t] : t \in Tables})
    IN  /\ Running /\ Become(FoldLeft(DestroyRule, s, left))
        /\ state' = "DESTROYED" /\ reply' = "none"
        /\ UNCHANGED <<config, clogged>>

clog == MayClog /\ Running /\ ~clogged /\ clogged' = TRUE /\ reply' = "none" /\ UNCHANGED <<tables, state, config>>
unclog == Running /\ clogged /\ clogged' = FALSE /\ reply' = "none" /\ UNCHANGED <<tables, state, config>>

(* The orders in which loops over the tables may meet the rules.           *)
Orders == SetToSeqs({r \in Rules : rules[r].live})

Next ==
    \/ Postpone \/ AddFlow \/ Modify \/ DeleteLoose
    \/ \E k \in Keys, t \in TableIds, port \in Actions \cup {AnyPort} : DeleteStrict(k, t, port)
    \/ \E r \in expirable : rule_expire(r)
    \/ \E t \in Visible, max_flows \in Limits, groups \in BOOLEAN : ofproto_configure_table(t, max_flows, groups)
    \/ ofproto_flush_flows
    \/ \E order \in Orders : ofproto_run(order)
    \/ \E order \in Orders : ofproto_destroy(order)
    \/ clog \/ unclog

Spec == Init /\ [][Next]_vars

(* ovs-vswitchd calls ofproto_run in its main loop for as long as the      *)
(* bridge exists, and not only while the test suite keeps it clogged.      *)
FairSpec == Spec /\ ([]<>(reply = "ran" /\ ~clogged) \/ <>[]~Running)

-----------------------------------------------------------------------------
TypeOK ==
    /\ rules \in [Rules -> [live : BOOLEAN, key : Keys \cup {NoRule}, table : Tables, acts : Actions \cup {NoRule},
                            expires : BOOLEAN, op : {"ADD", "MODIFY", "DELETE", NoRule}]]
    /\ cls \in [Tables -> SUBSET Rules] /\ evg \in [Tables -> SUBSET Rules]
    /\ nodes \in [Rules -> 0 .. MaxNodes]
    /\ expirable \subseteq Rules
    /\ state \in {"OPENFLOW", "EVICT", "FLUSH", "DESTROYED"}

Ops == UNION {ToSet(pending[i]) : i \in DOMAIN pending}

(* Every allocated rule is in the classifier of its own table, or waits    *)
(* for its deletion, or is what a pending ADD replaces, and is in one of   *)
(* these places only; nothing points to a freed rule.  ADD, eviction, back *)
(* out, flush and the completion of operations move rules between them     *)
(* (ofproto.c:3624-4010, 5156-5336).                                       *)
RulesAccounted ==
    aborted = "no" =>
      /\ \A t \in Tables : \A r \in cls[t] : rules[r].live /\ rules[r].table = t /\ rules[r].op # "DELETE"
      /\ \A r \in Rules : rules[r].live =>
            Cardinality({w \in {"table", "deleting", "victim"} :
               CASE w = "table" -> r \in cls[rules[r].table]
                 [] w = "deleting" -> rules[r].op = "DELETE"
                 [] w = "victim" -> \E op \in Ops : op.type = "ADD" /\ op.victim = r}) = 1
      /\ \A r \in Rules : rules[r].op # NoRule <=> (\E op \in Ops : op.rule = r)

(* No two rules of a table have the same match and priority, whatever      *)
(* replacements were backed out (classifier_replace, ofproto.c:4004-4009). *)
OneRulePerKey ==
    \A t \in Tables : \A r, q \in cls[t] : rules[r].key = rules[q].key => r = q

(* The eviction groups and the list of expirable rules hold exactly the    *)
(* rules with a timeout that are in a table: no rule in a table is         *)
(* forgotten by eviction or expiry, and none is evicted after it left      *)
(* (ofproto.c:6020-6098).                                                  *)
ExpiryFollowsTables ==
    aborted = "no" =>
      /\ \A t \in Tables : evg[t] = IF grouped[t] THEN {r \in cls[t] : rules[r].expires} ELSE {}
      /\ expirable = {r \in UNION {cls[t] : t \in Tables} : rules[r].expires}

(* The enclave holds exactly one rule for each allocated one: no call      *)
(* names a rule the enclave does not know, and a destroyed rule leaves     *)
(* nothing behind at its address (ofproto.c:2276-2304, 5279-5292).         *)
NodePerRule ==
    aborted = "no" => \A r \in Rules : nodes[r] = IF rules[r].live THEN 1 ELSE 0

(* No assertion of the flow table code fails and the enclave finds every   *)
(* rule it is asked about.  "Prior to calling, 'rule' must not have any    *)
(* pending operation" (ofproto.c:5339).                                    *)
NoAbort == aborted = "no"

(* A table grows only up to its limit; only a lowered limit leaves it over *)
(* (ofproto.c:3745-3762).                                                  *)
GrowsToLimit ==
    \A t \in Visible : Cardinality(cls'[t]) > Cardinality(cls[t]) => Cardinality(cls'[t]) <= limit'[t]
NeverGrowsPastLimit == [][GrowsToLimit]_vars

(* "Back out if an error occurred." (ofproto.c:4005): a flow_mod that is   *)
(* rejected or postponed leaves tables, eviction groups, timeouts and      *)
(* rules as they were.                                                     *)
RefusalIsNoStep ==
    reply' \in {"postpone", "error"} =>
        cls' = cls /\ evg' = evg /\ expirable' = expirable /\ rules' = rules /\ pending' = pending
BacksOut == [][RefusalIsNoStep]_vars

(* "Returns 0 on success, otherwise an OpenFlow error code" (ofproto.c:    *)
(* 3122): a strict deletion that reports success has left no rule with     *)
(* that match and priority in the table.                                   *)
StrictDeleteTakesEffect ==
    [][\A k \in Keys, t \in Visible : DeleteStrict(k, t, AnyPort) /\ reply' = "ok" =>
          \A r \in cls'[t] : rules'[r].key # k]_vars

(* "Starts the process of deleting all of the flows from all of ofproto's  *)
(* flow tables" (ofproto.c:1796): a run that ends flushing leaves no rule  *)
(* but the internal ones.                                                  *)
FlushEndsEmpty ==
    state = "FLUSH" /\ state' = "OPENFLOW" => \A r \in Rules : rules'[r].live => rules'[r].table = InternalTable
FlushDeletesAll == [][FlushEndsEmpty]_vars

(* What a flush ends with whatever the size of the buffer: no table has a  *)
(* rule left (ofproto.c:1108-1131).                                        *)
FlushEmptiesTables == state = "FLUSH" /\ state' = "OPENFLOW" => \A t \in Visible : cls'[t] = {}

(* Destroying a bridge frees every rule, on both sides of the enclave      *)
(* boundary (ofproto.c:1198-1214, ofproto-dpif.c:1574-1610).               *)
DestroyFreesAll ==
    state = "DESTROYED" /\ aborted = "no" => \A r \in Rules : ~rules[r].live /\ nodes[r] = 0

(* Eviction and flushing come to an end: OpenFlow messages, which are held *)
(* back meanwhile, are handled again (ofproto.c:1337-1367).                *)
ReturnsToOpenFlow == (state \in {"EVICT", "FLUSH"}) ~> (state = "OPENFLOW" \/ state = "DESTROYED")
=============================================================================
