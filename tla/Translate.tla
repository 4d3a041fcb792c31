----------------------------- MODULE Translate ------------------------------
(***************************************************************************)
(* xlate_actions: the OpenFlow actions of a rule become datapath actions   *)
(* (ofproto-dpif.c).                                                       *)
(*                                                                         *)
(* The translation recurses: a resubmit runs the actions of another rule,  *)
(* an output to a patch port runs those of the peer bridge.  Each level    *)
(* saves part of the context and has to put it back.  The C stack is a     *)
(* sequence of frames here, and a step is one OpenFlow action or one       *)
(* return, so that what an inner level leaves behind shows at the outer.   *)
(*                                                                         *)
(* Header fields are those that are committed in different ways: the VLAN  *)
(* is pushed and popped, the others are set, the tunnel only for a tunnel  *)
(* port.  OFPP_NORMAL and mirror selection are in Bundles, lookups in      *)
(* Classifier; the libraries behind commit_odp_actions are external.       *)
(***************************************************************************)
EXTENDS Integers, Sequences, FiniteSets, SequencesExt

CONSTANTS
    None,        \* no rule, no port, no peer
    Sgx,         \* is the flow table in the enclave?
    Ports,       \* OpenFlow ports of all bridges
    bridge_of,   \* the bridge of each port
    peer_of,     \* the peer of each patch port, None for the others
    Tunnels,     \* the ports that are tunnels
    Miss,        \* the rule that stands in when a table has none
    Rules,       \* the other rules
    place,       \* bridge, table and input port (None for any) of each rule
    Learned,     \* the rule that a learn action adds
    Programs,    \* assignments of OpenFlow actions to rules
    StpStates,   \* assignments of an STP state to ports
    SpecialIn,   \* bridges that process a control packet themselves
    MirrorPort,  \* where every packet is mirrored to, or None
    MaxFlows,    \* flows a table may hold
    MAX_RESUBMIT_RECURSION,
    Packets      \* received packets: in_port, vlan, ttl and control

VARIABLES
    prog,       \* rule->ofpacts
    stp,        \* ofport->stp_state
    packet,     \* the packet being translated
    ctx,        \* struct xlate_ctx, with xin->flow and xout
    stack,      \* the active calls of do_xlate_actions, innermost last
    live,       \* the rules in the flow tables
    evictable,  \* rule->evictable, of the untrusted rules
    phase

vars == <<prog, stp, packet, ctx, stack, live, evictable, phase>>

Only(S) == CHOOSE x \in S : TRUE
AllRules == Rules \cup {Miss}
Set(f, v) == [op |-> "set", field |-> f, value |-> v]
Out(p) == [op |-> "out", port |-> p]

stp_forward_in_state(s) == s \in {"disabled", "forwarding"}
stp_learn_in_state(s) == s \in {"disabled", "learning", "forwarding"}
may_receive(p) == stp_forward_in_state(stp[p]) \/ stp_learn_in_state(stp[p])

(* A port takes control packets itself: CFM, LACP, STP.                    *)
process_special(b) == packet.control /\ b \in SpecialIn

-----------------------------------------------------------------------------
(* xlate_in_init and the beginning of xlate_actions.                       *)
Init ==
    /\ prog \in Programs /\ stp \in StpStates /\ packet \in Packets
    /\ live = Rules \ {Learned}
    /\ evictable = [r \in AllRules |-> TRUE]
    /\ stack = <<>> /\ phase = "start"
    /\ LET flow == [in_port |-> packet.in_port, vlan |-> packet.vlan, ttl |-> packet.ttl,
                    prio |-> 0, tun |-> 0, reg |-> None]
       IN  ctx = [ofproto |-> bridge_of[packet.in_port], flow |-> flow, base |-> flow,
                  odp |-> <<>>, rule |-> None, recurse |-> 0, trigger |-> FALSE,
                  table_id |-> 0, exit |-> FALSE, slow |-> "no", n_outputs |-> 0]

rule_dpif_lookup(b, in_port, table) ==
    {r \in live : /\ place[r].bridge = b /\ place[r].table = table
                  /\ place[r].in_port \in {None, in_port}}

Frame(r, old_rule, old_table) ==
    [todo |-> prog[r], was_evictable |-> evictable[r], old_rule |-> old_rule, old_table |-> old_table]

(* The packet is special, may not be received, or has its rule's actions   *)
(* executed.                                                               *)
xlate_actions ==
    /\ phase = "start"
    /\ UNCHANGED <<prog, stp, packet, live>>
    /\ IF process_special(ctx.ofproto) \/ ~may_receive(packet.in_port)
       THEN /\ phase' = IF process_special(ctx.ofproto) THEN "done" ELSE "run"
            /\ ctx' = IF process_special(ctx.ofproto) THEN [ctx EXCEPT !.slow = "special"] ELSE ctx
            /\ UNCHANGED <<stack, evictable>>
       ELSE LET found == rule_dpif_lookup(ctx.ofproto, packet.in_port, 0)
            IN  \E r \in IF found = {} THEN {Miss} ELSE found :
                  /\ phase' = "run"
                  /\ ctx' = [ctx EXCEPT !.rule = r]
                  /\ stack' = <<Frame(r, None, 0)>>
                  /\ evictable' = [evictable EXCEPT ![r] = FALSE]

-----------------------------------------------------------------------------
Top == Last(stack)
Running == phase = "run" /\ stack # <<>>
Internal == {"compose", "peer_done", "enqueued"}

(* The next thing to do is a step inside an action, or the next action.    *)
At(op) ==
    /\ Running /\ Top.todo # <<>> /\ Head(Top.todo).op = op
    /\ op \notin Internal => ~ctx.exit
a == Head(Top.todo)
Rest == Tail(Top.todo)

(* Nothing is left to do in the innermost call, or exit ends its loop.     *)
Over == IF Top.todo = <<>> THEN TRUE ELSE ctx.exit /\ a.op \notin Internal

WithTodo(todo) == [stack EXCEPT ![Len(stack)].todo = todo]
Continue(c, todo) ==
    /\ ctx' = c
    /\ stack' = WithTodo(todo)
    /\ UNCHANGED <<prog, stp, packet, live, evictable, phase>>

(* commit_odp_actions: what differs from the flow at the last commit.      *)
commit_odp_actions(c) ==
    LET f == c.flow
        tags == IF f.vlan = c.base.vlan THEN <<>>
                ELSE (IF c.base.vlan # 0 THEN <<[op |-> "pop"]>> ELSE <<>>) \o
                     (IF f.vlan # 0 THEN <<[op |-> "push", vlan |-> f.vlan]>> ELSE <<>>)
        set(x) == IF f[x] = c.base[x] THEN <<>> ELSE <<Set(x, f[x])>>
    IN  [c EXCEPT !.odp = @ \o tags \o set("ttl") \o set("prio"),
                  !.base.vlan = f.vlan, !.base.ttl = f.ttl, !.base.prio = f.prio]
commit_odp_tunnel_action(c) ==
    [c EXCEPT !.odp = IF c.flow.tun = c.base.tun THEN @ ELSE Append(@, Set("tun", c.flow.tun)),
              !.base.tun = c.flow.tun]

(* The part of compose_output_action__ for ports that are not patch ports. *)
EmitOutput(c, p) ==
    LET c1 == commit_odp_actions(IF p \in Tunnels THEN commit_odp_tunnel_action(c) ELSE c)
    IN  [c1 EXCEPT !.odp = Append(@, Out(p)), !.n_outputs = @ + 1]

(* xlate_table_action on the context c; todo is what its caller does next. *)
xlate_table_action_NoLimit(c, in_port, table, may_packet_in, todo) ==
    LET found == rule_dpif_lookup(c.ofproto, in_port, table)
        rule == IF found = {} /\ may_packet_in THEN {Miss} ELSE found
    IN  \/ rule = {} /\ Continue(c, todo)
        \/ \E r \in rule :
             /\ ctx' = [c EXCEPT !.table_id = table, !.rule = r, !.recurse = @ + 1]
             /\ stack' = Append(WithTodo(todo), Frame(r, c.rule, c.table_id))
             /\ evictable' = [evictable EXCEPT ![r] = FALSE]
             /\ UNCHANGED <<prog, stp, packet, live, phase>>
xlate_table_action(c, in_port, table, may_packet_in, todo) ==
    LET found == rule_dpif_lookup(c.ofproto, in_port, table)
        rule == IF found = {} /\ may_packet_in THEN {Miss} ELSE found
        deep == c.recurse >= MAX_RESUBMIT_RECURSION
    IN  \/ deep /\ Continue([c EXCEPT !.trigger = TRUE], todo)
        \/ ~deep /\ rule = {} /\ Continue(c, todo)
        \/ ~deep /\ \E r \in rule :
             /\ ctx' = [c EXCEPT !.table_id = table, !.rule = r, !.recurse = @ + 1]
             /\ stack' = Append(WithTodo(todo), Frame(r, c.rule, c.table_id))
             /\ evictable' = [evictable EXCEPT ![r] = FALSE]
             /\ UNCHANGED <<prog, stp, packet, live, phase>>

(* compose_output_action__.  A patch port hands the packet to the peer     *)
(* bridge without its metadata; if STP does not forward there, what the    *)
(* peer emits is undone.                                                   *)
compose_output_action(c, p, check_stp, todo) ==
    LET peer == peer_of[p]
        c1 == [c EXCEPT !.ofproto = bridge_of[peer], !.flow.in_port = peer,
                        !.flow.tun = 0, !.flow.reg = None]
        done == [op |-> "peer_done", flow |-> c.flow, ofproto |-> c.ofproto,
                 undo |-> ~stp_forward_in_state(stp[peer]),
                 base |-> c.base, odp |-> c.odp]
        skip == bridge_of[p] # c.ofproto \/ (check_stp /\ ~stp_forward_in_state(stp[p]))
    IN  CASE skip -> Continue(c, todo)
          [] ~skip /\ peer = None -> Continue(EmitOutput(c, p), todo)
          [] ~skip /\ peer # None /\ process_special(bridge_of[peer]) ->
               Continue([c EXCEPT !.slow = "special"], todo)
          [] ~skip /\ peer # None /\ ~process_special(bridge_of[peer]) /\ ~may_receive(peer) ->
               Continue(c, todo)
          [] OTHER -> xlate_table_action(c1, peer, 0, TRUE, <<done>> \o todo)

PeerDone_KeepsBase ==
    /\ At("peer_done")
    /\ LET c == [ctx EXCEPT !.flow = a.flow, !.ofproto = a.ofproto]
       IN  Continue(IF a.undo THEN [c EXCEPT !.odp = a.odp] ELSE c, Rest)
PeerDone ==
    /\ At("peer_done")
    /\ LET c == [ctx EXCEPT !.flow = a.flow, !.ofproto = a.ofproto]
       IN  Continue(IF a.undo THEN [c EXCEPT !.base = a.base, !.odp = a.odp] ELSE c, Rest)

-----------------------------------------------------------------------------
(* xlate_output_action: to a port, back to the input port, to table 0.     *)
Output ==
    /\ At("output")
    /\ IF a.port = ctx.flow.in_port THEN Continue(ctx, Rest)
       ELSE compose_output_action(ctx, a.port, TRUE, Rest)
OutputInPort == At("in_port") /\ compose_output_action(ctx, ctx.flow.in_port, TRUE, Rest)
OutputTable == At("table") /\ xlate_table_action(ctx, ctx.flow.in_port, 0, TRUE, Rest)

(* flood_packets: all, or those with STP forwarding.                       *)
flood_packets ==
    /\ At("flood") \/ At("all")
    /\ LET ports == SetToSeq({p \in Ports : bridge_of[p] = ctx.ofproto} \ {ctx.flow.in_port})
           todo == [i \in DOMAIN ports |->
                      [op |-> "compose", port |-> ports[i], check_stp |-> a.op = "flood"]]
       IN  Continue(ctx, todo \o Rest)
FloodNext == At("compose") /\ compose_output_action(ctx, a.port, a.check_stp, Rest)

execute_controller_action ==
    /\ At("controller")
    /\ Continue([ctx EXCEPT !.slow = "controller"], Rest)

(* xlate_enqueue_action: the priority is that of the queue for one output. *)
xlate_enqueue_action ==
    /\ At("enqueue")
    /\ IF a.port = ctx.flow.in_port THEN Continue(ctx, Rest)
       ELSE compose_output_action([ctx EXCEPT !.flow.prio = a.queue], a.port, TRUE,
                                  <<[op |-> "enqueued", prio |-> ctx.flow.prio]>> \o Rest)
Enqueued_Keeps == At("enqueued") /\ Continue(ctx, Rest)
Enqueued == At("enqueued") /\ Continue([ctx EXCEPT !.flow.prio = a.prio], Rest)

(* The actions that set a field; pop_queue sets the original priority.     *)
SetField == At("set") /\ Continue([ctx EXCEPT !.flow[a.field] = a.value], Rest)

xlate_output_reg_action ==
    /\ At("output_reg")
    /\ IF ctx.flow.reg \in {None, ctx.flow.in_port} THEN Continue(ctx, Rest)
       ELSE compose_output_action(ctx, ctx.flow.reg, TRUE, Rest)

xlate_ofpact_resubmit_Tail ==
    LET found == rule_dpif_lookup(ctx.ofproto, ctx.flow.in_port,
                                  IF a.table = 255 THEN ctx.table_id ELSE a.table)
    IN  /\ At("resubmit")
        /\ IF found = {} THEN Continue(ctx, Rest)
           ELSE Continue([ctx EXCEPT !.rule = Only(found), !.table_id = place[Only(found)].table],
                         prog[Only(found)])
xlate_ofpact_resubmit ==
    /\ At("resubmit")
    /\ xlate_table_action(ctx, IF a.in_port = None THEN ctx.flow.in_port ELSE a.in_port,
                          IF a.table = 255 THEN ctx.table_id ELSE a.table, FALSE, Rest)

(* compose_dec_ttl: a packet at the end of its life goes to the controller *)
(* and the rest of the actions is skipped.                                 *)
compose_dec_ttl ==
    /\ At("dec_ttl")
    /\ IF ctx.flow.ttl > 1 THEN Continue([ctx EXCEPT !.flow.ttl = @ - 1], Rest)
       ELSE Continue([ctx EXCEPT !.slow = "controller"], <<>>)

xlate_sample_action ==
    /\ At("sample")
    /\ Continue([commit_odp_actions(ctx) EXCEPT !.odp = Append(@, [op |-> "sample"])], Rest)

ExitAction == At("exit") /\ Continue([ctx EXCEPT !.exit = TRUE], Rest)

(* xlate_learn_action adds a rule, for which a full table evicts another.  *)
(* Eviction obeys the flag of the rule in the table: in the enclave that   *)
(* is a flag of its own, which translation does not change.                *)
xlate_learn_action ==
    LET full == {r \in live : place[r].bridge = place[Learned].bridge
                              /\ place[r].table = place[Learned].table}
    IN  /\ At("learn")
        /\ ctx' = ctx /\ stack' = WithTodo(Rest)
        /\ \/ Learned \in live /\ UNCHANGED live
           \/ /\ Learned \notin live /\ Cardinality(full) < MaxFlows
              /\ live' = live \cup {Learned}
           \/ /\ Learned \notin live /\ Cardinality(full) >= MaxFlows
              /\ LET victims == {r \in full : Sgx \/ evictable[r]}
                 IN  \/ victims = {} /\ UNCHANGED live
                     \/ \E r \in victims : live' = (live \ {r}) \cup {Learned}
        /\ UNCHANGED <<prog, stp, packet, evictable, phase>>

(* OFPACT_GOTO_TABLE: the new rule takes the place of the old one in the   *)
(* same call; the old one may be evicted again.                            *)
GotoTable_Forgets ==
    LET found == rule_dpif_lookup(ctx.ofproto, ctx.flow.in_port, a.table)
    IN  /\ At("goto")
        /\ \E r \in IF found = {} THEN {Miss} ELSE found :
             /\ ctx' = [ctx EXCEPT !.table_id = a.table, !.rule = r]
             /\ stack' = [stack EXCEPT ![Len(stack)].todo = prog[r],
                                       ![Len(stack)].was_evictable = evictable[r]]
             /\ evictable' = [evictable EXCEPT ![r] = FALSE]
        /\ UNCHANGED <<prog, stp, packet, live, phase>>
GotoTable_Unguarded ==
    LET found == rule_dpif_lookup(ctx.ofproto, ctx.flow.in_port, a.table)
    IN  /\ At("goto")
        /\ \E r \in IF found = {} THEN {Miss} ELSE found :
             /\ ctx' = [ctx EXCEPT !.table_id = a.table, !.rule = r]
             /\ stack' = [stack EXCEPT ![Len(stack)].todo = prog[r],
                                       ![Len(stack)].was_evictable = evictable[r]]
             /\ evictable' = [evictable EXCEPT ![ctx.rule] = Top.was_evictable]
        /\ UNCHANGED <<prog, stp, packet, live, phase>>
GotoTable ==
    LET found == rule_dpif_lookup(ctx.ofproto, ctx.flow.in_port, a.table)
        freed == [evictable EXCEPT ![ctx.rule] = Top.was_evictable]
    IN  /\ At("goto")
        /\ \E r \in IF found = {} THEN {Miss} ELSE found :
             /\ ctx' = [ctx EXCEPT !.table_id = a.table, !.rule = r]
             /\ stack' = [stack EXCEPT ![Len(stack)].todo = prog[r],
                                       ![Len(stack)].was_evictable = freed[r]]
             /\ evictable' = [freed EXCEPT ![r] = FALSE]
        /\ UNCHANGED <<prog, stp, packet, live, phase>>

(* The end of do_xlate_actions, and of xlate_table_action around it.       *)
Return_KeepsTable ==
    /\ Running /\ Over
    /\ evictable' = [evictable EXCEPT ![ctx.rule] = Top.was_evictable]
    /\ stack' = Front(stack)
    /\ ctx' = IF Len(stack) = 1 THEN ctx
              ELSE [ctx EXCEPT !.rule = Top.old_rule, !.recurse = @ - 1]
    /\ UNCHANGED <<prog, stp, packet, live, phase>>
Return ==
    /\ Running /\ Over
    /\ evictable' = [evictable EXCEPT ![ctx.rule] = Top.was_evictable]
    /\ stack' = Front(stack)
    /\ ctx' = IF Len(stack) = 1 THEN ctx
              ELSE [ctx EXCEPT !.rule = Top.old_rule, !.table_id = Top.old_table,
                               !.recurse = @ - 1]
    /\ UNCHANGED <<prog, stp, packet, live, phase>>

(* The end of xlate_actions: what a port that only learns has emitted is   *)
(* dropped, then mirrors get the packet as it was received.                *)
Finish ==
    LET drop == ~stp_forward_in_state(stp[packet.in_port])
        c1 == IF drop THEN [ctx EXCEPT !.odp = <<>>] ELSE ctx
        flow == [ctx.flow EXCEPT !.in_port = packet.in_port, !.vlan = packet.vlan,
                                 !.ttl = packet.ttl, !.prio = 0, !.tun = 0, !.reg = None]
    IN  /\ phase = "run" /\ stack = <<>>
        /\ ctx' = IF MirrorPort = None \/ ~stp_forward_in_state(stp[MirrorPort]) THEN c1
                  ELSE EmitOutput([c1 EXCEPT !.flow = flow], MirrorPort)
        /\ phase' = "done"
        /\ UNCHANGED <<prog, stp, packet, stack, live, evictable>>

Next ==
    \/ xlate_actions \/ Output \/ OutputInPort \/ OutputTable \/ flood_packets \/ FloodNext
    \/ execute_controller_action \/ xlate_enqueue_action \/ Enqueued \/ SetField
    \/ xlate_output_reg_action \/ xlate_ofpact_resubmit \/ compose_dec_ttl
    \/ xlate_sample_action \/ ExitAction \/ xlate_learn_action \/ GotoTable
    \/ PeerDone \/ Return \/ Finish

Spec == Init /\ [][Next]_vars /\ WF_vars(Next)

-----------------------------------------------------------------------------
TypeOK ==
    /\ live \subseteq Rules /\ evictable \in [AllRules -> BOOLEAN]
    /\ Len(stack) <= MAX_RESUBMIT_RECURSION + 1 /\ ctx.recurse \in 0 .. MAX_RESUBMIT_RECURSION
    /\ ctx.flow.in_port \in Ports

(* What the datapath does with actions: changes the packet and sends it.   *)
Datapath(actions) ==
    LET start == [tags |-> IF packet.vlan = 0 THEN <<>> ELSE <<packet.vlan>>, ttl |-> packet.ttl,
                  prio |-> 0, tun |-> 0, sent |-> <<>>]
        do(s, x) ==
          CASE x.op = "push" -> [s EXCEPT !.tags = <<x.vlan>> \o @]
            [] x.op = "pop" -> [s EXCEPT !.tags = IF @ = <<>> THEN <<>> ELSE Tail(@)]
            [] x.op = "set" -> [s EXCEPT ![x.field] = x.value]
            [] x.op = "out" -> [s EXCEPT !.sent = Append(@,
                 [port |-> x.port, tags |-> s.tags, ttl |-> s.ttl, prio |-> s.prio,
                  tun |-> IF x.port \in Tunnels THEN s.tun ELSE 0])]
            [] OTHER -> s
    IN  FoldLeft(do, start, actions)

(* What OpenFlow asks to be sent, as a recursive function of the actions.  *)
(* f is the packet with its bridge and table, d the depth of resubmits.    *)
Seen(p, f) ==
    [port |-> p, tags |-> IF f.vlan = 0 THEN <<>> ELSE <<f.vlan>>, ttl |-> f.ttl, prio |-> f.prio,
     tun |-> IF p \in Tunnels THEN f.tun ELSE 0]
Nothing(f) == [sent |-> <<>>, f |-> f, exit |-> FALSE, stop |-> FALSE]

RECURSIVE Asked(_, _, _)
Asked(acts, f, d) ==
    LET rule(b, in_port, t) == rule_dpif_lookup(b, in_port, t)
        run(g, in_port, t) ==
          LET e == Asked(prog[Only(rule(g.bridge, in_port, t))], [g EXCEPT !.table = t], d + 1)
          IN  IF d >= MAX_RESUBMIT_RECURSION \/ rule(g.bridge, in_port, t) = {} THEN Nothing(g)
              ELSE [e EXCEPT !.f.table = g.table, !.stop = FALSE]
        send(g, p, check_stp) ==
          LET q == peer_of[p]
              e == run([g EXCEPT !.bridge = bridge_of[q], !.in_port = q, !.tun = 0, !.reg = None],
                       q, 0)
          IN  CASE bridge_of[p] # g.bridge \/ (check_stp /\ ~stp_forward_in_state(stp[p])) ->
                     Nothing(f)
                [] peer_of[p] = None -> [Nothing(f) EXCEPT !.sent = <<Seen(p, g)>>]
                [] ~may_receive(peer_of[p]) -> Nothing(f)
                [] OTHER -> [Nothing(f) EXCEPT !.exit = e.exit, !.sent =
                               IF stp_forward_in_state(stp[q]) THEN e.sent ELSE <<>>]
        both(x, p, check_stp) ==
          LET e == send(f, p, check_stp)
          IN  [x EXCEPT !.sent = @ \o e.sent, !.exit = @ \/ e.exit]
        act == Head(acts)
        one ==
          CASE act.op \in {"output", "enqueue"} ->
                 IF act.port = f.in_port THEN Nothing(f)
                 ELSE send(IF act.op = "output" THEN f ELSE [f EXCEPT !.prio = act.queue],
                           act.port, TRUE)
            [] act.op = "output_reg" ->
                 IF f.reg \in {None, f.in_port} THEN Nothing(f) ELSE send(f, f.reg, TRUE)
            [] act.op = "in_port" -> send(f, f.in_port, TRUE)
            [] act.op = "table" -> run(f, f.in_port, 0)
            [] act.op = "resubmit" ->
                 run(f, IF act.in_port = None THEN f.in_port ELSE act.in_port,
                     IF act.table = 255 THEN f.table ELSE act.table)
            [] act.op \in {"flood", "all"} ->
                 FoldLeft(LAMBDA x, p : both(x, p, act.op = "flood"), Nothing(f),
                          SetToSeq({p \in Ports : bridge_of[p] = f.bridge} \ {f.in_port}))
            [] act.op = "set" -> Nothing([f EXCEPT ![act.field] = act.value])
            [] act.op = "dec_ttl" ->
                 IF f.ttl > 1 THEN Nothing([f EXCEPT !.ttl = @ - 1])
                 ELSE [Nothing(f) EXCEPT !.stop = TRUE]
            [] act.op = "exit" -> [Nothing(f) EXCEPT !.exit = TRUE]
            [] act.op = "goto" ->
                 IF rule(f.bridge, f.in_port, act.table) = {} THEN Nothing(f)
                 ELSE Asked(prog[Only(rule(f.bridge, f.in_port, act.table))],
                            [f EXCEPT !.table = act.table], d)
            [] OTHER -> Nothing(f)
        more == Asked(Tail(acts), one.f, d)
    IN  IF acts = <<>> THEN Nothing(f)
        ELSE IF one.exit \/ one.stop THEN one
        ELSE [more EXCEPT !.sent = one.sent \o @]

(* The datapath sends what OpenFlow asks for: every output of the actions, *)
(* across resubmits, queues and patch ports whose changes are undone, has  *)
(* the packet as it was at that point (ofproto-dpif.c:6197-6342).          *)
SendsAsAsked ==
    LET b == bridge_of[packet.in_port]
        f == [bridge |-> b, table |-> 0, in_port |-> packet.in_port, vlan |-> packet.vlan,
              ttl |-> packet.ttl, prio |-> 0, tun |-> 0, reg |-> None]
        asked == IF ~stp_forward_in_state(stp[packet.in_port]) THEN <<>>
                 ELSE Asked(prog[Only(rule_dpif_lookup(b, packet.in_port, 0))], f, 0).sent
        mirrored == IF MirrorPort # None /\ stp_forward_in_state(stp[MirrorPort])
                    THEN <<Seen(MirrorPort, f)>> ELSE <<>>
    IN  phase = "done" => Datapath(ctx.odp).sent = asked \o mirrored

(* Actions run in the context of their rule: bridge and table are the      *)
(* rule's, whatever inner levels did, so a goto_table always goes forward  *)
(* as do_xlate_actions asserts (ofproto-dpif.c:6420-6468, 7200).           *)
ContextOfRule ==
    Running /\ Top.todo # <<>> /\ a.op \notin Internal /\ ctx.rule # Miss =>
        /\ place[ctx.rule].bridge = ctx.ofproto
        /\ place[ctx.rule].table = ctx.table_id
        /\ a.op = "goto" /\ ~ctx.exit => ctx.table_id < a.table

RulesInUse == ({ctx.rule} \cup {stack[i].old_rule : i \in 2 .. Len(stack)}) \ {None, Miss}

(* "Don't let the rule we're working on get evicted underneath us"         *)
(* (ofproto-dpif.c:6973): the rules of all active calls are in the table.  *)
NotEvicted == stack # <<>> => RulesInUse \subseteq live

(* Translation leaves no rule protected: when it is over every rule in the *)
(* table can be evicted again (ofproto-dpif.c:7212-7218, 7235-7237).       *)
EvictableAgain == stack = <<>> => \A r \in live \cup {Miss} : evictable[r]

(* Resubmits between rules and patch ports between bridges may form        *)
(* loops; translation ends all the same (ofproto-dpif.c:6426, 6462).       *)
Ends == <>(phase = "done")

(* "ovs_assert(!ctx->xout->slow || ctx->xout->slow == SLOW_CONTROLLER)"    *)
(* (ofproto-dpif.c:6520) in execute_controller_action.                     *)
SlowIsController == At("controller") => ctx.slow \in {"no", "controller"}

(* "Flow at the last commit." (ofproto-dpif.c:325): the datapath actions   *)
(* emitted so far turn the received packet into base_flow.                 *)
BaseIsLastCommit ==
    ctx.odp # <<>> =>
        LET d == Datapath(ctx.odp)
            b == ctx.base
        IN  /\ d.tags = IF b.vlan = 0 THEN <<>> ELSE <<b.vlan>>
            /\ d.ttl = b.ttl /\ d.prio = b.prio
=============================================================================
