------------------------------ MODULE MCRules -------------------------------
(***************************************************************************)
(* What surrounds the flow tables: eviction groups (EvictionGroups),       *)
(* requests that collect rules (Collect), the calls into the enclave       *)
(* (CallTable), one at a time and in batches, and the translation of a     *)
(* rule's actions (Translate).                                             *)
(*                                                                         *)
(* The components share no state in these modules. A behaviour is about    *)
(* one of them, its subject, and the others are at rest.                   *)
(*                                                                         *)
(* Translations happen on bridge A, with ports p1, p2, a tunnel tn and the *)
(* patch port pa to pb on bridge B, which has port p3.                     *)
(***************************************************************************)
EXTENDS CallSignatures, CallTable

CONSTANT Off   \* the state of components at rest
CONSTANTS None, p1, p2, tn, pa, pb, p3, r0, r1, rb, r2, miss

VARIABLE subject   \* the component, or instance of one, that this behaviour is about
VARIABLES table, evict_due, out
VARIABLE order
VARIABLES prog, stp, packet, ctx, stack, live, evictable, phase

Ordinary == [loose |-> TRUE, exact |-> FALSE, hidden |-> FALSE, passes |-> TRUE, pending |-> FALSE,
             expires |-> TRUE]
AllShapes ==
    {Ordinary, [Ordinary EXCEPT !.hidden = TRUE], [Ordinary EXCEPT !.passes = FALSE, !.expires = FALSE],
     [Ordinary EXCEPT !.exact = TRUE], [Ordinary EXCEPT !.loose = FALSE], [Ordinary EXCEPT !.pending = TRUE]}

(* The wrappers that have a case of their own and return what it stores.   *)
Matched == AllCalls \ {"ecall_cls_rules_format", "ecall_miniflow_expand_and_tag"}

(* The tables of CallSignatures, evaluated once.                           *)
TypeTable == Types
WrapperTable == Wrapper
CaseTable == Cases

(* Rules r0 and rb are in table 0 of bridges A and B, r1 in table 1.       *)
XlatePorts == {p1, p2, tn, pa, pb, p3}
Bridge == [i \in XlatePorts |-> IF i \in {pb, p3} THEN "B" ELSE "A"]
Peer == [i \in XlatePorts |-> CASE i = pa -> pb [] i = pb -> pa [] OTHER -> None]
At(bridge, n) == [bridge |-> bridge, table |-> n, in_port |-> None]
Place == r0 :> At("A", 0) @@ rb :> At("B", 0) @@ r1 :> At("A", 1) @@ r2 :> At("A", 1)
PlaceApart == [Place EXCEPT ![r2].table = 2]
NoStp == [i \in XlatePorts |-> "disabled"]
OneStp == {NoStp} \cup {[NoStp EXCEPT ![i] = s] : i \in {p1, p2, pb}, s \in {"blocking", "learning"}}

output(i) == [op |-> "output", port |-> i]
enqueue(i) == [op |-> "enqueue", port |-> i, queue |-> 1]
resubmit(i, n) == [op |-> "resubmit", in_port |-> i, table |-> n]
goto(n) == [op |-> "goto", table |-> n]
set(f, v) == [op |-> "set", field |-> f, value |-> v]
Op(name) == [op |-> name]

(* Action lists of at most n actions; goto-table is the last action.       *)
Lists(S, n) ==
    {s \in UNION {[1 .. k -> S] : k \in 0 .. n} : \A i \in DOMAIN s : s[i].op = "goto" => i = Len(s)}
Assign(S0, S1, SB) ==
    {r0 :> s0 @@ r1 :> s1 @@ rb :> sb @@ miss :> <<Op("controller")>> @@ r2 :> <<>> :
        s0 \in S0, s1 \in S1, sb \in SB}
Flat ==
    Assign(Lists({set("vlan", 0), set("vlan", 2), output(p2), enqueue(p2), resubmit(None, 1), goto(1),
                  Op("exit")}, 3),
           Lists({set("prio", 2), resubmit(None, 255), output(p2), Op("dec_ttl")}, 2),
           {<<>>})
    \cup
    Assign(Lists({set("tun", 1), set("reg", p2), set("reg", pa), output(tn), Op("output_reg"),
                  Op("table"), Op("sample"), Op("learn"), resubmit(p2, 1), resubmit(None, 2)}, 3),
           {<<>>, <<set("tun", 2), output(tn)>>},
           {<<Op("output_reg"), output(p3)>>, <<Op("controller")>>})
PatchOutputs ==
    Assign(Lists({set("vlan", 2), output(pa), enqueue(pa), output(p2), Op("flood"), Op("all")}, 2),
           {<<>>},
           Lists({set("vlan", 0), output(p3), Op("in_port"), Op("exit")}, 2))
Learns ==
    Assign(Lists({resubmit(None, 1), Op("learn"), goto(1), output(p2)}, 3),
           Lists({Op("learn"), resubmit(None, 255), resubmit(None, 0), output(p2)}, 2), {<<>>})

-----------------------------------------------------------------------------
(* Eviction groups: two of two rules when rules are grouped by the field,  *)
(* one of four, beyond the cap, when not. 255 is the limit of a table      *)
(* without one.                                                            *)
Groups == INSTANCE EvictionGroups WITH
    KeySeq <- <<<<"a", 1>>, <<"b", 1>>, <<"a", 2>>, <<"b", 2>>>>, EvPriorities <- {1, 2},
    Limits <- {1, 255}, SizeCap <- 2, Randoms <- {0, 1}, IntBits <- 8
groupsVars == <<table, evict_due, out>>

-----------------------------------------------------------------------------
(* Requests for rules: rules of every kind that a request distinguishes,   *)
(* in two visible tables and the hidden one, more of them than the buffers *)
(* hold.                                                                   *)
Requests == INSTANCE Collect WITH
    NTables <- 3, MaxRules <- 3, Shapes <- AllShapes, LooseBuf <- 2, StatsBuf <- 1,
    EvictBuf <- 1
requestsVars == <<order>>

-----------------------------------------------------------------------------
-----------------------------------------------------------------------------
(* Translations: resubmits and the other actions that change the context,  *)
(* output to a patch port, and learn actions on a full table.              *)
XlateCases ==
    [resubmits |-> [place |-> PlaceApart, Programs |-> Flat, StpStates |-> {NoStp},
          MirrorPort |-> tn, MAX_RESUBMIT_RECURSION |-> 3],
     patches |-> [place |-> Place, Programs |-> PatchOutputs, StpStates |-> OneStp,
          MirrorPort |-> None, MAX_RESUBMIT_RECURSION |-> 2],
     learns |-> [place |-> Place, Programs |-> Learns, StpStates |-> {NoStp},
          MirrorPort |-> None, MAX_RESUBMIT_RECURSION |-> 2]]
Xlate(c) == INSTANCE Translate WITH
    place <- c.place, Programs <- c.Programs, StpStates <- c.StpStates,
    MirrorPort <- c.MirrorPort, MAX_RESUBMIT_RECURSION <- c.MAX_RESUBMIT_RECURSION,
    None <- None, Sgx <- FALSE, Ports <- XlatePorts, bridge_of <- Bridge, peer_of <- Peer,
    Tunnels <- {tn}, Miss <- miss, Rules <- {r0, r1, rb, r2}, Learned <- r2, MaxFlows <- 1,
    SpecialIn <- {}, Packets <- {[in_port |-> p1, vlan |-> 1, ttl |-> 2, control |-> FALSE]}
xlateVars == <<prog, stp, packet, ctx, stack, live, evictable, phase>>

-----------------------------------------------------------------------------
suiteVars == <<subject, groupsVars, requestsVars, callVars, xlateVars>>

(* One component moves; the others are at rest.                            *)
Subjects == {"groups", "requests", "calls", "batches"} \cup DOMAIN XlateCases

GroupsInit ==
    \/ subject = "groups" /\ Groups!Init
    \/ subject # "groups" /\ table = Off /\ evict_due = Off /\ out = Off
RequestsInit ==
    \/ subject = "requests" /\ Requests!Init
    \/ subject # "requests" /\ order = Off
XlateInit ==
    \/ \E s \in DOMAIN XlateCases : subject = s /\ Xlate(XlateCases[s])!Init
    \/ subject \notin DOMAIN XlateCases /\ prog = Off /\ stp = Off /\ packet = Off
       /\ ctx = Off /\ stack = Off /\ live = Off /\ evictable = Off /\ phase = Off

SuiteInit ==
    /\ subject \in Subjects
    /\ GroupsInit /\ RequestsInit /\ CallsInit /\ XlateInit
    /\ batching = (subject = "batches")

GroupsStep ==
    /\ subject = "groups" /\ Groups!Next
    /\ UNCHANGED <<subject, requestsVars, callVars, xlateVars>>
RequestsStep ==
    /\ subject = "requests" /\ Requests!Next
    /\ UNCHANGED <<subject, groupsVars, callVars, xlateVars>>
(* Every wrapper that has a case of its own and returns what it stores,    *)
(* waiting for each; and a BATCHING build, in which one of them waits.     *)
CallsStep ==
    /\ subject = "calls" /\ CallsNext
    /\ UNCHANGED <<subject, groupsVars, requestsVars, xlateVars>>
BatchesStep ==
    /\ subject = "batches"
    /\ \/ sgx_ofproto_init_tables /\ Len(bridges'.ids) = 1
       \/ HCALL_sync("ecall_oftable_cls_count")
       \/ \E id \in Calls : HCALL_async(id)
    /\ UNCHANGED <<subject, groupsVars, requestsVars, xlateVars>>
XlateStep ==
    /\ \E s \in DOMAIN XlateCases : subject = s /\ Xlate(XlateCases[s])!Next
    /\ UNCHANGED <<subject, groupsVars, requestsVars, callVars>>
(* Components whose work may come to an end.                               *)
Stop == subject \in {"resubmits", "patches", "learns"} /\ UNCHANGED suiteVars

SuiteNext == GroupsStep \/ RequestsStep \/ CallsStep \/ BatchesStep \/ XlateStep \/ Stop

SuiteSpec == SuiteInit /\ [][SuiteNext]_suiteVars

-----------------------------------------------------------------------------
(* Every evictable rule is in the one group of its field values and in its *)
(* heap, and the rule that a table offers for eviction is the first to     *)
(* expire of a largest group, also after ofproto_evict took rules out and  *)
(* filed them again (eviction.c:19-138, 203-239).                          *)
EvictionFair ==
    /\ [](subject = "groups" => Groups!TypeOK)
    /\ [](subject = "groups" => Groups!GroupsPartition)
    /\ [](subject = "groups" => Groups!VictimIsFair)
    /\ [][subject = "groups" => Groups!FairOffer]_groupsVars

(* A request that collects rules through buffers of fixed size gets every  *)
(* rule it asks for, in calls that count and fill alike                    *)
(* (ofproto.c:2944-3047, 5954-6016, oftable.c:190-219, 497-529).           *)
RequestsAnswered ==
    /\ subject = "requests" => Requests!LooseAgrees
    /\ subject = "requests" => Requests!BuffersHold
    /\ subject = "requests" => Requests!EvictionCoversTable

(* A packet is sent as the actions say; table, input port, base flow and   *)
(* evictability are those of the rule whose actions are translated, and    *)
(* are restored on every way back from resubmits, patch ports and learn    *)
(* actions (ofproto-dpif.c:6197-6468, 6973, 7200-7237).                    *)
TranslationSound ==
    /\ \A s \in DOMAIN XlateCases : subject = s => Xlate(XlateCases[s])!TypeOK
    /\ \A s \in {"resubmits", "patches"} : subject = s => Xlate(XlateCases[s])!SendsAsAsked
    /\ \A s \in {"resubmits"} : subject = s => Xlate(XlateCases[s])!ContextOfRule
    /\ \A s \in {"patches"} : subject = s => Xlate(XlateCases[s])!BaseIsLastCommit
    /\ \A s \in {"learns"} : subject = s => Xlate(XlateCases[s])!NotEvicted
    /\ \A s \in {"learns"} : subject = s => Xlate(XlateCases[s])!EvictableAgain
=============================================================================
