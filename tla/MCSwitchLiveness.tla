-------------------------- MODULE MCSwitchLiveness --------------------------
(***************************************************************************)
(* What has to happen in the switch in the end, under the fairness that    *)
(* its components state: flow tables (FlowTable), revalidation             *)
(* (Revalidation), upcalls (Upcalls), ports (Ports) and the translation of *)
(* actions (Translate).                                                    *)
(*                                                                         *)
(* The components share no state in these modules. A behaviour is about    *)
(* one of them, its subject, and the others stay in their initial states.  *)
(***************************************************************************)
EXTENDS Integers, Sequences, TLC

CONSTANT Off   \* the state of components at rest
CONSTANTS None, r0, r1, r2, ka, kb, dv1, dv2, p, a1, a2, tun, p1, p2, pa, pb, p3, rb, miss

VARIABLE subject   \* the component, or instance of one, that this behaviour is about
VARIABLES ft_rules, cls, nodes, evg, expirable, ft_pending, ft_aborted, reply, ft_state,
    limit, grouped, ft_clogged
VARIABLES rv_rules, cls_table, catchall, other, rv_need, tags, rv_facets, loop, freed_read,
    served_stale
VARIABLES ports, up_queue, dp, drop_keys, facets, subfacets, version, need, dangling, n_ops,
    moves
VARIABLES br, poll, up, changed, run, added, port_events
VARIABLES prog, stp, packet, ctx, stack, live, evictable, xl_phase

(* Key ka covers both keys loosely and overlaps kb.                         *)
CoveredBy(k) == IF k = ka THEN {ka, kb} ELSE {kb}
Differ(k, j) == k # j

Flow(i, j) == "a" :> i @@ "b" :> j

output(i) == [op |-> "output", port |-> i]
resubmit(n) == [op |-> "resubmit", in_port |-> None, table |-> n]
Op(name) == [op |-> name]
At(bridge, n) == [bridge |-> bridge, table |-> n, in_port |-> None]
Lists(S) == UNION {[1 .. k -> S] : k \in 0 .. 2}
Loops ==
    {r0 :> x @@ r1 :> y @@ rb :> z @@ miss :> <<Op("controller")>> :
        x \in Lists({resubmit(1), Op("table"), output(pa), output(p2)}),
        y \in Lists({resubmit(255), resubmit(0), output(pa), Op("exit")}),
        z \in {<<Op("in_port"), output(p3)>>, <<Op("in_port"), Op("in_port")>>}}

-----------------------------------------------------------------------------
(* One table of the vanilla build, with eviction, flushing and             *)
(* destruction.                                                            *)
Table == INSTANCE FlowTable WITH
    Build <- "vanilla", Rules <- {r0, r1, r2}, Keys <- {ka, kb}, Covers <- CoveredBy,
    Overlaps <- Differ, NTables <- 2, Internal <- r0, Limits <- {1}, Actions <- {p},
    Timeouts <- {TRUE}, BufSize <- 8, PendingLimit <- 2, MaxNodes <- 1, MayClog <- TRUE,
    rules <- ft_rules, pending <- ft_pending, aborted <- ft_aborted, state <- ft_state,
    clogged <- ft_clogged
tableVars == <<ft_rules, cls, nodes, evg, expirable, ft_pending, ft_aborted, reply,
    ft_state, limit, grouped, ft_clogged>>

-----------------------------------------------------------------------------
(* Two flows, one rule of each table.                                      *)
Reval == INSTANCE Revalidation WITH
    Optimized <- FALSE, Flows <- {Flow(0, 0), Flow(1, 0)}, Fields <- <<"a", "b">>,
    Rules0 <- {<<"low", 1>>}, Rules1 <- {<<"a", 0>>}, Outs <- {"x"}, Addrs <- {a1, a2},
    MaxRules <- 2, rules <- rv_rules, need <- rv_need, facets <- rv_facets
revalVars == <<rv_rules, cls_table, catchall, other, rv_need, tags, rv_facets, loop,
    freed_read, served_stale>>

-----------------------------------------------------------------------------
(* Upcalls from two keys, each of its own port and class, with deletions   *)
(* that fail.                                                              *)
Upcall == INSTANCE Upcalls WITH
    Keys <- {1, 4}, PortOf <- [k \in {1, 4} |-> IF k = 4 THEN 2 ELSE 1],
    FlowOf <- [k \in {1, 4} |-> k], ClassOf <- [f \in {1, 4} |-> IF f = 4 THEN 2 ELSE 1],
    MaxBatch <- 1, MaxQueue <- 1, DelFails <- TRUE, MaxLearned <- 0, MaxPorts <- 1,
    queue <- up_queue
upcallVars == <<ports, up_queue, dp, drop_keys, facets, subfacets, version, need, dangling,
    n_ops, moves>>

-----------------------------------------------------------------------------
(* Two devices that come, go and change their state, with notifications    *)
(* that are lost.                                                          *)
Port == INSTANCE Ports WITH
    Systems <- {dv1, dv2}, Patches <- {}, Tunnels <- {}, Local <- dv2, TunnelDev <- tun,
    MaxPorts <- 3, OdpPorts <- {1, 2}, Numbers <- {4}, Initial <- {{}}, Foreign <- TRUE,
    Readds <- FALSE, Fails <- FALSE, Toggles <- TRUE, MaxEvents <- 2, events <- port_events
portVars == <<br, poll, up, changed, run, added, port_events>>

-----------------------------------------------------------------------------
(* Translations that resubmit and cross a patch port in circles.           *)
Xlate == INSTANCE Translate WITH
    None <- None, Sgx <- FALSE, Ports <- {p1, p2, pa, pb, p3},
    bridge_of <- [i \in {p1, p2, pa, pb, p3} |-> IF i \in {pb, p3} THEN "B" ELSE "A"],
    peer_of <- p1 :> None @@ p2 :> None @@ pa :> pb @@ pb :> pa @@ p3 :> None,
    Tunnels <- {}, Miss <- miss, Rules <- {r0, r1, rb}, place <- r0 :> At("A",
    0) @@ r1 :> At("A", 1) @@ rb :> At("B", 0), Learned <- r2, Programs <- Loops,
    StpStates <- {[i \in {p1, p2, pa, pb, p3} |-> "disabled"]}, SpecialIn <- {},
    MirrorPort <- None, MaxFlows <- 1, MAX_RESUBMIT_RECURSION <- 2,
    Packets <- {[in_port |-> p1, vlan |-> 1, ttl |-> 2, control |-> FALSE]},
    phase <- xl_phase
xlateVars == <<prog, stp, packet, ctx, stack, live, evictable, xl_phase>>

-----------------------------------------------------------------------------
suiteVars == <<subject, tableVars, revalVars, upcallVars, portVars, xlateVars>>

(* One component moves; the others are at rest.                            *)
Subjects == {"table", "revalidation", "upcalls", "ports", "translations"}

TableInit == Table!Init
RevalInit == Reval!Init
UpcallInit == Upcall!Init
PortInit == Port!Init
XlateInit ==
    \/ subject = "translations" /\ Xlate!Init
    \/ subject # "translations" /\ prog = Off /\ stp = Off /\ packet = Off /\ ctx = Off
       /\ stack = Off /\ live = Off /\ evictable = Off /\ xl_phase = Off

SuiteInit ==
    /\ subject \in Subjects
    /\ TableInit /\ RevalInit /\ UpcallInit /\ PortInit /\ XlateInit

TableStep ==
    /\ subject = "table" /\ Table!Next
    /\ UNCHANGED <<subject, revalVars, upcallVars, portVars, xlateVars>>
RevalStep ==
    /\ subject = "revalidation" /\ Reval!Next
    /\ UNCHANGED <<subject, tableVars, upcallVars, portVars, xlateVars>>
UpcallStep ==
    /\ subject = "upcalls" /\ Upcall!Next
    /\ UNCHANGED <<subject, tableVars, revalVars, portVars, xlateVars>>
PortStep ==
    /\ subject = "ports" /\ Port!Next
    /\ UNCHANGED <<subject, tableVars, revalVars, upcallVars, xlateVars>>
XlateStep ==
    /\ subject = "translations" /\ Xlate!Next
    /\ UNCHANGED <<subject, tableVars, revalVars, upcallVars, portVars>>
(* Components whose work may come to an end.                               *)
Stop == subject \in {"table", "revalidation", "translations"} /\ UNCHANGED suiteVars

SuiteNext == TableStep \/ RevalStep \/ UpcallStep \/ PortStep \/ XlateStep \/ Stop

SuiteSpec == SuiteInit /\ [][SuiteNext]_suiteVars

(* The main loops keep running, controllers and peers go on reading, and   *)
(* operations complete: the fairness of each component, for the one that   *)
(* moves.                                                                  *)
Fairness ==
    /\ []<>(subject = "table" /\ Table!Running => reply = "ran" /\ ~ft_clogged)
    /\ WF_revalVars(subject = "revalidation" /\ (Reval!type_run({}) \/ Reval!RevalidateNext({})))
    /\ WF_upcallVars(subject = "upcalls" /\ \E failed \in Upcall!Failures : Upcall!type_run(failed))
    /\ SF_upcallVars(subject = "upcalls" /\ \E idle \in SUBSET {1, 4}, failed \in Upcall!Failures :
                                               Upcall!expire(idle, failed))
    /\ WF_portVars(subject = "ports" /\ Port!init_ports)
    /\ WF_portVars(subject = "ports" /\ Port!UpdateNext)
    /\ WF_portVars(subject = "ports" /\ Port!UpdateEnd)
    /\ WF_portVars(subject = "ports" /\ Port!process_port_change)
    /\ SF_portVars(subject = "ports" /\ Port!type_run)
    /\ SF_portVars(subject = "ports" /\ Port!ofproto_run)
    /\ WF_xlateVars(subject = "translations" /\ Xlate!Next)
SuiteFairSpec == SuiteSpec /\ Fairness

-----------------------------------------------------------------------------
(* Left to itself the switch catches up: evictions and flushes of the flow *)
(* tables end and it serves requests again, every flow that revalidation   *)
(* has to visit is visited, drop flows are removed, the ports are those of *)
(* the datapath, and every translation ends (ofproto.c:1348-1356, 5592,    *)
(* ofproto-dpif.c:983-1064, 4224, 6448).                                   *)
SwitchSettles ==
    /\ (subject = "table" => Table!ReturnsToOpenFlow)
    /\ (subject = "revalidation" => Reval!EventuallyCurrent)
    /\ (subject = "upcalls" => Upcall!DropsEnd)
    /\ (subject = "ports" => Port!Settles)
    /\ (subject = "translations" => Xlate!Ends)
=============================================================================
