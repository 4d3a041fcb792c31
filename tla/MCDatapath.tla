----------------------------- MODULE MCDatapath -----------------------------
(***************************************************************************)
(* ofproto-dpif between the flow tables and the datapath: cached           *)
(* translations and their revalidation (Revalidation), facets and their    *)
(* statistics (Facets), upcalls and drop keys (Upcalls), and timeouts      *)
(* (Timeouts).                                                             *)
(*                                                                         *)
(* The components share no state in these modules. A behaviour is about    *)
(* one of them, its subject, and the others are at rest.                   *)
(***************************************************************************)
EXTENDS Naturals, Sequences, TLC

CONSTANT Off   \* the state of components at rest
CONSTANTS a1, a2, a3, k1, k2, r1, r2

VARIABLE subject   \* the component, or instance of one, that this behaviour is about
VARIABLES rules, cls_table, catchall, other, rv_need, tags, rv_facets, loop, freed_read,
    served_stale
VARIABLES table, acts, need, rule_packets, facets, subfacets, dp, upcalls, expiring,
    arrived, discarded, uncounted
VARIABLES ports, queue, up_dp, drop_keys, up_facets, up_subfacets, version, up_need,
    dangling, n_ops, moves
VARIABLES now, push_timer, next_expiration, rule, facet, to_dp, ran, traffic, resumed,
    settled, gone

Flow(x, y) == [i \in {"a", "b"} |-> IF i = "a" THEN x ELSE y]
TwoFlows == {Flow(0, 0), Flow(1, 0)}
AllRules1 == {<<"any", 0>>, <<"a", 0>>, <<"a", 1>>, <<"b", 0>>}

-----------------------------------------------------------------------------
(* Cached translations: rules on either field, on both values of one of    *)
(* them and on none; a single flow, with two rules of table 0, read        *)
(* through the addresses of classifier tables; and deletions in one call.  *)
RevalCases ==
    [revalidation |-> [Optimized |-> FALSE, Flows |-> TwoFlows, Rules0 |-> {<<"low", 1>>},
          Rules1 |-> AllRules1],
     pointers |-> [Optimized |-> FALSE, Flows |-> {Flow(0, 0)},
          Rules0 |-> {<<"low", 1>>, <<"high", 2>>}, Rules1 |-> AllRules1],
     deletions |-> [Optimized |-> TRUE, Flows |-> {Flow(0, 0)},
          Rules0 |-> {<<"low", 1>>, <<"high", 2>>}, Rules1 |-> AllRules1 \ {<<"a", 1>>}]]
Reval(c) == INSTANCE Revalidation WITH
    Optimized <- c.Optimized, Flows <- c.Flows, Rules0 <- c.Rules0, Rules1 <- c.Rules1,
    Fields <- <<"a", "b">>, Outs <- {"x"}, Addrs <- {a1, a2, a3}, MaxRules <- 3,
    need <- rv_need, facets <- rv_facets
revalVars == <<rules, cls_table, catchall, other, rv_need, tags, rv_facets, loop,
    freed_read, served_stale>>

-----------------------------------------------------------------------------
(* Two keys of one flow, as when vlan splinters or a lossy key map them,   *)
(* with rules that forward, and with rules on the slow path.               *)
FacetCases ==
    [facets |-> [Acts |-> {"x", "y"}, MaxPackets |-> 2],
     paths |-> [Acts |-> {"x", "slow"}, MaxPackets |-> 2]]
Facet(c) == INSTANCE Facets WITH
    Acts <- c.Acts, MaxPackets <- c.MaxPackets, Keys <- {k1, k2}, Flows <- {"f"},
    FlowOf <- [k \in {k1, k2} |-> "f"], Rules <- {r1, r2}, ModifyFails <- FALSE
facetVars == <<table, acts, need, rule_packets, facets, subfacets, dp, upcalls, expiring,
    arrived, discarded, uncounted>>

-----------------------------------------------------------------------------
(* Upcalls from two keys, of two flows of one class, on a port that comes  *)
(* and goes, with a datapath that may fail to delete a flow.               *)
Upcall == INSTANCE Upcalls WITH
    Keys <- {1, 3}, PortOf <- [k \in {1, 3} |-> 1], FlowOf <- [k \in {1, 3} |-> k],
    ClassOf <- [f \in {1, 3} |-> 1], MaxBatch <- 2, MaxQueue <- 2, DelFails <- TRUE,
    MaxLearned <- 1, MaxPorts <- 1, dp <- up_dp, facets <- up_facets,
    subfacets <- up_subfacets, need <- up_need
upcallVars == <<ports, queue, up_dp, drop_keys, up_facets, up_subfacets, version, up_need,
    dangling, n_ops, moves>>

-----------------------------------------------------------------------------
(* Timeouts, in ticks of half a second: one rule that idles out or sees a  *)
(* FIN, and three whose flows are more than the threshold.                 *)
TimeoutCases ==
    [timeouts |-> [Rules |-> {"r1"}, Idle |-> 10, FinIdle |-> 3, FinHard |-> 2,
          Buckets |-> 10, Width |-> 1, Operations |-> TRUE, MaxTime |-> 14],
     histogram |-> [Rules |-> {"r1", "r2", "r3"}, Idle |-> 0, FinIdle |-> 0, FinHard |-> 0,
          Buckets |-> 2, Width |-> 2, Operations |-> FALSE, MaxTime |-> 5]]
Timeout(c) == INSTANCE Timeouts WITH
    Rules <- c.Rules, Idle <- c.Idle, FinIdle <- c.FinIdle, FinHard <- c.FinHard,
    Buckets <- c.Buckets, Width <- c.Width, Operations <- c.Operations,
    MaxTime <- c.MaxTime, Hard <- 0, PushPeriod <- 4, ExpirePeriod <- 2, Threshold <- 1,
    dp <- to_dp
timeoutVars == <<now, push_timer, next_expiration, rule, facet, to_dp, ran, traffic, resumed,
    settled, gone>>

-----------------------------------------------------------------------------
suiteVars == <<subject, revalVars, facetVars, upcallVars, timeoutVars>>

(* One component moves; the others are at rest.                            *)
Subjects == {"upcalls"} \cup DOMAIN RevalCases \cup DOMAIN FacetCases
    \cup DOMAIN TimeoutCases

RevalInit ==
    \/ \E s \in DOMAIN RevalCases : subject = s /\ Reval(RevalCases[s])!Init
    \/ subject \notin DOMAIN RevalCases /\ rules = Off /\ cls_table = Off /\ catchall = Off
       /\ other = Off /\ rv_need = Off /\ tags = Off /\ rv_facets = Off /\ loop = Off
       /\ freed_read = Off /\ served_stale = Off
FacetInit ==
    \/ \E s \in DOMAIN FacetCases : subject = s /\ Facet(FacetCases[s])!Init
    \/ subject \notin DOMAIN FacetCases /\ table = Off /\ acts = Off /\ need = Off
       /\ rule_packets = Off /\ facets = Off /\ subfacets = Off /\ dp = Off /\ upcalls = Off
       /\ expiring = Off /\ arrived = Off /\ discarded = Off /\ uncounted = Off
UpcallInit ==
    \/ subject = "upcalls" /\ Upcall!Init
    \/ subject # "upcalls" /\ ports = Off /\ queue = Off /\ up_dp = Off /\ drop_keys = Off
       /\ up_facets = Off /\ up_subfacets = Off /\ version = Off /\ up_need = Off
       /\ dangling = Off /\ n_ops = Off /\ moves = Off
TimeoutInit ==
    \/ \E s \in DOMAIN TimeoutCases : subject = s /\ Timeout(TimeoutCases[s])!Init
    \/ subject \notin DOMAIN TimeoutCases /\ now = Off /\ push_timer = Off
       /\ next_expiration = Off /\ rule = Off /\ facet = Off /\ to_dp = Off /\ ran = Off
       /\ traffic = Off /\ resumed = Off /\ settled = Off /\ gone = Off

SuiteInit ==
    /\ subject \in Subjects
    /\ RevalInit /\ FacetInit /\ UpcallInit /\ TimeoutInit

RevalStep ==
    /\ \E s \in DOMAIN RevalCases : subject = s /\ Reval(RevalCases[s])!Next
    /\ UNCHANGED <<subject, facetVars, upcallVars, timeoutVars>>
FacetStep ==
    /\ \E s \in DOMAIN FacetCases : subject = s /\ Facet(FacetCases[s])!Next
    /\ UNCHANGED <<subject, revalVars, upcallVars, timeoutVars>>
UpcallStep ==
    /\ subject = "upcalls" /\ Upcall!Next
    /\ UNCHANGED <<subject, revalVars, facetVars, timeoutVars>>
TimeoutStep ==
    /\ \E s \in DOMAIN TimeoutCases : subject = s /\ Timeout(TimeoutCases[s])!Next
    /\ UNCHANGED <<subject, revalVars, facetVars, upcallVars>>
(* Components whose work may come to an end.                               *)
Stop == subject \in {"revalidation", "pointers", "deletions", "facets", "paths", "timeouts", "histogram"}
    /\ UNCHANGED suiteVars

SuiteNext == RevalStep \/ FacetStep \/ UpcallStep \/ TimeoutStep \/ Stop

SuiteSpec == SuiteInit /\ [][SuiteNext]_suiteVars

Symmetry == Permutations({a1, a2, a3})

-----------------------------------------------------------------------------
(* A cached translation that is not marked for revalidation is what the    *)
(* flow tables say now, with tags of tables read from the enclave before   *)
(* or after the tables change (ofproto-dpif.c:1705-1724, oftable.c:147).   *)
CachedIsCurrent ==
    /\ \A s \in DOMAIN RevalCases : subject = s => Reval(RevalCases[s])!TypeOK
    /\ \A s \in DOMAIN RevalCases : subject = s => Reval(RevalCases[s])!UnmarkedIsCurrent
    /\ \A s \in {"pointers"} : subject = s => Reval(RevalCases[s])!TablesRead

(* Every packet is counted once through deletions, revalidations, expiring *)
(* rules and keys that share a flow while no rule uses the slow path, and  *)
(* at least once when rules do; counts that go with a replaced or expired  *)
(* rule or with a datapath flow deleted unread are named as such.  While   *)
(* the datapath takes what it is told, its flows do what their facets say  *)
(* (ofproto-dpif.c:384, 478, 5502, 5590).                                  *)
FacetsAccounted ==
    /\ \A s \in DOMAIN FacetCases : subject = s => Facet(FacetCases[s])!TypeOK
    /\ \A s \in {"facets"} : subject = s => Facet(FacetCases[s])!CountedOnce
    /\ \A s \in {"paths"} : subject = s => Facet(FacetCases[s])!CountedOrMore
    /\ \A s \in DOMAIN FacetCases : subject = s => Facet(FacetCases[s])!DatapathFollows

(* A drop flow is known by its key, so that it can be deleted again, until *)
(* the datapath has failed to delete it, and the traffic of a port that    *)
(* came back is dropped by such a flow only until the full revalidation    *)
(* that its return has asked for (type_run, line 1043).                    *)
DropsKnown ==
    /\ subject = "upcalls" => Upcall!DropsKnown
    /\ subject = "upcalls" => Upcall!TypeOK

(* Rules expire in time; a rule is idled out only after a pause of its     *)
(* packets that is longer than its idle timeout less the lag of a dump and *)
(* a push, and that did not end before that lag; and when flows are many   *)
(* the most recently used ones stay (ofproto-dpif.c:4665, 4796).           *)
ExpiryFair ==
    /\ [](\A s \in DOMAIN TimeoutCases : subject = s => Timeout(TimeoutCases[s])!TypeOK)
    /\ [](\A s \in {"timeouts"} : subject = s => Timeout(TimeoutCases[s])!ExpiresInTime)
    /\ [][\A s \in {"timeouts"} : subject = s => Timeout(TimeoutCases[s])!IdledOutPaused]_timeoutVars
    /\ [][\A s \in {"histogram"} : subject = s => Timeout(TimeoutCases[s])!KeepsMostRecent]_timeoutVars
=============================================================================
