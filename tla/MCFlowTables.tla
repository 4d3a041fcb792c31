---------------------------- MODULE MCFlowTables ----------------------------
(***************************************************************************)
(* The flow tables of ofproto (FlowTable) in its vanilla, plain and        *)
(* optimized builds, and the map by which the enclave finds its copy of a  *)
(* rule (RuleMap).                                                         *)
(*                                                                         *)
(* A behaviour is about one of the builds, or about one map, its subject;  *)
(* the others are at rest. Key ka covers both keys loosely and overlaps    *)
(* kb.                                                                     *)
(***************************************************************************)
EXTENDS RuleMap, TLC

CONSTANT Off   \* the state of components at rest
CONSTANTS r0, r1, r2, r3, r4, r5, ka, kb, p, q

VARIABLE subject   \* the component, or instance of one, that this behaviour is about
VARIABLES rules, cls, nodes, evg, expirable, pending, aborted, reply, state, limit, grouped,
    clogged
VARIABLES s_bucket, s_n, s_mask, s_current, s_made

CoveredBy(k) == IF k = ka THEN {ka, kb} ELSE {kb}
Differ(k, j) == k # j

AddressItself(x) == x
SharedLow(x) == x % 2

-----------------------------------------------------------------------------
(* The flow tables of the three builds, each with eviction, timeouts,      *)
(* flushing and destruction; ofproto/clog is used in the vanilla and in    *)
(* one plain case.  Only the optimized build has a buffer for the rules of *)
(* a flush or an eviction; it holds all of them except in small_buffer.    *)
TableCases ==
    [vanilla |-> [Build |-> "vanilla", Rules |-> {r0, r1, r2, r3}, NTables |-> 2, Actions |-> {p},
          Timeouts |-> {TRUE}, MaxNodes |-> 1, MayClog |-> TRUE, BufSize |-> 8],
     plain |-> [Build |-> "plain", Rules |-> {r0, r4, r5}, NTables |-> 3, Actions |-> {p},
          Timeouts |-> {TRUE, FALSE}, MaxNodes |-> 1, MayClog |-> FALSE, BufSize |-> 8],
     plain_clogged |-> [Build |-> "plain", Rules |-> {r0, r4, r5}, NTables |-> 2, Actions |-> {p},
          Timeouts |-> {TRUE}, MaxNodes |-> 1, MayClog |-> TRUE, BufSize |-> 8],
     optimized |-> [Build |-> "optimized", Rules |-> {r0, r4, r5}, NTables |-> 3, Actions |-> {p},
          Timeouts |-> {TRUE}, MaxNodes |-> 2, MayClog |-> FALSE, BufSize |-> 8],
     small_buffer |-> [Build |-> "optimized", Rules |-> {r0, r4, r5}, NTables |-> 2, Actions |-> {p, q},
          Timeouts |-> {TRUE}, MaxNodes |-> 2, MayClog |-> FALSE, BufSize |-> 1]]
Table(c) == INSTANCE FlowTable WITH
    Build <- c.Build, Rules <- c.Rules, NTables <- c.NTables, Actions <- c.Actions,
    Timeouts <- c.Timeouts, MaxNodes <- c.MaxNodes, MayClog <- c.MayClog,
    BufSize <- c.BufSize, Keys <- {ka, kb}, Covers <- CoveredBy, Overlaps <- Differ,
    Internal <- r0, Limits <- {1}, PendingLimit <- 2
tableVars == <<rules, cls, nodes, evg, expirable, pending, aborted, reply, state, limit,
    grouped, clogged>>

-----------------------------------------------------------------------------
(* The rule map in the optimized build, which frees rules without          *)
(* destroying their copies, for addresses two of which share their low     *)
(* half.                                                                   *)
Shared == INSTANCE RuleMap WITH
    Addresses <- {1, 2, 3}, Hashes <- 0 .. 4, Low <- SharedLow, Leaks <- TRUE,
    MaxRules <- 6, bucket <- s_bucket, hmap_n <- s_n, hmap_mask <- s_mask, current <- s_current,
    made <- s_made
sharedVars == <<s_bucket, s_n, s_mask, s_current, s_made>>

-----------------------------------------------------------------------------
suiteVars == <<subject, tableVars, sharedVars, mapVars>>

(* One component moves; the others are at rest.                            *)
Subjects == {"shared_rules", "rules"} \cup DOMAIN TableCases

TableInit ==
    \/ \E s \in DOMAIN TableCases : subject = s /\ Table(TableCases[s])!Init
    \/ subject \notin DOMAIN TableCases /\ rules = Off /\ cls = Off /\ nodes = Off
       /\ evg = Off /\ expirable = Off /\ pending = Off /\ aborted = Off /\ reply = Off
       /\ state = Off /\ limit = Off /\ grouped = Off /\ clogged = Off
SharedInit ==
    \/ subject = "shared_rules" /\ Shared!MapInit
    \/ subject # "shared_rules" /\ s_bucket = Off /\ s_n = Off /\ s_mask = Off
       /\ s_current = Off /\ s_made = Off

SuiteInit ==
    /\ subject \in Subjects
    /\ MapInit
    /\ TableInit /\ SharedInit

TableStep ==
    /\ \E s \in DOMAIN TableCases : subject = s /\ Table(TableCases[s])!Next
    /\ UNCHANGED <<subject, sharedVars, mapVars>>
SharedStep ==
    /\ subject = "shared_rules" /\ Shared!MapNext
    /\ UNCHANGED <<subject, tableVars, mapVars>>
RuleMapStep ==
    /\ subject = "rules" /\ MapNext
    /\ UNCHANGED <<subject, tableVars, sharedVars>>
(* The work of every component may come to an end.                         *)
Stop == UNCHANGED suiteVars

SuiteNext == TableStep \/ SharedStep \/ RuleMapStep \/ Stop

SuiteSpec == SuiteInit /\ [][SuiteNext]_suiteVars

Symmetry == Permutations({r1, r2, r3})

-----------------------------------------------------------------------------
(* In the optimized build, which frees rules without destroying their      *)
(* copies, and for addresses that share their low half, a look-up for a    *)
(* rule that exists still finds a copy, though perhaps of another rule     *)
(* (cls-rule.c:32-36, 194-202): through growth, and whichever copies       *)
(* destructions have taken.                                                *)
SharedCopiesForRules == subject = "shared_rules" => Shared!CopiesForRules

(* The tables of the three builds, with and without ofproto/clog, the      *)
(* optimized one without.  As long as no assertion has failed, every rule  *)
(* is in its table, in an operation or freed, once, and the eviction       *)
(* groups and the expiry list follow the tables, provided the buffer of    *)
(* the optimized build holds all rules; the keys of a table are unique in  *)
(* any case.  No assertion fails in the vanilla build, nor in the others   *)
(* while nothing is clogged and the buffer suffices.  In the plain build   *)
(* the enclave has one node for each rule, and destruction frees all of    *)
(* them, as it frees the rules of the vanilla build (ofproto.c:1198-1214,  *)
(* 3624-4010, 5156-5339, 5954-6098).                                       *)
Fitting == DOMAIN TableCases \ {"small_buffer"}
TablesSound ==
    /\ \A s \in DOMAIN TableCases : subject = s => Table(TableCases[s])!TypeOK
    /\ \A s \in Fitting : subject = s => Table(TableCases[s])!RulesAccounted
    /\ \A s \in Fitting : subject = s => Table(TableCases[s])!ExpiryFollowsTables
    /\ \A s \in DOMAIN TableCases : subject = s => Table(TableCases[s])!OneRulePerKey
    /\ \A s \in {"vanilla", "plain", "optimized"} : subject = s => Table(TableCases[s])!NoAbort
    /\ \A s \in {"plain", "plain_clogged"} : subject = s => Table(TableCases[s])!NodePerRule
    /\ \A s \in {"vanilla", "plain", "plain_clogged"} : subject = s => Table(TableCases[s])!DestroyFreesAll

(* "Starts the process of deleting all of the flows from all of ofproto's  *)
(* flow tables" (ofproto.c:1796): a run that ends flushing leaves no rule  *)
(* but the internal ones.                                                  *)
FlushDeletesAll == [][\A s \in DOMAIN TableCases : subject = s => Table(TableCases[s])!FlushEndsEmpty]_tableVars

(* In the same cases: no step lets a table grow past its limit; a          *)
(* modification that is refused or postponed leaves tables, eviction       *)
(* groups, expiry list and rules as they were, also when the rule to       *)
(* replace or to evict has an operation pending; a flush that has ended    *)
(* leaves no rule in a table and, if the buffer holds all rules, none      *)
(* outside of one either (ofproto.c:1108-1131, 3745-3762, 3957-3969,       *)
(* 4005).                                                                  *)
TableSteps ==
    /\ [][\A s \in DOMAIN TableCases : subject = s => Table(TableCases[s])!GrowsToLimit]_tableVars
    /\ [][\A s \in DOMAIN TableCases : subject = s => Table(TableCases[s])!RefusalIsNoStep]_tableVars
    /\ [][\A s \in DOMAIN TableCases : subject = s => Table(TableCases[s])!FlushEmptiesTables]_tableVars
    /\ [][\A s \in Fitting : subject = s => Table(TableCases[s])!FlushEndsEmpty]_tableVars
=============================================================================
