------------------------------- MODULE Facets -------------------------------
(***************************************************************************)
(* Facets, subfacets and the flows of the datapath, and how every packet   *)
(* is counted for a rule (ofproto-dpif.c, "Facets", "Subfacets", "Flow     *)
(* expiration").                                                           *)
(*                                                                         *)
(* A facet is the cached translation of a flow; a subfacet is one datapath *)
(* flow for it.  Packets are counted in the datapath, in the facet when    *)
(* user space handled them or the datapath counter was read, and in the    *)
(* rule once they are pushed.  The datapath is external: it counts every   *)
(* packet that a flow matches, and hands a packet up that matches no flow  *)
(* or a flow with the slow-path action.                                    *)
(*                                                                         *)
(* Byte counts follow packet counts and are left out, and so are times: a  *)
(* subfacet may turn out to be idle at any expiry.  What the revalidation  *)
(* marks must cover is in module Revalidation; here they are one flag.     *)
(* The datapath deletes every flow it is asked to delete.                  *)
(***************************************************************************)
EXTENDS Integers, FiniteSets, FiniteSetsExt

CONSTANTS
    Keys,        \* datapath flow keys
    Flows,       \* flows as user space sees them
    FlowOf,      \* the flow of each key
    Rules,       \* rules; each flow has one at a time
    Acts,        \* datapath actions of rules
    ModifyFails, \* TRUE: the datapath may refuse to modify a flow
    MaxPackets   \* packets in a behaviour

SLOW == "slow"   \* xout.slow: every packet goes through user space

VARIABLES
    table,       \* the rule that rule_dpif_lookup finds for each flow
    acts,        \* the datapath actions each rule translates to
    need,        \* backer->need_revalidate
    rule_packets,\* rule->packet_count
    facets,      \* the facet of each flow, or NoFacet
    subfacets,   \* the subfacet of each key, or NoSubfacet
    dp,          \* the datapath's flow for each key, or NoFlow
    upcalls,     \* packets handed up: how many, and whether by a slow-path action
    expiring,    \* expire(): keys still to be dumped, or NotExpiring
    arrived,     \* history: packets received
    discarded,   \* history: counts of rules that were replaced or expired
    uncounted    \* history: counts a deleted datapath flow took with it

vars == <<table, acts, need, rule_packets, facets, subfacets, dp, upcalls, expiring,
          arrived, discarded, uncounted>>

NoFacet == [rule |-> "none", out |-> "none", packets |-> 0, prev |-> 0]
NoSubfacet == [path |-> "none", dp_packets |-> 0]
NoFlow == [out |-> "none", packets |-> 0]
NoUpcall == [n |-> 0, action |-> FALSE]
NotExpiring == {"not"}
Waiting == expiring = NotExpiring

Path(out) == IF out = SLOW THEN "SF_SLOW_PATH" ELSE "SF_FAST_PATH"
Mine(s, f) == {k \in Keys : FlowOf[k] = f /\ s.subfacets[k] # NoSubfacet}

(* The state that the steps of one handler pass on.                        *)
State == [rules |-> rule_packets, facets |-> facets, subfacets |-> subfacets, dp |-> dp,
          uncounted |-> uncounted]
Become(s) ==
    /\ rule_packets' = s.rules /\ facets' = s.facets /\ subfacets' = s.subfacets
    /\ dp' = s.dp /\ uncounted' = s.uncounted

-----------------------------------------------------------------------------
(* facet_push_stats, rule_credit_stats.                                    *)
facet_push_stats(s, f) ==
    LET c == s.facets[f]
    IN  [s EXCEPT !.rules[c.rule] = @ + (c.packets - c.prev), !.facets[f].prev = c.packets]

(* facet_reset_counters, and facet_flush_stats, which pushes first.        *)
facet_reset_counters(s, f) == [s EXCEPT !.facets[f].packets = 0, !.facets[f].prev = 0]
facet_flush_stats_NoPush(s, f) == facet_reset_counters(s, f)
facet_flush_stats(s, f) == facet_reset_counters(facet_push_stats(s, f), f)

(* subfacet_reset_dp_stats followed by subfacet_update_stats, for stats    *)
(* that the datapath returned while it cleared its counter.                *)
TakeStats(s, k, stats) ==
    LET known == s.subfacets[k].dp_packets
        new == IF known <= stats THEN stats - known ELSE stats
    IN  [s EXCEPT !.subfacets[k].dp_packets = 0, !.facets[FlowOf[k]].packets = @ + new]

subfacet_uninstall(s, k) ==
    IF s.subfacets[k].path = "SF_NOT_INSTALLED" THEN s
    ELSE [TakeStats(s, k, s.dp[k].packets) EXCEPT
            !.dp[k] = NoFlow, !.subfacets[k].path = "SF_NOT_INSTALLED"]

(* facet_remove: final statistics first, then everything is freed.         *)
facet_remove(s, f) ==
    LET last == facet_flush_stats(FoldSet(LAMBDA k, t : subfacet_uninstall(t, k), s, Mine(s, f)), f)
    IN  [last EXCEPT !.facets[f] = NoFacet,
                     !.subfacets = [k \in Keys |-> IF FlowOf[k] = f THEN NoSubfacet ELSE @[k]]]

(* subfacet_install of an installed subfacet with new actions: modified    *)
(* and zeroed, or refused, in which case the datapath returns no counts.   *)
subfacet_install(s, k, out, ok) ==
    LET t == TakeStats(s, k, IF ok THEN s.dp[k].packets ELSE 0)
    IN  IF ok THEN [t EXCEPT !.dp[k] = [out |-> out, packets |-> 0]] ELSE t

(* What a revalidation meets: whether the datapath takes new actions, and  *)
(* the flows whose keys are still received as them and whose translation   *)
(* reads the fields it read before.                                        *)
Findings == [ok : IF ModifyFails THEN BOOLEAN ELSE {TRUE}, same : SUBSET Flows]

(* facet_revalidate: a facet one of whose keys is now received as another  *)
(* flow, or whose wildcards or slow-path reason changed, is removed;       *)
(* changed actions are installed and the counts so far go to the old rule. *)
facet_revalidate_KeepsPath(s, f, found) ==
    LET out == acts[table[f]]
        c == s.facets[f]
        fast == {k \in Mine(s, f) : s.subfacets[k].path = "SF_FAST_PATH"}
        put == FoldSet(LAMBDA k, t : subfacet_install(t, k, out, found.ok), s, fast)
    IN  CASE c.out # out -> [facet_flush_stats(put, f) EXCEPT !.facets[f].out = out,
                                                              !.facets[f].rule = table[f]]
          [] OTHER -> [s EXCEPT !.facets[f].rule = table[f]]
facet_revalidate(s, f, found) ==
    LET out == acts[table[f]]
        c == s.facets[f]
        fast == {k \in Mine(s, f) : s.subfacets[k].path = "SF_FAST_PATH"}
        put == FoldSet(LAMBDA k, t : subfacet_install(t, k, out, found.ok), s, fast)
    IN  CASE f \notin found.same \/ Path(c.out) # Path(out) -> facet_remove(s, f)
          [] c.out # out -> [facet_flush_stats(put, f) EXCEPT !.facets[f].out = out,
                                                              !.facets[f].rule = table[f]]
          [] OTHER -> [s EXCEPT !.facets[f].rule = table[f]]

-----------------------------------------------------------------------------
Init ==
    /\ table \in [Flows -> Rules]
    /\ acts \in [Rules -> Acts]
    /\ need = FALSE
    /\ rule_packets = [r \in Rules |-> 0]
    /\ facets = [f \in Flows |-> NoFacet]
    /\ subfacets = [k \in Keys |-> NoSubfacet]
    /\ dp = [k \in Keys |-> NoFlow]
    /\ upcalls = [k \in Keys |-> NoUpcall]
    /\ expiring = NotExpiring
    /\ arrived = 0 /\ discarded = 0 /\ uncounted = 0

(* A packet reaches the datapath.                                          *)
DatapathPacket(k) ==
    /\ arrived < MaxPackets
    /\ arrived' = arrived + 1
    /\ dp' = IF dp[k] = NoFlow THEN dp ELSE [dp EXCEPT ![k].packets = @ + 1]
    /\ upcalls' = IF dp[k] = NoFlow \/ dp[k].out = SLOW
                  THEN [upcalls EXCEPT ![k] = [n |-> @.n + 1, action |-> dp[k] # NoFlow]]
                  ELSE upcalls
    /\ UNCHANGED <<table, acts, need, rule_packets, facets, subfacets, expiring, discarded, uncounted>>

(* The facet that a miss finds, after facet_lookup_valid.                  *)
Validated(f, found) == IF need THEN facet_revalidate(State, f, found) ELSE State

(* handle_flow_miss_with_facet: packets of a slow-path action only count;  *)
(* otherwise the subfacet is found or created, and put unless it is there. *)
WithFacet(s, k, n, counted, put_ok) ==
    LET f == FlowOf[k]
        path == Path(s.facets[f].out)
        sub == IF s.subfacets[k] = NoSubfacet
               THEN [path |-> "SF_NOT_INSTALLED", dp_packets |-> 0] ELSE s.subfacets[k]
        more == IF counted THEN 0 ELSE n
        t == [s EXCEPT !.facets[f].packets = @ + more, !.subfacets[k] = sub]
    IN  IF upcalls[k].action /\ Mine(s, f) # {} THEN [s EXCEPT !.facets[f].packets = @ + more]
        ELSE IF sub.path = path THEN t
        ELSE IF put_ok /\ s.dp[k] = NoFlow
        THEN [t EXCEPT !.subfacets[k].path = path,
                       !.dp[k] = [out |-> s.facets[f].out, packets |-> 0]]
        ELSE [t EXCEPT !.subfacets[k] = [path |-> "SF_NOT_INSTALLED", dp_packets |-> 0]]

(* handle_flow_miss for the packets of one key: without a facet the rule   *)
(* is credited at once, and a facet is made unless the governor is against *)
(* it (flow_miss_should_make_facet).                                       *)
handle_flow_miss(k, make, put_ok, found) ==
    LET f == FlowOf[k]
        n == upcalls[k].n
        s == IF facets[f] = NoFacet THEN State ELSE Validated(f, found)
        r == table[f]
        credited == [s EXCEPT !.rules[r] = @ + n]
        created == [credited EXCEPT !.facets[f] =
                      [rule |-> r, out |-> acts[r], packets |-> n, prev |-> n]]
    IN  /\ n > 0
        /\ upcalls' = [upcalls EXCEPT ![k] = NoUpcall]
        /\ IF s.facets[f] # NoFacet THEN Become(WithFacet(s, k, n, FALSE, put_ok))
           ELSE IF make THEN Become(WithFacet(created, k, n, TRUE, put_ok))
           ELSE Become(credited)
        /\ UNCHANGED <<table, acts, need, expiring, arrived, discarded>>

(* push_all_stats.                                                         *)
Cached == {f \in Flows : facets[f] # NoFacet}
push_all_stats ==
    /\ Waiting
    /\ Become(FoldSet(LAMBDA f, s : facet_push_stats(s, f), State, Cached))
    /\ UNCHANGED <<table, acts, need, upcalls, expiring, arrived, discarded>>

(* type_run: all facets are revalidated.                                   *)
type_run(found) ==
    /\ Waiting
    /\ need
    /\ need' = FALSE
    /\ Become(FoldSet(LAMBDA f, s : facet_revalidate(s, f, found), State, Cached))
    /\ UNCHANGED <<table, acts, upcalls, expiring, arrived, discarded>>

(* Another rule takes over a flow, or a rule gets other actions.           *)
FlowTableChange(f, r, a) ==
    /\ Waiting
    /\ table' = [table EXCEPT ![f] = r]
    /\ acts' = [acts EXCEPT ![r] = a]
    /\ need' = TRUE
    /\ UNCHANGED <<rule_packets, facets, subfacets, dp, upcalls, expiring, arrived, discarded, uncounted>>

(* rule_construct with a victim: the new rule counts from zero and takes   *)
(* over the facets, whose own counters are cleared.                        *)
Unpushed(f) == facets[f].packets - facets[f].prev
rule_construct(r, a) ==
    LET moved == {f \in Cached : facets[f].rule = r}
    IN  /\ Waiting
        /\ acts' = [acts EXCEPT ![r] = a]
        /\ need' = TRUE
        /\ discarded' = discarded + rule_packets[r] + MapThenSumSet(Unpushed, moved)
        /\ Become([FoldSet(LAMBDA f, s : facet_reset_counters(s, f), State, moved)
                     EXCEPT !.rules[r] = 0])
        /\ UNCHANGED <<table, upcalls, expiring, arrived>>

(* rule_destruct: the rule is out of the table, its facets are revalidated *)
(* at once.                                                                *)
rule_destruct(r, found) ==
    LET mine == {f \in Cached : facets[f].rule = r}
    IN  /\ Waiting
        /\ \A f \in Flows : table[f] # r
        /\ mine # {}
        /\ Become(FoldSet(LAMBDA f, s : facet_revalidate(s, f, found), State, mine))
        /\ need' = TRUE
        /\ UNCHANGED <<table, acts, upcalls, expiring, arrived, discarded>>

-----------------------------------------------------------------------------
(* expire(): the datapath's flows are dumped one by one (update_stats),    *)
(* then idle subfacets are destroyed (expire_subfacets).                   *)
BeginExpire ==
    /\ Waiting
    /\ expiring' = {k \in Keys : dp[k] # NoFlow}
    /\ UNCHANGED <<table, acts, need, rule_packets, facets, subfacets, dp, upcalls,
                   arrived, discarded, uncounted>>

(* One flow of the dump: update_subfacet_stats, with facet_learn when it   *)
(* is due, or delete_unexpected_flow.                                      *)
Dumped(k, learn) ==
    LET f == FlowOf[k]
        new == dp[k].packets - subfacets[k].dp_packets
        s == [State EXCEPT !.subfacets[k].dp_packets = dp[k].packets, !.facets[f].packets = @ + new]
    IN  IF learn THEN facet_push_stats(s, f) ELSE s
Unexpected(k) == [State EXCEPT !.dp[k] = NoFlow, !.uncounted = @ + dp[k].packets]
update_stats_SlowToo(k, learn) ==
    /\ k \in expiring
    /\ expiring' = expiring \ {k}
    /\ Become(CASE subfacets[k].path \in {"SF_FAST_PATH", "SF_SLOW_PATH"} -> Dumped(k, learn)
                [] OTHER -> Unexpected(k))
    /\ UNCHANGED <<table, acts, need, upcalls, arrived, discarded>>
update_stats(k, learn) ==
    /\ k \in expiring
    /\ expiring' = expiring \ {k}
    /\ Become(CASE subfacets[k].path = "SF_FAST_PATH" -> Dumped(k, learn)
                [] subfacets[k].path = "SF_SLOW_PATH" -> State
                [] OTHER -> Unexpected(k))
    /\ UNCHANGED <<table, acts, need, upcalls, arrived, discarded>>

(* subfacet_destroy_batch for an installed subfacet: the counts that the   *)
(* deletion returns are not folded into the facet.                         *)
DestroyBatch(s, k) ==
    LET f == FlowOf[k]
        lost == s.dp[k].packets - s.subfacets[k].dp_packets
        off == IF s.subfacets[k].path = "SF_NOT_INSTALLED" THEN s
               ELSE [s EXCEPT !.dp[k] = NoFlow,
                              !.uncounted = @ + (IF s.subfacets[k].path = "SF_FAST_PATH" THEN lost ELSE 0),
                              !.subfacets[k] = [path |-> "SF_NOT_INSTALLED", dp_packets |-> 0]]
    IN  IF Mine(s, f) = {k} THEN facet_remove(off, f)
        ELSE [off EXCEPT !.subfacets[k] = NoSubfacet]

Expirable == {k \in Keys : subfacets[k] # NoSubfacet}
expire_subfacets(idle) ==
    /\ expiring = {}
    /\ idle \subseteq Expirable
    /\ Become(FoldSet(LAMBDA k, s : DestroyBatch(s, k), State, idle))
    /\ expiring' = NotExpiring
    /\ UNCHANGED <<table, acts, need, upcalls, arrived, discarded>>

(* rule_expire: the facets of a rule that timed out are removed, then the  *)
(* rule, with the counts that its removal reports; another rule takes over *)
(* its flows.                                                              *)
rule_expire(r, heir) ==
    LET last == FoldSet(LAMBDA f, s : facet_remove(s, f), State, {f \in Cached : facets[f].rule = r})
    IN  /\ Waiting
        /\ heir # r
        /\ table' = [f \in Flows |-> IF table[f] = r THEN heir ELSE table[f]]
        /\ need' = TRUE
        /\ discarded' = discarded + last.rules[r]
        /\ Become([last EXCEPT !.rules[r] = 0])
        /\ UNCHANGED <<acts, upcalls, expiring, arrived>>

(* flush: every subfacet is destroyed without a dump.                      *)
flush ==
    /\ Waiting
    /\ Become(FoldSet(LAMBDA k, s : DestroyBatch(s, k), State, Expirable))
    /\ UNCHANGED <<table, acts, need, upcalls, expiring, arrived, discarded>>

(* send_netflow_active_timeouts: the counts of a flow that is due are read *)
(* by installing its datapath flows once more.                             *)
send_active_timeout(f, ok) ==
    LET fast == {k \in Mine(State, f) : subfacets[k].path = "SF_FAST_PATH"}
    IN  /\ Waiting
        /\ f \in Cached
        /\ Become(FoldSet(LAMBDA k, s : subfacet_install(s, k, facets[f].out, ok), State, fast))
        /\ UNCHANGED <<table, acts, need, upcalls, expiring, arrived, discarded>>

Next ==
    \/ \E k \in Keys : DatapathPacket(k)
    \/ \E k \in Keys, learn \in BOOLEAN : update_stats(k, learn)
    \/ \E k \in Keys, make, put_ok \in BOOLEAN, found \in Findings :
         handle_flow_miss(k, make, put_ok, found)
    \/ push_all_stats
    \/ \E found \in Findings : type_run(found) \/ \E r \in Rules : rule_destruct(r, found)
    \/ \E f \in Flows, r \in Rules, a \in Acts : FlowTableChange(f, r, a)
    \/ \E r \in Rules, a \in Acts : rule_construct(r, a)
    \/ BeginExpire
    \/ \E idle \in SUBSET Keys : expire_subfacets(idle)
    \/ \E r, heir \in Rules : rule_expire(r, heir)
    \/ flush
    \/ \E f \in Flows, found \in Findings : send_active_timeout(f, found.ok)

Spec == Init /\ [][Next]_vars

-----------------------------------------------------------------------------
Counts == 0 .. 2 * MaxPackets

(* Types, and what the code asserts: a facet has a subfacet                *)
(* (facet_remove), only a fast-path subfacet has datapath counts           *)
(* (facet_flush_stats, subfacet_uninstall), and a facet never counts less  *)
(* than it pushed (facet_push_stats).                                      *)
TypeOK ==
    /\ rule_packets \in [Rules -> Counts]
    /\ \A f \in Flows :
         /\ facets[f] = NoFacet <=> Mine(State, f) = {}
         /\ facets[f].prev \in Counts /\ facets[f].packets >= facets[f].prev
    /\ \A k \in Keys :
         /\ subfacets[k].path \in {"none", "SF_NOT_INSTALLED", "SF_FAST_PATH", "SF_SLOW_PATH"}
         /\ subfacets[k].path # "SF_FAST_PATH" => subfacets[k].dp_packets = 0

(* The datapath's count of a fast-path flow that nobody has read yet.      *)
Unread(k) == IF subfacets[k].path = "SF_FAST_PATH" THEN dp[k].packets - subfacets[k].dp_packets ELSE 0
Waits(k) == upcalls[k].n
Credit(r) == rule_packets[r]

(* Where a packet is counted: it waits to be handled, or the datapath, a   *)
(* facet or a rule has it, or it went with a rule that was replaced or     *)
(* expired, or with a datapath flow that was deleted unread.               *)
Counted ==
    MapThenSumSet(Waits, Keys) + MapThenSumSet(Unread, Keys)
    + MapThenSumSet(Unpushed, Flows) + MapThenSumSet(Credit, Rules)
    + discarded + uncounted

(* Every packet is counted exactly once in Counted, however misses, dumps, *)
(* revalidations that change, move or remove a facet, and expiries         *)
(* interleave, while no rule uses the slow path (see CountedOrMore).  The  *)
(* comment on struct facet (line 478) says which packets its counters do   *)
(* and do not include.                                                     *)
CountedOnce == arrived = Counted

(* With slow-path rules, whose datapath flows are counted once more when   *)
(* subfacet_uninstall deletes them (line 5590), still no packet is missing *)
(* from Counted.                                                           *)
CountedOrMore == arrived <= Counted

(* An installed datapath flow acts as its facet says and the subfacet      *)
(* knows it for the path it is, its counter has not gone back, and nothing *)
(* is installed that no subfacet knows of ("SF_FAST_PATH: The subfacet's   *)
(* actions are installed in the datapath.", line 384).                     *)
DatapathFollows ==
    \A k \in Keys :
        IF subfacets[k].path \in {"none", "SF_NOT_INSTALLED"} THEN dp[k] = NoFlow
        ELSE /\ dp[k].out = facets[FlowOf[k]].out
             /\ subfacets[k].path = Path(dp[k].out)
             /\ dp[k].packets >= subfacets[k].dp_packets

(* "When a subfacet expires, we fold its statistics into its facet" (line  *)
(* 4643): the counters of a datapath flow do not go away with it.          *)
ExpiryFolds == [][~Waiting /\ Waiting' => uncounted' = uncounted]_vars
=============================================================================
