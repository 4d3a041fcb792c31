------------------------------ MODULE Timeouts ------------------------------
(***************************************************************************)
(* Idle and hard timeouts of rules and the idle time of subfacets: which   *)
(* timestamps the main loop compares, and how late they are                *)
(* (ofproto-dpif.c: type_run, expire, rule_expire, subfacet_max_idle,      *)
(* facet_learn, xlate_fin_timeout).                                        *)
(*                                                                         *)
(* Time is in ticks; type_run runs once in every tick.  A rule has one     *)
(* flow, hence at most one facet with one subfacet.  The datapath knows    *)
(* when a flow was last used; the dump copies that to the facet, a push    *)
(* from there to the rule.                                                 *)
(***************************************************************************)
EXTENDS Integers, FiniteSets, FiniteSetsExt

CONSTANTS
    Rules,
    Idle, Hard,          \* timeouts of a new rule, 0 for none
    FinIdle, FinHard,    \* the fin_timeout action of the rules
    PushPeriod,          \* 2000 ms
    ExpirePeriod,        \* 1000 ms
    Buckets, Width,      \* N_BUCKETS and BUCKET_WIDTH
    Threshold,           \* flow_eviction_threshold
    Operations,          \* TRUE: rules are modified, asynchronously
    MaxTime

VARIABLES
    now, push_timer, next_expiration,
    rule,        \* the rule of each name, or NoRule
    facet,       \* its facet, or NoFacet
    dp,          \* the datapath flow: last use and whether it saw a FIN
    ran,         \* type_run has run in this tick
    traffic,     \* history: last packet of each rule
    resumed,     \* history: when the last long pause of each rule's packets ended
    settled,     \* history: last FIN or completion of an operation
    gone         \* history: what the last expire removed

vars == <<now, push_timer, next_expiration, rule, facet, dp, ran, traffic, resumed, settled, gone>>

NoRule == [modified |-> 0, used |-> 0, idle |-> 0, hard |-> 0, expirable |-> FALSE,
           pending |-> FALSE, present |-> FALSE]
NoFacet == [used |-> 0, prev |-> 0, fin |-> FALSE, present |-> FALSE]
Unused == [used |-> 0, fin |-> FALSE]
Nothing == [rules |-> {}, reasons |-> {}, subfacets |-> {}, cached |-> {}]
Present == {r \in Rules : rule[r].present}

(* add_flow with oftable_insert_rule.                                      *)
New(idle, hard) ==
    [modified |-> now, used |-> now, idle |-> idle, hard |-> hard,
     expirable |-> idle # 0 \/ hard # 0, pending |-> FALSE, present |-> TRUE]

(* How far a rule's timestamp may be behind its flow: a dump, and then the *)
(* push after it.                                                          *)
Lag == PushPeriod + ExpirePeriod

Init ==
    /\ now = 0 /\ push_timer = -1 /\ next_expiration = 0
    /\ rule \in [Rules -> {New(0, 0), New(Idle, Hard)}]
    /\ facet = [r \in Rules |-> NoFacet]
    /\ dp = [r \in Rules |-> Unused]
    /\ ran = TRUE
    /\ traffic = [r \in Rules |-> 0] /\ settled = traffic
    /\ resumed = [r \in Rules |-> -Lag]
    /\ gone = Nothing

-----------------------------------------------------------------------------
(* reduce_timeout: zero is infinite in either place.                       *)
reduce_timeout(max, timeout) == IF max # 0 /\ (timeout = 0 \/ timeout > max) THEN max ELSE timeout

(* xlate_fin_timeout, for flags with FIN or RST.                           *)
xlate_fin_timeout_NotListed(u) ==
    [u EXCEPT !.idle = reduce_timeout(FinIdle, @), !.hard = reduce_timeout(FinHard, @)]
xlate_fin_timeout(u) ==
    [u EXCEPT !.idle = reduce_timeout(FinIdle, @), !.hard = reduce_timeout(FinHard, @),
              !.expirable = TRUE]

(* facet_push_stats: the rule's time is brought up to the facet's          *)
(* (ofproto_rule_update_used), and the actions are run for side effects.   *)
Pushed(u, f) ==
    LET v == [u EXCEPT !.used = Max({@, f.used})]
    IN  IF f.fin THEN xlate_fin_timeout(v) ELSE v
State == [rule |-> rule, facet |-> facet, dp |-> dp]
facet_push_stats(s, r) ==
    IF s.facet[r].present
    THEN [s EXCEPT !.rule[r] = Pushed(@, s.facet[r]), !.facet[r].prev = s.facet[r].used]
    ELSE s

facet_remove(s, r) ==
    [facet_push_stats(s, r) EXCEPT !.facet[r] = NoFacet, !.dp[r] = Unused]

(* A packet of the rule's flow, with FIN or without: the datapath notes    *)
(* it, or it is a miss that credits the rule and makes a facet.            *)
Packet(s, r, fin) ==
    IF s.facet[r].present THEN [s EXCEPT !.dp[r] = [used |-> now + 1, fin |-> @.fin \/ fin]]
    ELSE LET made == [used |-> now + 1, prev |-> now + 1, fin |-> fin, present |-> TRUE]
         IN  [s EXCEPT !.facet[r] = made, !.rule[r] = Pushed(@, made),
                       !.dp[r] = [used |-> now + 1, fin |-> FALSE]]

(* One tick passes, in which some flows have packets.                      *)
Tick(busy, fins) ==
    /\ ran /\ now < MaxTime
    /\ now' = now + 1
    /\ LET s == FoldSet(LAMBDA r, t : Packet(t, r, r \in fins), State, busy)
       IN  rule' = s.rule /\ facet' = s.facet /\ dp' = s.dp
    /\ traffic' = [r \in Rules |-> IF r \in busy THEN now + 1 ELSE traffic[r]]
    /\ resumed' = [r \in Rules |-> IF r \in busy /\ now + 1 - traffic[r] > Idle - Lag
                                   THEN now + 1 ELSE resumed[r]]
    /\ settled' = [r \in Rules |-> IF r \in fins THEN now + 1 ELSE settled[r]]
    /\ ran' = FALSE /\ gone' = Nothing
    /\ UNCHANGED <<push_timer, next_expiration>>

-----------------------------------------------------------------------------
(* update_stats: the dump, with facet_learn for a flow that saw a FIN.     *)
Dump_KeepsUsed(s, r) ==
    [s EXCEPT !.facet[r].fin = @ \/ s.dp[r].fin]
Dump(s, r) ==
    LET f == s.facet[r]
        g == [f EXCEPT !.used = Max({@, s.dp[r].used}), !.fin = @ \/ s.dp[r].fin]
        t == [s EXCEPT !.facet[r] = g]
    IN  IF ~f.present THEN s
        ELSE IF g.fin /\ g.used > f.used THEN facet_push_stats(t, r) ELSE t

(* subfacet_max_idle: a histogram of idle times; the first buckets that    *)
(* together hold as many subfacets as are to be kept set the idle time.    *)
Bucket(s, r) == Min({(now - s.facet[r].used) \div Width, Buckets - 1})
subfacet_max_idle_KeepsNone(s) ==
    LET cached == {r \in Rules : s.facet[r].present}
    IN  IF Cardinality(cached) <= Threshold THEN Buckets * Width ELSE 0
subfacet_max_idle(s) ==
    LET cached == {r \in Rules : s.facet[r].present}
        total == Cardinality(cached)
        upto(b) == Cardinality({r \in cached : Bucket(s, r) < b})
        enough == {b \in 1 .. Buckets : upto(b) >= Max({Threshold, total \div 100}) \/ b = Buckets}
    IN  IF total <= Threshold THEN Buckets * Width ELSE Min(enough) * Width

(* expire_subfacets: the facet goes with its only subfacet.                *)
Stale(s) ==
    LET dp_max_idle == subfacet_max_idle(s)
    IN  {r \in Rules : s.facet[r].present /\ s.facet[r].used < now - dp_max_idle}

(* rule_expire and ofproto_rule_expire.                                    *)
Reason_FromUse(u) ==
    CASE u.hard # 0 /\ now > u.used + u.hard -> "OFPRR_HARD_TIMEOUT"
      [] u.idle # 0 /\ now > u.used + u.idle -> "OFPRR_IDLE_TIMEOUT"
      [] OTHER -> "none"
Reason(u) ==
    CASE u.hard # 0 /\ now > u.modified + u.hard -> "OFPRR_HARD_TIMEOUT"
      [] u.idle # 0 /\ now > u.used + u.idle -> "OFPRR_IDLE_TIMEOUT"
      [] OTHER -> "none"
Expires(u) == u.expirable /\ ~u.pending /\ Reason(u) # "none"
rule_expire(s, r) ==
    [s EXCEPT !.rule[r] = NoRule, !.facet[r] = NoFacet, !.dp[r] = Unused]

(* type_run: statistics are pushed when the push timer is over, then       *)
(* expire runs when it is due.                                             *)
type_run ==
    LET push == now > push_timer
        due == now >= next_expiration
        pushed == IF push THEN FoldSet(LAMBDA r, s : facet_push_stats(s, r), State, Rules) ELSE State
        dumped == FoldSet(LAMBDA r, s : Dump(s, r), pushed, Rules)
        trimmed == FoldSet(LAMBDA r, s : facet_remove(s, r), dumped, Stale(dumped))
        expired == {r \in Rules : trimmed.rule[r].present /\ Expires(trimmed.rule[r])}
        final == FoldSet(LAMBDA r, s : rule_expire(s, r), trimmed, expired)
        s == IF due THEN final ELSE pushed
    IN  /\ ~ran /\ ran' = TRUE
        /\ push_timer' = IF push THEN now + PushPeriod ELSE push_timer
        /\ next_expiration' = IF due THEN now + Min({subfacet_max_idle(dumped), ExpirePeriod})
                              ELSE next_expiration
        /\ rule' = s.rule /\ facet' = s.facet /\ dp' = s.dp
        /\ gone' = IF ~due THEN Nothing
                   ELSE [rules |-> expired,
                         reasons |-> {Reason(trimmed.rule[r]) : r \in expired},
                         subfacets |-> Stale(dumped),
                         cached |-> {r \in Rules : dumped.facet[r].present}]
        /\ UNCHANGED <<now, traffic, resumed, settled>>

(* A flow_mod changes the rule's actions: pending until it completes, when *)
(* the time of modification is set.                                        *)
modify_flows__(r) ==
    /\ Operations
    /\ ran /\ rule[r].present /\ ~rule[r].pending
    /\ rule' = [rule EXCEPT ![r].pending = TRUE]
    /\ UNCHANGED <<now, push_timer, next_expiration, facet, dp, ran, traffic, resumed, settled, gone>>
ofopgroup_complete(r) ==
    /\ ran /\ rule[r].present /\ rule[r].pending
    /\ rule' = [rule EXCEPT ![r].pending = FALSE, ![r].modified = now]
    /\ settled' = [settled EXCEPT ![r] = now]
    /\ UNCHANGED <<now, push_timer, next_expiration, facet, dp, ran, traffic, resumed, gone>>

Fins(busy) == IF FinIdle = 0 /\ FinHard = 0 THEN {{}} ELSE SUBSET busy
Next ==
    \/ \E busy \in SUBSET Present : \E fins \in Fins(busy) : Tick(busy, fins)
    \/ type_run
    \/ \E r \in Rules : modify_flows__(r) \/ ofopgroup_complete(r)

Spec == Init /\ [][Next]_vars

-----------------------------------------------------------------------------
(* Types; and a rule that has a timeout is on the list of expirable rules, *)
(* also when a FIN gave it one (xlate_fin_timeout).                        *)
TypeOK ==
    /\ now \in 0 .. MaxTime /\ ran \in BOOLEAN
    /\ \A r \in Rules :
         /\ rule[r].present /\ (rule[r].idle # 0 \/ rule[r].hard # 0) => rule[r].expirable
         /\ facet[r].present => rule[r].present /\ facet[r].used >= facet[r].prev

(* Nothing outlives its timeouts by more than the time between two expiry  *)
(* runs: not the hard timeout since the last modification, and not the     *)
(* idle timeout since the last packet, although times and FINs reach the   *)
(* rule by way of the datapath and the facet.                              *)
ExpiresInTime ==
    \A r \in Present :
        LET run == ExpirePeriod + 1
            late == Max({settled[r] + run, rule[r].modified + rule[r].hard}) + run
            quiet == Max({settled[r] + run, traffic[r] + rule[r].idle}) + run
        IN  ~rule[r].pending /\ ran =>
              /\ rule[r].hard # 0 => now <= late
              /\ rule[r].idle # 0 => now <= quiet

(* A rule, with an idle timeout that no FIN shortened, is idled out only   *)
(* if its packets paused for longer than the timeout less Lag, and if that *)
(* pause ended, it did so less than Lag ago: earlier packets have reached  *)
(* the rule's timestamp by way of whichever datapath flows and facets      *)
(* noted them.  The packets of the last Lag ticks need not have            *)
(* (IdleRuleHasNoFacets).                                                  *)
IdledOutPaused ==
    gone'.reasons = {"OFPRR_IDLE_TIMEOUT"} =>
        \A r \in gone'.rules : rule[r].idle = Idle =>
            now - traffic[r] > Idle - Lag \/ now - resumed[r] < Lag
BusyRuleStays == [][IdledOutPaused]_vars

(* Of more subfacets than the threshold the least recently used go: one    *)
(* that expires was used no later than one that stays, and at least as     *)
(* many as the threshold stay unless they are older than the histogram     *)
(* (subfacet_max_idle, line 4665).                                         *)
KeepsMostRecent ==
    ~ran /\ ran' =>
        LET kept == gone'.cached \ gone'.subfacets
            young == {r \in gone'.cached : now - traffic[r] <= Buckets * Width}
        IN  /\ \A r \in gone'.subfacets, q \in kept : traffic[r] <= traffic[q]
            /\ Cardinality(kept) >= Min({Threshold, Cardinality(young)})
LeastRecentGo == [][KeepsMostRecent]_vars

(* "that only happens when the rule has no facets left" (line 4805): a     *)
(* rule that is idled out has no cached flow.                              *)
IdleRuleHasNoFacets ==
    [][gone'.reasons = {"OFPRR_IDLE_TIMEOUT"} =>
         \A r \in gone'.rules : r \notin gone'.cached \/ r \in gone'.subfacets]_vars
=============================================================================
