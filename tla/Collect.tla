------------------------------ MODULE Collect -------------------------------
(***************************************************************************)
(* How rules are carried out of the enclave: the ecalls that walk the flow *)
(* tables with a cursor and fill a buffer of the untrusted caller          *)
(* (trusted/oftable, stats, dpif and ofproto), and what ofproto.c makes of *)
(* the buffer.                                                             *)
(*                                                                         *)
(* The plain build asks twice, first for the count (_c), then for the      *)
(* rules (_r).  The optimized build offers a buffer of fixed size and asks *)
(* again, from an index, for what did not fit.  Tables change only between *)
(* requests.                                                               *)
(***************************************************************************)
EXTENDS Integers, Sequences, FiniteSets, SequencesExt

CONSTANTS
    NTables,    \* SGX_n_tables; the last one is OFTABLE_HIDDEN
    MaxRules,   \* bound on the number of rules
    Shapes,     \* what a request can tell apart about a rule
    LooseBuf,   \* buffer_size of collect_rules_loose, 128 in the code
    StatsBuf,   \* buffer_size of collect_rules_loose_stats_request, 2
    EvictBuf    \* default_buffer_size of oftable_enable_eviction, 32

\* Fields of a shape: loose and exact, whether the request matches the rule
\* loosely or exactly; hidden, a priority above UINT16_MAX; passes, whether
\* out_port and cookie select it; pending; expires, whether it has a timeout.

VARIABLE order   \* the rules of each table, in the order of a cursor

Tables == 0 .. NTables - 1
HiddenTable == NTables - 1
AllTables == 255
Smaller(a, b) == IF a < b THEN a ELSE b
TableSeq(S) == SetToSortSeq(S, <)
Ids == {order[t][i].id : <<t, i>> \in {p \in Tables \X (1 .. MaxRules) : p[2] <= Len(order[p[1]])}}

-----------------------------------------------------------------------------
(* Cursors over the tables that FOR_EACH_MATCHING_TABLE visits.            *)
MatchingTables(table_id) ==
    IF table_id = AllTables THEN TableSeq(Tables \ {HiddenTable})
    ELSE IF table_id \in Tables THEN <<table_id>> ELSE <<>>

Loose(table_id) ==
    FlattenSeq([i \in DOMAIN MatchingTables(table_id) |->
                  SelectSeq(order[MatchingTables(table_id)[i]], LAMBDA r : r.loose)])
Exact(table_id) ==
    FlattenSeq([i \in DOMAIN MatchingTables(table_id) |->
                  SelectSeq(order[MatchingTables(table_id)[i]], LAMBDA r : r.exact)])
Everything == FlattenSeq([i \in 1 .. NTables |-> order[i - 1]])

(* The _r calls: they stop when p > elem, that is after elem + 1 rules.    *)
Fill(seq, elem) == SubSeq(seq, 1, Smaller(elem + 1, Len(seq)))

(* A request of the plain build: elem is what the _c call returned.        *)
CountThenFill_OneLess(seq) ==
    IF Len(seq) = 0 THEN [room |-> 0, written |-> <<>>]
    ELSE [room |-> Len(seq) - 1, written |-> Fill(seq, Len(seq) - 1)]
CountThenFill(seq) ==
    IF Len(seq) = 0 THEN [room |-> 0, written |-> <<>>]
    ELSE [room |-> Len(seq), written |-> Fill(seq, Len(seq))]

(* One call of the optimized build: the rules from index start on that fit *)
(* the buffer.  *n_rules is the number of rules, wherever the call starts. *)
Window(seq, start, size) == SubSeq(seq, start + 1, Smaller(start + size, Len(seq)))

(* A request of the optimized build.                                       *)
Ranged_FromStart(seq, size) ==
    LET n == Len(Window(seq, 0, size))
        leftovers == Len(seq) - n
    IN  [room |-> IF leftovers > 0 THEN Len(seq) ELSE size,
         written |-> Window(seq, 0, size) \o Window(seq, 0, leftovers)]
Ranged_FirstOnly(seq, size) == [room |-> size, written |-> Window(seq, 0, size)]
Ranged(seq, size) ==
    LET n == Len(Window(seq, 0, size))
        leftovers == Len(seq) - n
    IN  [room |-> IF leftovers > 0 THEN Len(seq) ELSE size,
         written |-> Window(seq, 0, size) \o Window(seq, n, leftovers)]

-----------------------------------------------------------------------------
(* The requests of ofproto.c.  POSTPONE is the error of a pending rule.    *)
POSTPONE == "OFPROTO_POSTPONE"
Selected(seq) == SelectSeq(seq, LAMBDA r : ~r.hidden /\ r.passes)
AnyPending(seq) == \E i \in DOMAIN seq : seq[i].pending

collect_rules_loose(buffer) ==
    [error |-> IF AnyPending(buffer) THEN POSTPONE ELSE "0", rules |-> Selected(buffer)]
loose_plain(table_id) == collect_rules_loose(CountThenFill(Loose(table_id)).written)
loose_optimized(table_id) == collect_rules_loose(Ranged(Loose(table_id), LooseBuf).written)

(* collect_rules_strict stops at a pending rule, without an error.         *)
collect_rules_strict(buffer) ==
    LET stop == {i \in DOMAIN buffer : buffer[i].pending}
        last == IF stop = {} THEN Len(buffer) ELSE (CHOOSE i \in stop : \A j \in stop : i <= j) - 1
    IN  Selected(SubSeq(buffer, 1, last))
strict_plain(table_id) == collect_rules_strict(CountThenFill(Exact(table_id)).written)
strict_optimized(table_id) ==
    [room |-> IF table_id = AllTables THEN NTables ELSE 1, written |-> Exact(table_id)]

(* collect_rules_loose_stats_request: the enclave leaves hidden rules out. *)
stats_buffer(table_id) == Ranged(SelectSeq(Loose(table_id), LAMBDA r : ~r.hidden), StatsBuf)

(* handle_flow_stats_request: what a reply says of a rule is taken from    *)
(* the rule, its match and priority in the optimized build from position i *)
(* of the arrays filled with the buffer.                                   *)
stats_optimized(table_id) ==
    LET buffer == stats_buffer(table_id).written
        rules == SelectSeq(buffer, LAMBDA r : r.passes)
    IN  IF AnyPending(buffer) THEN <<>>
        ELSE [i \in DOMAIN rules |-> [counters |-> rules[i].id, match |-> buffer[i].id]]

(* oftable_enable_eviction: the rules that are filed in eviction groups.   *)
WithTimeout(seq) == SelectSeq(seq, LAMBDA r : r.expires)
enable_eviction_plain(t) == WithTimeout(CountThenFill(order[t]).written)
enable_eviction_optimized(t) == WithTimeout(Ranged(order[t], EvictBuf).written)

(* ofproto_flush__ of the plain build, ofproto_get_all_flows and destruct. *)
flush_plain == CountThenFill(FlattenSeq([i \in 1 .. NTables - 1 |-> order[i - 1]]))
get_all_flows == CountThenFill(Everything)
destruct == CountThenFill(Everything)

-----------------------------------------------------------------------------
Init == order = [t \in Tables |-> <<>>]

(* classifier_replace: a cursor may meet the new rule anywhere.            *)
Insert(t, shape) ==
    /\ Cardinality(Ids) < MaxRules
    /\ shape.exact => \A i \in DOMAIN order[t] : ~order[t][i].exact
    /\ \E at \in 1 .. Len(order[t]) + 1 :
          order' = [order EXCEPT ![t] = InsertAt(@, at,
                      [id |-> CHOOSE n \in 1 .. MaxRules : n \notin Ids] @@ shape)]

(* classifier_remove.                                                      *)
RemoveRule(t, i) == i <= Len(order[t]) /\ order' = [order EXCEPT ![t] = RemoveAt(@, i)]

Next == \E t \in Tables : (\E shape \in Shapes : Insert(t, shape)) \/ (\E i \in 1 .. MaxRules : RemoveRule(t, i))

Spec == Init /\ [][Next]_order

-----------------------------------------------------------------------------
Requests == Tables \cup {AllTables}
Ideal(table_id) == {r \in ToSet(FlattenSeq([i \in DOMAIN MatchingTables(table_id) |-> order[MatchingTables(table_id)[i]]])) :
                       r.loose /\ ~r.hidden /\ r.passes}

(* Both builds find, once each, exactly the rules a loose request names,   *)
(* and postpone in the same cases, also when the buffer is too small for   *)
(* them (ofproto.c:2944-3047, oftable.c:190-219, 497-529).                 *)
LooseAgrees ==
    \A table_id \in Requests :
        /\ loose_optimized(table_id) = loose_plain(table_id)
        /\ ToSet(loose_plain(table_id).rules) = Ideal(table_id)
        /\ IsInjective(loose_plain(table_id).rules)

(* No call writes past the buffer it was given, whatever the tables hold   *)
(* (the tests p > elem in the _r calls, n >= buffer_size in the others).   *)
BuffersHold ==
    /\ \A table_id \in Requests : \A b \in {CountThenFill(Loose(table_id)), Ranged(Loose(table_id), LooseBuf),
            CountThenFill(Exact(table_id)), strict_optimized(table_id), stats_buffer(table_id)} :
          Len(b.written) <= b.room
    /\ \A b \in {flush_plain, get_all_flows, destruct} : Len(b.written) <= b.room

(* Enabling eviction files every rule with a timeout, and no other, in     *)
(* both builds (ofproto.c:5954-6016).                                      *)
EvictionCoversTable ==
    \A t \in Tables :
        /\ enable_eviction_optimized(t) = enable_eviction_plain(t)
        /\ ToSet(enable_eviction_plain(t)) = {r \in ToSet(order[t]) : r.expires}

(* "Obtains statistics for 'rule', storing the number of packets that have *)
(* matched it" (ofproto-provider.h): the counters in a reply of the        *)
(* optimized build stand next to the match of the rule they belong to.     *)
StatsDescribeRule ==
    \A table_id \in Requests : \A i \in DOMAIN stats_optimized(table_id) :
        stats_optimized(table_id)[i].match = stats_optimized(table_id)[i].counters
=============================================================================
