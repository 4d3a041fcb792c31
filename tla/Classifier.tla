----------------------------- MODULE Classifier -----------------------------
(***************************************************************************)
(* The tuple-space classifier of the enclave (trusted/lib/classifier.c).   *)
(*                                                                         *)
(* A classifier is a hash map of tables, one per wildcard mask.  A table   *)
(* maps each value of its masked fields to a list of the rules that differ *)
(* only in priority, highest first.  A second list links the tables in     *)
(* order of decreasing max_priority, so that a lookup may stop early.      *)
(*                                                                         *)
(* Flows are abstracted to Fields and Values; a mask is a set of fields.   *)
(* NULL results are the record NULL.  The iteration order of a hash map is *)
(* a nondeterministic choice.                                              *)
(***************************************************************************)
EXTENDS Naturals, Sequences, FiniteSets, FiniteSetsExt, Functions, SequencesExt

CONSTANTS
    Fields,      \* the fields a match may fix
    Values,      \* the values a field may take
    Priorities,  \* the priorities of rules, a set of naturals
    MaxRules     \* bound on the rules a classifier holds at once

VARIABLES
    cls,         \* struct classifier: tables, tables_priority, n_rules
    cur          \* the cls_cursor of a CLS_CURSOR_FOR_EACH_SAFE loop

vars == <<cls, cur>>

Masks == SUBSET Fields
Packets == [Fields -> Values]
Matches == UNION {[m -> Values] : m \in Masks}

(* Two objects with the same match and priority are told apart by id.      *)
RuleSet == [id : {1, 2}, flow : Matches, priority : Priorities]
NULL == [id |-> 0, flow |-> <<>>, priority |-> 0]
MaskOf(rule) == DOMAIN rule.flow

-----------------------------------------------------------------------------
(* flow.c: comparing flows under a mask *)
minimask_combine(a, b) == a \cap b
minimask_has_extra(a, b) == ~(b \subseteq a)
miniflow_equal_in_minimask(a, b, mask) == \A f \in mask : a[f] = b[f]
flow_wildcards_fold_minimask(wc, mask) == wc \cup mask

(* Rules in a table: hmap of heads, each with the list of its equals.      *)
Put(f, k, v) == [x \in DOMAIN f \cup {k} |-> IF x = k THEN v ELSE f[x]]
Drop(f, k) == Restrict(f, DOMAIN f \ {k})
NewTable == [rules |-> <<>>, n_table_rules |-> 0, max_priority |-> 0, max_count |-> 0]
NewClassifier == [tables |-> <<>>, tables_priority |-> <<>>, n_rules |-> 0]
RulesOfTable(t) == UNION {Range(t.rules[k]) : k \in DOMAIN t.rules}
RulesOf(c) == UNION {RulesOfTable(c.tables[m]) : m \in DOMAIN c.tables}

find_match(t, mask, flow) ==
    LET key == Restrict(flow, mask)
    IN  IF key \in DOMAIN t.rules THEN Head(t.rules[key]) ELSE NULL

(* Position of the first element that satisfies Test, or one past the end. *)
FirstOf(s, Test(_)) == Min({i \in DOMAIN s : Test(s[i])} \cup {Len(s) + 1})
LastOf(s, Test(_)) == Max({i \in DOMAIN s : Test(s[i])} \cup {0})

-----------------------------------------------------------------------------
(* The list of tables in order of decreasing max_priority.                 *)
MoveEarlier(order, tables, mask) ==
    LET before == SubSeq(order, 1, FirstOf(order, LAMBDA m : m = mask) - 1)
        rest == Remove(order, mask)
        p == LastOf(before, LAMBDA m : tables[m].max_priority >= tables[mask].max_priority)
    IN  InsertAt(rest, p + 1, mask)

MoveLater_Stay(order, tables, mask) == order
MoveLater(order, tables, mask) ==
    LET here == FirstOf(order, LAMBDA m : m = mask)
        after == SubSeq(order, here + 1, Len(order))
        p == FirstOf(after, LAMBDA m : tables[m].max_priority <= tables[mask].max_priority)
    IN  InsertAt(Remove(order, mask), here + p - 1, mask)

update_tables_after_insertion(c, mask, new_priority) ==
    LET t == c.tables[mask]
        tables == [c.tables EXCEPT ![mask].max_priority = new_priority, ![mask].max_count = 1]
    IN  CASE new_priority = t.max_priority ->
               [c EXCEPT !.tables[mask].max_count = @ + 1]
          [] new_priority > t.max_priority ->
               [c EXCEPT !.tables = tables,
                         !.tables_priority = MoveEarlier(c.tables_priority, tables, mask)]
          [] OTHER -> c

(* The rescan looks at the heads only and starts from priority 0.          *)
update_tables_after_removal(c, mask, del_priority) ==
    LET t == c.tables[mask]
        top == Max({0} \cup {Head(t.rules[k]).priority : k \in DOMAIN t.rules})
        count == Cardinality({k \in DOMAIN t.rules : Head(t.rules[k]).priority = top})
        tables == [c.tables EXCEPT ![mask].max_priority = top, ![mask].max_count = count]
    IN  CASE del_priority # t.max_priority -> c
          [] del_priority = t.max_priority /\ t.max_count # 1 ->
               [c EXCEPT !.tables[mask].max_count = @ - 1]
          [] OTHER ->
               [c EXCEPT !.tables = tables,
                         !.tables_priority = MoveLater(c.tables_priority, tables, mask)]

-----------------------------------------------------------------------------
(* insert_rule: the list stays in order of decreasing priority, and a rule *)
(* of the same priority is replaced where it stands.                       *)
InsertionPoint_End(list, new) == Len(list) + 1
InsertionPoint(list, new) == FirstOf(list, LAMBDA r : new.priority >= r.priority)

Displaced(list, new) ==
    LET p == InsertionPoint(list, new)
    IN  IF p <= Len(list) /\ list[p].priority = new.priority THEN list[p] ELSE NULL

InsertInList(list, new) ==
    LET p == InsertionPoint(list, new)
    IN  IF Displaced(list, new) = NULL THEN InsertAt(list, p, new)
                                       ELSE [list EXCEPT ![p] = new]

insert_table(c, mask) ==
    [c EXCEPT !.tables = Put(@, mask, NewTable), !.tables_priority = Append(@, mask)]

ListOf(c, rule) ==
    IF MaskOf(rule) \in DOMAIN c.tables /\ rule.flow \in DOMAIN c.tables[MaskOf(rule)].rules
    THEN c.tables[MaskOf(rule)].rules[rule.flow] ELSE <<>>

(* The classifier after the call, and the rule it returns.                 *)
classifier_replace_result(c, rule) == Displaced(ListOf(c, rule), rule)
classifier_replace_CountsReplaced(c, rule) ==
    LET mask == MaskOf(rule)
        found == IF mask \in DOMAIN c.tables THEN c ELSE insert_table(c, mask)
        linked == [found EXCEPT !.tables[mask].rules =
                                    Put(@, rule.flow, InsertInList(ListOf(c, rule), rule))]
    IN  [update_tables_after_insertion(linked, mask, rule.priority)
           EXCEPT !.tables[mask].n_table_rules = @ + 1, !.n_rules = @ + 1]
classifier_replace_UncountedTable(c, rule) ==
    LET counted == classifier_replace_CountsReplaced(c, rule)
    IN  IF MaskOf(rule) \in DOMAIN c.tables THEN counted ELSE [counted EXCEPT !.n_rules = c.n_rules]
classifier_replace(c, rule) ==
    LET mask == MaskOf(rule)
        found == IF mask \in DOMAIN c.tables THEN c ELSE insert_table(c, mask)
        linked == [found EXCEPT !.tables[mask].rules =
                                    Put(@, rule.flow, InsertInList(ListOf(c, rule), rule))]
    IN  IF classifier_replace_result(c, rule) # NULL
        THEN linked
        ELSE [update_tables_after_insertion(linked, mask, rule.priority)
                EXCEPT !.tables[mask].n_table_rules = @ + 1, !.n_rules = @ + 1]

destroy_table(c, mask) ==
    [c EXCEPT !.tables = Drop(@, mask), !.tables_priority = Remove(@, mask)]

classifier_remove(c, rule) ==
    LET mask == MaskOf(rule)
        list == Remove(ListOf(c, rule), rule)
        unlinked == [c EXCEPT !.tables[mask].rules = IF list = <<>> THEN Drop(@, rule.flow)
                                                                  ELSE Put(@, rule.flow, list),
                              !.tables[mask].n_table_rules = @ - 1,
                              !.n_rules = @ - 1]
    IN  IF unlinked.tables[mask].n_table_rules = 0
        THEN destroy_table(unlinked, mask)
        ELSE update_tables_after_removal(unlinked, mask, rule.priority)

-----------------------------------------------------------------------------
(* classifier_lookup: the best rule, the fields that were significant, and *)
(* whether the walk over tables_priority has ended early.                  *)
LookupStep_StopAtFirst(c, flow, acc, mask) ==
    LET rule == find_match(c.tables[mask], mask, flow)
    IN  IF acc.best # NULL THEN acc
        ELSE [acc EXCEPT !.best = rule, !.wc = flow_wildcards_fold_minimask(@, mask)]
LookupStep_FoldHits(c, flow, acc, mask) ==
    LET rule == find_match(c.tables[mask], mask, flow)
        better == rule # NULL /\ (acc.best = NULL \/ rule.priority > acc.best.priority)
    IN  IF acc.stopped \/ (acc.best # NULL /\ c.tables[mask].max_priority <= acc.best.priority)
        THEN [acc EXCEPT !.stopped = TRUE]
        ELSE [acc EXCEPT !.best = IF better THEN rule ELSE @,
                         !.wc = IF better THEN flow_wildcards_fold_minimask(@, mask) ELSE @]
LookupStep(c, flow, acc, mask) ==
    LET rule == find_match(c.tables[mask], mask, flow)
        better == rule # NULL /\ (acc.best = NULL \/ rule.priority > acc.best.priority)
    IN  IF acc.stopped \/ (acc.best # NULL /\ c.tables[mask].max_priority <= acc.best.priority)
        THEN [acc EXCEPT !.stopped = TRUE]
        ELSE [acc EXCEPT !.best = IF better THEN rule ELSE @,
                         !.wc = flow_wildcards_fold_minimask(@, mask)]

classifier_lookup(c, flow) ==
    FoldLeft(LAMBDA acc, mask : LookupStep(c, flow, acc, mask),
             [best |-> NULL, wc |-> {}, stopped |-> FALSE], c.tables_priority)

classifier_find_rule_exactly(c, target) ==
    LET list == ListOf(c, target)
        p == InsertionPoint(list, target)
    IN  IF /\ MaskOf(target) \in DOMAIN c.tables
           /\ target.priority <= c.tables[MaskOf(target)].max_priority
           /\ p <= Len(list)
           /\ list[p].priority = target.priority
        THEN list[p] ELSE NULL

(* The tables up to the first whose max_priority is below the target's.    *)
classifier_rule_overlaps_EarlyBreak(c, target) ==
    LET end == FirstOf(c.tables_priority,
                       LAMBDA m : target.priority >= c.tables[m].max_priority)
    IN  \E i \in 1 .. end - 1 :
           \E rule \in RulesOfTable(c.tables[c.tables_priority[i]]) :
              /\ rule.priority = target.priority
              /\ miniflow_equal_in_minimask(target.flow, rule.flow,
                     minimask_combine(MaskOf(target), c.tables_priority[i]))
classifier_rule_overlaps(c, target) ==
    LET end == FirstOf(c.tables_priority,
                       LAMBDA m : target.priority > c.tables[m].max_priority)
    IN  \E i \in 1 .. end - 1 :
           \E rule \in RulesOfTable(c.tables[c.tables_priority[i]]) :
              /\ rule.priority = target.priority
              /\ miniflow_equal_in_minimask(target.flow, rule.flow,
                     minimask_combine(MaskOf(target), c.tables_priority[i]))

cls_rule_is_loose_match(rule, criteria) ==
    /\ ~minimask_has_extra(MaskOf(rule), DOMAIN criteria)
    /\ miniflow_equal_in_minimask(rule.flow, criteria, DOMAIN criteria)

-----------------------------------------------------------------------------
(* The cursor: the rule visited next, the heads of its table and the       *)
(* tables not passed yet.  seen and goal record what a loop has visited    *)
(* and what it has to visit.                                               *)
CursorIdle == [on |-> FALSE, criteria |-> <<>>, table |-> {}, rule |-> NULL,
               heads |-> {}, tables |-> {}, seen |-> {}, goal |-> {}]

rule_matches(key, criteria) == miniflow_equal_in_minimask(key, criteria, DOMAIN criteria)

(* The heads search_table can return, whatever the order of the hash map.  *)
search_table(c, mask, criteria) ==
    IF minimask_has_extra(mask, DOMAIN criteria) THEN {}
    ELSE {key \in DOMAIN c.tables[mask].rules : rule_matches(key, criteria)}

(* The cursors that have moved on to the first hit in one of the tables.   *)
EnterTable(c, k, tables) ==
    LET hits == {m \in tables : search_table(c, m, k.criteria) # {}}
    IN  IF hits = {} THEN {[k EXCEPT !.rule = NULL, !.heads = {}, !.tables = {}]}
        ELSE UNION {{[k EXCEPT !.table = m, !.tables = tables \ {m},
                               !.rule = Head(c.tables[m].rules[key]),
                               !.heads = search_table(c, m, k.criteria) \ {key}]
                       : key \in search_table(c, m, k.criteria)} : m \in hits}

cls_cursor_first(c, criteria) ==
    EnterTable(c, [CursorIdle EXCEPT !.on = TRUE, !.criteria = criteria], DOMAIN c.tables)

(* The next lower priority of the same match, else another head, else      *)
(* another table.                                                          *)
NextHead(c, k) ==
    IF k.heads # {}
    THEN {[k EXCEPT !.rule = Head(c.tables[k.table].rules[key]), !.heads = @ \ {key}]
            : key \in k.heads}
    ELSE EnterTable(c, k, k.tables)

cls_cursor_next_Circular(c, k) ==
    LET list == ListOf(c, k.rule)
        p == FirstOf(list, LAMBDA r : r = k.rule)
    IN  IF p < Len(list) THEN {[k EXCEPT !.rule = list[p + 1]]}
        ELSE {[k EXCEPT !.rule = list[1]]}
cls_cursor_next(c, k) ==
    LET list == ListOf(c, k.rule)
        p == FirstOf(list, LAMBDA r : r = k.rule)
    IN  IF p < Len(list) THEN {[k EXCEPT !.rule = list[p + 1]]} ELSE NextHead(c, k)

-----------------------------------------------------------------------------
Init ==
    /\ cls = NewClassifier
    /\ cur = CursorIdle

(* A flow is added, or replaces the flow with its match and priority.      *)
Replace(rule) ==
    /\ ~cur.on
    /\ rule \notin RulesOf(cls)
    /\ rule.id = 2 => [rule EXCEPT !.id = 1] \in RulesOf(cls)
    /\ cls.n_rules < MaxRules
    /\ cls' = classifier_replace(cls, rule)
    /\ UNCHANGED cur

RemoveRule(rule) ==
    /\ ~cur.on
    /\ cls' = classifier_remove(cls, rule)
    /\ UNCHANGED cur

(* CLS_CURSOR_FOR_EACH_SAFE: the loop starts, takes a step that computes   *)
(* the next rule before its body runs, and ends.                           *)
StartLoop(criteria) ==
    /\ ~cur.on
    /\ \E k \in cls_cursor_first(cls, criteria) :
          cur' = [k EXCEPT !.goal = {r \in RulesOf(cls) : cls_rule_is_loose_match(r, criteria)}]
    /\ UNCHANGED cls

LoopStep_RemoveFirst(remove) ==
    /\ cur.on /\ cur.rule # NULL
    /\ cls' = IF remove THEN classifier_remove(cls, cur.rule) ELSE cls
    /\ \E k \in cls_cursor_next(cls', cur) :
          cur' = [k EXCEPT !.seen = @ \cup {cur.rule}]
LoopStep(remove) ==
    /\ cur.on /\ cur.rule # NULL
    /\ \E k \in cls_cursor_next(cls, cur) :
          cur' = [k EXCEPT !.seen = @ \cup {cur.rule}]
    /\ cls' = IF remove THEN classifier_remove(cls, cur.rule) ELSE cls

EndLoop ==
    /\ cur.on /\ cur.rule = NULL
    /\ cur' = CursorIdle
    /\ UNCHANGED cls

EditNext ==
    \/ \E rule \in RuleSet : Replace(rule)
    \/ \E rule \in RulesOf(cls) : RemoveRule(rule)

Next ==
    \/ EditNext
    \/ \E criteria \in Matches : StartLoop(criteria)
    \/ \E remove \in BOOLEAN : LoopStep(remove)
    \/ EndLoop

Spec == Init /\ [][Next]_vars

(* The same without loops: they add no state of cls.                       *)
EditSpec == Init /\ [][EditNext]_vars

-----------------------------------------------------------------------------
(* The references: what the comments of classifier.c promise.              *)
Hits(flow) == {r \in RulesOf(cls) : \A f \in MaskOf(r) : flow[f] = r.flow[f]}
Targets == {r \in RuleSet : r.id = 1}
Best(S) == {r \in S : \A q \in S : q.priority <= r.priority}

TypeOK ==
    /\ DOMAIN cls.tables \subseteq Masks
    /\ \A m \in DOMAIN cls.tables :
          /\ DOMAIN cls.tables[m].rules \subseteq [m -> Values]
          /\ RulesOfTable(cls.tables[m]) \subseteq RuleSet
    /\ cls.n_rules \in 0 .. MaxRules
    /\ cur.rule \in RuleSet \cup {NULL}

(* classifier_lookup returns a rule of the highest priority among all that *)
(* match, and NULL only if none does, although it stops at the first table *)
(* whose max_priority cannot beat the rule in hand (classifier.c:239).     *)
LookupIsBest ==
    \A p \in Packets :
        LET best == classifier_lookup(cls, p).best
        IN  IF Hits(p) = {} THEN best = NULL ELSE best \in Best(Hits(p))

(* The fields a lookup reports as significant decide it: a packet equal on *)
(* these fields gets the same rule, so the datapath may cache the result   *)
(* for all of them (classifier.c:243-246).                                 *)
WildcardsDecide ==
    LET l == [p \in Packets |-> classifier_lookup(cls, p)]
    IN  \A p, q \in Packets :
            miniflow_equal_in_minimask(p, q, l[p].wc) => l[q].best = l[p].best

(* The caches agree with the rules: each table counts its rules, knows its *)
(* top priority and how many rules have it; tables_priority holds every    *)
(* table once in decreasing order; n_rules is the total.                   *)
TablesConsistent ==
    /\ cls.n_rules = Cardinality(RulesOf(cls))
    /\ ToSet(cls.tables_priority) = DOMAIN cls.tables
    /\ Len(cls.tables_priority) = Cardinality(DOMAIN cls.tables)
    /\ \A i, j \in DOMAIN cls.tables_priority : i < j =>
          cls.tables[cls.tables_priority[i]].max_priority
            >= cls.tables[cls.tables_priority[j]].max_priority
    /\ \A m \in DOMAIN cls.tables :
          LET t == cls.tables[m]
          IN  /\ t.n_table_rules = Cardinality(RulesOfTable(t)) /\ t.n_table_rules > 0
              /\ t.max_priority = Max({r.priority : r \in RulesOfTable(t)})
              /\ t.max_count = Cardinality(Best(RulesOfTable(t)))

(* classifier_find_rule_exactly finds the rule with the target's match and *)
(* priority whenever there is one, and at most one exists: two flows never *)
(* share match and priority (classifier.c:163-175, 283).                   *)
ExactIsUnique ==
    LET present == RulesOf(cls)
    IN  \A t \in Targets :
            {r \in present : r.flow = t.flow /\ r.priority = t.priority}
              = {classifier_find_rule_exactly(cls, t)} \ {NULL}

(* classifier_rule_overlaps sees exactly the rules of equal priority that  *)
(* some packet matches together with the target (classifier.c:332).        *)
OverlapIsExact ==
    LET hits == [p \in Packets |-> Hits(p)]
    IN  \A t \in Targets : classifier_rule_overlaps(cls, t) <=>
            \E p \in Packets : \E r \in hits[p] :
                r.priority = t.priority /\ \A f \in MaskOf(t) : p[f] = t.flow[f]

(* A SAFE loop that removes the rules it visits never follows a rule that  *)
(* is gone, and never meets one twice (classifier.h:116).                  *)
CursorNeverDangles ==
    cur.on /\ cur.rule # NULL => cur.rule \in (RulesOf(cls) \cap cur.goal) \ cur.seen

(* When it ends it has visited every rule that matched loosely at the      *)
(* start, lower priorities of one match included (classifier.c:437-443).   *)
CursorVisitsAll == cur.on /\ cur.rule = NULL => cur.seen = cur.goal
=============================================================================
