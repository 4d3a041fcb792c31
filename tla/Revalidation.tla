---------------------------- MODULE Revalidation ----------------------------
(***************************************************************************)
(* Which facets have to be translated again after a change of the flow     *)
(* tables (ofproto-dpif.c, "Optimized flow revalidation").                 *)
(*                                                                         *)
(* A facet caches the translation of a flow.  A table whose rules all have *)
(* the same wildcards, apart from a catch-all rule, gives every rule and   *)
(* every facet that is looked up in it a tag, so that a change of one rule *)
(* invalidates only the facets with its tag.  To see whether a table has   *)
(* that form its classifier tables are remembered by address: in           *)
(* ofproto-dpif.c without SGX, in trusted/oftable/oftable.c with it.       *)
(*                                                                         *)
(* Rules of table 0 send flows on to table 1, or drop them; a rule of      *)
(* table 1 has the mask "any", which matches every flow, or a field of the *)
(* flow and the value wanted.  Equal tags stand for equal hashes; bits     *)
(* that different tags share would only revalidate more.                   *)
(***************************************************************************)
EXTENDS Integers, Sequences, FiniteSets, SequencesExt

CONSTANTS
    Optimized,   \* TRUE: deletions are made in the enclave in one call
    Flows,       \* functions from the fields to their values
    Fields,      \* fields in order of priority
    Rules0,      \* the rules of table 0: pairs of a name and a priority
    Rules1,      \* the rules of table 1: pairs <<mask, value>>
    Outs,        \* actions of rules of table 1
    Addrs,       \* addresses for classifier tables
    MaxRules     \* rules at a time

VARIABLES
    rules,       \* the rules in the tables with their actions
    cls_table,   \* address of the classifier table of each mask in table 1, or Null
    catchall,    \* table->catchall_table
    other,       \* table->other_table
    need,        \* backer->need_revalidate
    tags,        \* backer->revalidate_set
    facets,      \* the cached translation of each flow, or NoFacet
    loop,        \* facets that type_run has still to revalidate
    freed_read,  \* history: a classifier table was read after it was freed
    served_stale \* history: a packet was handled by a facet that was out of date

vars == <<rules, cls_table, catchall, other, need, tags, facets, loop, freed_read, served_stale>>
tabling == <<rules, cls_table, catchall, other>>

Null == 0
Drop == "drop"
Resubmit == "resubmit"
NoTag == <<"", 0>>
NoFacet == [rule |-> {NoTag}, out |-> Drop, tags |-> {}]
CatchAll == "any"
Masks == {CatchAll} \cup ToSet(Fields)
AllTags == {NoTag} \cup Rules1
Busy == loop # {}

Matches(k, f) == k[1] = CatchAll \/ f[k[1]] = k[2]
Rank(k) == IF k[1] = CatchAll THEN Len(Fields) + 1 ELSE CHOOSE i \in DOMAIN Fields : Fields[i] = k[1]
Installed1(R) == DOMAIN R \cap Rules1
Installed0(R) == DOMAIN R \cap Rules0

(* rule_calculate_tag: none for a rule that matches everything.  The       *)
(* result reaches ofproto-dpif; the one call that loses it, in optimized   *)
(* builds with HOTCALL, is in CallSignatures.                              *)
rule_calculate_tag(k) == IF k[1] = CatchAll THEN NoTag ELSE k

(* The state that the steps of one handler pass on.                        *)
Tables == [rules |-> rules, cls |-> cls_table, catchall |-> catchall, other |-> other,
           need |-> need, tags |-> tags, facets |-> facets, freed |-> freed_read]
Become(s) ==
    /\ rules' = s.rules /\ cls_table' = s.cls /\ catchall' = s.catchall /\ other' = s.other
    /\ need' = s.need /\ tags' = s.tags /\ facets' = s.facets /\ freed_read' = s.freed

-----------------------------------------------------------------------------
(* Translation of flow f: rule_dpif_lookup in table 0 and, for a rule that *)
(* resubmits, in table 1; tag_the_flow reads the mask of other_table when  *)
(* the rule found there has no tag.  A freed table yields any tag, g.      *)
OtherMask(s) == {m \in Masks : s.cls[m] = s.other}
tag_the_flow_Untagged(s, f, found, g) ==
    CASE s.other = Null -> [tags |-> {}, freed |-> FALSE]
      [] found # {} -> [tags |-> {rule_calculate_tag(k) : k \in found} \ {NoTag}, freed |-> FALSE]
      [] OTHER -> [tags |-> {}, freed |-> FALSE]
tag_the_flow(s, f, found, g) ==
    CASE s.other = Null -> [tags |-> {}, freed |-> FALSE]
      [] \E k \in found : rule_calculate_tag(k) # NoTag ->
           [tags |-> {rule_calculate_tag(k) : k \in found}, freed |-> FALSE]
      [] OtherMask(s) = {} -> [tags |-> {g} \ {NoTag}, freed |-> TRUE]
      [] OTHER -> [tags |-> {<<m, f[m]>> : m \in OtherMask(s)}, freed |-> FALSE]

Best(S, better(_, _)) == {k \in S : \A j \in S : ~better(j, k)}
Found0(R) == Best(Installed0(R), LAMBDA j, k : j[2] > k[2])
Found1(R, f) == Best({k \in Installed1(R) : Matches(k, f)}, LAMBDA j, k : Rank(j) < Rank(k))
Resubmits(R) == \E k \in Found0(R) : R[k] = Resubmit
Translation(R, f) ==
    [rule |-> Found0(R),
     out  |-> IF Resubmits(R) /\ Found1(R, f) # {} THEN R[CHOOSE k \in Found1(R, f) : TRUE]
              ELSE Drop]

xlate_actions(s, f, g) ==
    LET t == IF Resubmits(s.rules) THEN tag_the_flow(s, f, Found1(s.rules, f), g)
             ELSE [tags |-> {}, freed |-> FALSE]
        r == Translation(s.rules, f)
    IN  [facet |-> [rule |-> r.rule, out |-> r.out, tags |-> t.tags], freed |-> t.freed]

(* facet_revalidate: the facet is translated again, or given up when its   *)
(* wildcards or its slow-path reason changed (the flows in gone).          *)
facet_revalidate(s, f, gone, g) ==
    LET x == xlate_actions(s, f, g)
    IN  [s EXCEPT !.facets[f] = IF f \in gone THEN NoFacet ELSE x.facet,
                  !.freed = @ \/ x.freed]

-----------------------------------------------------------------------------
(* table_update_taggable, ecall_oftable_update_taggable.                   *)
NonCatchall(s) == {m \in ToSet(Fields) : s.cls[m] # Null}
Kept(s) ==
    LET n == Cardinality({m \in Masks : s.cls[m] # Null})
    IN  [catchall |-> IF n \in 1 .. 2 THEN s.cls[CatchAll] ELSE Null,
         other |-> IF n \in 1 .. 2 /\ Cardinality(NonCatchall(s)) = 1
                   THEN s.cls[CHOOSE m \in NonCatchall(s) : TRUE] ELSE Null]
table_update_taggable_NoPointers(s) ==
    [s EXCEPT !.catchall = Kept(s).catchall, !.other = Kept(s).other]
table_update_taggable(s) ==
    LET k == Kept(s)
    IN  [s EXCEPT !.catchall = k.catchall, !.other = k.other,
                  !.need = @ \/ k.catchall # s.catchall \/ k.other # s.other]

(* rule_invalidate; a rule of table 0 has no tag.                          *)
rule_invalidate_NoTagToo(s0, k) ==
    LET s == IF k \in Rules1 THEN table_update_taggable(s0) ELSE s0
        tag == IF k \in Rules1 THEN rule_calculate_tag(k) ELSE NoTag
    IN  CASE s.need -> s
          [] ~s.need /\ s.other # Null -> [s EXCEPT !.tags = @ \cup {tag}]
          [] OTHER -> [s EXCEPT !.need = TRUE]
rule_invalidate(s0, k) ==
    LET s == IF k \in Rules1 THEN table_update_taggable(s0) ELSE s0
        tag == IF k \in Rules1 THEN rule_calculate_tag(k) ELSE NoTag
    IN  CASE s.need -> s
          [] ~s.need /\ tag # NoTag /\ s.other # Null -> [s EXCEPT !.tags = @ \cup {tag}]
          [] OTHER -> [s EXCEPT !.need = TRUE]

(* The classifier: a table is allocated at a for the first rule of a mask, *)
(* and freed with the last.                                                *)
classifier_replace(s, k, out, a) ==
    [s EXCEPT !.rules = [j \in DOMAIN @ \cup {k} |-> IF j = k THEN out ELSE @[j]],
              !.cls = IF k \in Rules1 /\ @[k[1]] = Null THEN [@ EXCEPT ![k[1]] = a] ELSE @]
classifier_remove(s, k) ==
    LET left == DOMAIN s.rules \ {k}
    IN  [s EXCEPT !.rules = [j \in left |-> s.rules[j]],
                  !.cls = IF k \in Rules1 /\ \A j \in left \cap Rules1 : j[1] # k[1]
                          THEN [@ EXCEPT ![k[1]] = Null] ELSE @]

(* rule_destruct: the facets of the rule are revalidated on the spot, and  *)
(* then the change is made known.                                          *)
rule_destruct(s, k, gone, g) ==
    LET mine == SetToSeq({f \in Flows : s.facets[f].rule = {k}})
    IN  rule_invalidate(FoldLeft(LAMBDA t, f : facet_revalidate(t, f, gone, g), s, mine), k)

-----------------------------------------------------------------------------
Init ==
    /\ rules = [k \in {} |-> Drop]
    /\ cls_table = [m \in Masks |-> Null]
    /\ catchall = Null /\ other = Null
    /\ need = FALSE /\ tags = {}
    /\ facets = [f \in Flows |-> NoFacet]
    /\ loop = {}
    /\ freed_read = FALSE /\ served_stale = FALSE

FreeAddrs == Addrs \ {cls_table[m] : m \in Masks}
Actions(k) == IF k \in Rules0 THEN {Resubmit, Drop} ELSE Outs

(* add_flow, which may evict the rules E of table 1 to make room: the      *)
(* optimized build takes them out before it constructs the new rule.       *)
(* Facets belong to rules of table 0, so none is revalidated here.         *)
add_flow(k, out, a, E) ==
    LET new == classifier_replace(Tables, k, out, a)
        gap(s) == FoldSet(LAMBDA e, t : classifier_remove(t, e), s, E)
        del(s) == FoldSet(LAMBDA e, t : rule_destruct(t, e, {}, NoTag), s, E)
    IN  /\ ~Busy
        /\ Cardinality(DOMAIN rules \cup {k}) <= MaxRules
        /\ E \subseteq (DOMAIN rules \cap Rules1) \ {k}
        /\ Become(IF Optimized THEN del(rule_invalidate(gap(new), k))
                  ELSE del(gap(rule_invalidate(new, k))))
        /\ UNCHANGED <<loop, served_stale>>

(* rule_modify_actions.                                                    *)
rule_modify_actions(k, out) ==
    /\ ~Busy
    /\ k \in DOMAIN rules
    /\ Become(rule_invalidate([Tables EXCEPT !.rules[k] = out], k))
    /\ UNCHANGED <<loop, served_stale>>

(* delete_flows__ of the rules in order: each is removed and destructed in *)
(* turn, or all are removed first by ecall_delete_flows.                   *)
delete_flows___InOneCall(order, gone, g) ==
    LET removed == FoldLeft(LAMBDA s, k : classifier_remove(s, k), Tables, order)
    IN  /\ ~Busy
        /\ Become(FoldLeft(LAMBDA s, k : rule_destruct(s, k, gone, g), removed, order))
        /\ UNCHANGED <<loop, served_stale>>
delete_flows__(order, gone, g) ==
    LET removed == FoldLeft(LAMBDA s, k : classifier_remove(s, k), Tables, order)
    IN  /\ ~Busy
        /\ Become(IF Optimized
                  THEN FoldLeft(LAMBDA s, k : rule_destruct(s, k, gone, g), removed, order)
                  ELSE FoldLeft(LAMBDA s, k : rule_destruct(classifier_remove(s, k), k, gone, g),
                               Tables, order))
        /\ UNCHANGED <<loop, served_stale>>

Current(f) == LET t == Translation(rules, f)
              IN  facets[f].rule = t.rule /\ facets[f].out = t.out
Cached(f) == facets[f] # NoFacet
Marked(f) == need \/ facets[f].tags \cap tags # {}

(* handle_flow_miss: facet_lookup_valid, which revalidates a marked facet, *)
(* then facet_create if there is none, for the miss rule (no rule of       *)
(* table 0) too.  run_fast_rl brings it into the loop of type_run.         *)
facet_lookup_valid(f) == Marked(f)
handle_flow_miss(f) ==
    LET x == xlate_actions(Tables, f, NoTag)
    IN  /\ IF Cached(f) /\ ~facet_lookup_valid(f)
           THEN /\ served_stale' = (served_stale \/ ~Current(f))
                /\ UNCHANGED <<tabling, need, tags, facets, freed_read>>
           ELSE /\ Become([Tables EXCEPT !.facets[f] = x.facet, !.freed = @ \/ x.freed])
                /\ UNCHANGED served_stale
        /\ UNCHANGED loop

(* type_run: the marks are cleared, the facets they concern revalidated    *)
(* one by one, with run_fast_rl after each.                                *)
Cleared == [Tables EXCEPT !.need = FALSE, !.tags = {}]
type_run_Unmarked(gone) ==
    /\ ~Busy
    /\ need \/ tags # {}
    /\ Become(Cleared)
    /\ UNCHANGED <<loop, served_stale>>
type_run(gone) ==
    LET all == {f \in Flows : Cached(f) /\ Marked(f)}
    IN  /\ ~Busy
        /\ need \/ tags # {}
        /\ \/ all = {} /\ Become(Cleared) /\ UNCHANGED loop
           \/ \E f \in all : Become(facet_revalidate(Cleared, f, gone, NoTag)) /\ loop' = all \ {f}
        /\ UNCHANGED served_stale
RevalidateNext(gone) ==
    \E f \in loop :
        /\ Become(facet_revalidate(Tables, f, gone, NoTag))
        /\ loop' = loop \ {f}
        /\ UNCHANGED served_stale

(* A flow that is idle loses its facet (expire).                           *)
facet_remove(f) ==
    /\ ~Busy
    /\ Cached(f)
    /\ facets' = [facets EXCEPT ![f] = NoFacet]
    /\ UNCHANGED <<tabling, need, tags, loop, freed_read, served_stale>>

(* What a freed table may yield to delete_flows__ of the optimized build;  *)
(* between two handlers the pointers are up to date.                       *)
Garbage == IF Optimized /\ other # Null THEN {NoTag} \cup {k \in Rules1 : k[1] # CatchAll}
           ELSE {NoTag}
Next ==
    \/ \E k \in Rules0 \cup Rules1 : \E out \in Actions(k), a \in FreeAddrs :
          \E E \in {{}} \cup {{e} : e \in Rules1} : add_flow(k, out, a, E)
    \/ \E k \in Rules0 \cup Rules1 : \E out \in Actions(k) : rule_modify_actions(k, out)
    \/ \E gone \in {{}, Flows}, g \in Garbage : \E S \in (SUBSET DOMAIN rules) \ {{}} :
          \E order \in SetToSeqs(S) : delete_flows__(order, gone, g)
    \/ \E f \in Flows : handle_flow_miss(f)
    \/ \E gone \in {{}, Flows} : type_run(gone) \/ RevalidateNext(gone)
    \/ \E f \in Flows : facet_remove(f)

Spec == Init /\ [][Next]_vars

(* The main loop calls type_run again and again, and it ends.              *)
Fairness == WF_vars(type_run({}) \/ RevalidateNext({}))
FairSpec == Spec /\ Fairness

-----------------------------------------------------------------------------
TypeOK ==
    /\ DOMAIN rules \subseteq Rules0 \cup Rules1
    /\ cls_table \in [Masks -> Addrs \cup {Null}]
    /\ {catchall, other} \subseteq Addrs \cup {Null}
    /\ need \in BOOLEAN /\ tags \subseteq Rules1
    /\ loop \subseteq Flows
    /\ \A f \in Flows : facets[f].tags \subseteq AllTags

(* facet_check_consistency never fails for a facet that is not marked for  *)
(* revalidation (ofproto-dpif.c:1705-1724): whatever the changes of the    *)
(* tables, their order and the addresses of classifier tables, the tags    *)
(* and the whole-table mark together cover every facet whose rule or       *)
(* actions are no longer those of the flow tables.                         *)
UnmarkedIsCurrent ==
    \A f \in Flows : Cached(f) /\ ~Marked(f) /\ f \notin loop => Current(f)

(* rule_calculate_tag reads the mask of a classifier table that still      *)
(* exists: the remembered pointers are brought up to date before any       *)
(* translation uses them.                                                  *)
TablesRead == ~freed_read

(* "The returned facet is guaranteed to be valid" (ofproto-dpif.c:5074):   *)
(* no packet is handled by a facet that is out of date.                    *)
LookupIsValid == ~served_stale

(* A facet that a change made out of date is revalidated or given up, if   *)
(* the main loop keeps calling type_run.                                   *)
EventuallyCurrent ==
    \A f \in Flows : (Cached(f) /\ ~Current(f)) ~> (~Cached(f) \/ Current(f))
=============================================================================
