--------------------------- MODULE EvictionGroups ---------------------------
(***************************************************************************)
(* The enclave's eviction groups: trusted/eviction/eviction.c and the      *)
(* parts of trusted/oftable/oftable.c and ovs_sgx/ofproto.c that drive     *)
(* them.  A flow table files each rule that has a timeout in a group of    *)
(* rules that agree on the eviction fields.  A group is a heap of rules    *)
(* by eviction priority; the groups are themselves in a heap by size.      *)
(* The module has one table; the bridge's other tables reach it only       *)
(* through ofproto->state, when one of them has too many flows.            *)
(*                                                                         *)
(* A rule is known by its key, the match and priority by which the         *)
(* classifier tells rules apart; key[1] is its value of the eviction       *)
(* field.  An unsigned int has IntBits bits and a group's size is capped   *)
(* at SizeCap (UINT16_MAX in the code); Randoms are the values of          *)
(* random_uint16(), the low-order part of a group's priority.              *)
(***************************************************************************)
EXTENDS Integers, FiniteSets, FiniteSetsExt, Functions, Heap

CONSTANTS
    KeySeq,       \* the keys, in the order a classifier cursor visits them
    EvPriorities, \* eviction priorities of rules with a timeout
    Limits,       \* values configured for max_flows
    SizeCap, Randoms, IntBits

VARIABLES
    table,        \* SGX_oftables[bridge_id][table_id]
    evict_due,    \* ofproto->state = S_EVICT
    out           \* what ecall_ofproto_evict returned, if it was the last call

vars == <<table, evict_due, out>>

NULL == "NULL"
Keys == Range(KeySeq)
UINT_MAX == 2 ^ IntBits - 1
as_int(u) == IF u < 2 ^ (IntBits - 1) THEN u ELSE u - 2 ^ IntBits
R == Cardinality(Randoms)

(* A rule's timeout and eviction priority (0 without a timeout).  The      *)
(* priority is the one the rule came with: when groups are built anew the  *)
(* code computes it again from the rule's last use, which is left out.     *)
Rules == [timed : {TRUE}, priority : EvPriorities] \cup [timed : {FALSE}, priority : {0}]

NewTable ==
    [cls |-> <<>>,                             \* key -> rule, for the keys present
     fields |-> NULL,                          \* eviction_fields: NULL, or what to group by
     max_flows |-> UINT_MAX,
     groups |-> <<>>,                          \* eviction_groups_by_id: id -> heap of rules
     by_size |-> <<>>,                         \* eviction_groups_by_size: heap of ids
     evict_group |-> [k \in Keys |-> NULL]]    \* of the sgx_cls_rule of a key

Count(tb) == Cardinality(DOMAIN tb.cls)
Enabled(tb) == tb.fields # NULL
Timed(tb) == {k \in DOMAIN tb.cls : tb.cls[k].timed}
Position(h, field, v) == CHOOSE i \in DOMAIN h : h[i][field] = v
Without(f, x) == Restrict(f, DOMAIN f \ {x})
With(f, x, v) == [y \in DOMAIN f \cup {x} |-> IF y = x THEN v ELSE f[y]]

-----------------------------------------------------------------------------
(* Groups.                                                                 *)

eviction_group_hash_rule(tb, k) == IF tb.fields = "field" THEN k[1] ELSE "all"

GroupPriority(n, rnd) == Min({SizeCap, n}) * R + rnd

sgx_evg_group_resize_Keep(tb, id, rnd) == tb
sgx_evg_group_resize(tb, id, rnd) ==
    [tb EXCEPT !.by_size = heap_change(tb.by_size, Position(tb.by_size, "id", id),
                                       GroupPriority(Len(tb.groups[id]), rnd))]

sgx_evg_find(tb, id, priority) ==
    IF id \in DOMAIN tb.groups THEN tb
    ELSE [tb EXCEPT !.groups = With(@, id, <<>>),
                    !.by_size = heap_insert(@, [id |-> id, priority |-> priority])]

ecall_evg_add_rule(tb, k, group_priority, priority, rnd) ==
    LET id == eviction_group_hash_rule(tb, k)
        found == sgx_evg_find(tb, id, group_priority)
        added == [found EXCEPT !.evict_group[k] = id,
                               !.groups[id] = heap_insert(@, [key |-> k, priority |-> priority])]
    IN  sgx_evg_group_resize(added, id, rnd)

sgx_evg_destroy(tb, id) ==
    [tb EXCEPT !.evict_group = [k \in Keys |-> IF @[k] = id THEN NULL ELSE @[k]],
               !.groups = Without(@, id),
               !.by_size = heap_remove(@, Position(@, "id", id))]

ecall_evg_remove_rule_KeepsEmpty(tb, k, rnd) ==
    IF tb.evict_group[k] = NULL THEN tb
    ELSE LET id == tb.evict_group[k]
             rest == heap_remove(tb.groups[id], Position(tb.groups[id], "key", k))
         IN  sgx_evg_group_resize([tb EXCEPT !.evict_group[k] = NULL, !.groups[id] = rest], id, rnd)
ecall_evg_remove_rule(tb, k, rnd) ==
    IF tb.evict_group[k] = NULL THEN tb
    ELSE LET id == tb.evict_group[k]
             rest == heap_remove(tb.groups[id], Position(tb.groups[id], "key", k))
             removed == [tb EXCEPT !.evict_group[k] = NULL, !.groups[id] = rest]
         IN  IF rest = <<>> THEN sgx_evg_destroy(removed, id)
             ELSE sgx_evg_group_resize(removed, id, rnd)

-----------------------------------------------------------------------------
(* Choosing.  HEAP_FOR_EACH visits an array in order; the only rule that   *)
(* is not evictable is the one ecall_choose_rule_to_evict_p shields.       *)

FirstEvictable(h, shielded) ==
    LET S == {i \in DOMAIN h : h[i].key # shielded}
    IN  IF S = {} THEN NULL ELSE h[Min(S)].key

ecall_choose_rule_to_evict(tb, shielded) ==
    LET first == [i \in DOMAIN tb.by_size |->
                     FirstEvictable(tb.groups[tb.by_size[i].id], shielded)]
        S == {i \in DOMAIN first : first[i] # NULL}
    IN  IF ~Enabled(tb) \/ S = {} THEN NULL ELSE first[Min(S)]

ecall_choose_rule_to_evict_p(tb, replacer) == ecall_choose_rule_to_evict(tb, replacer)

(* ecall_ofproto_evict: chooses rules and takes each out of its group as   *)
(* long as the count is over the limit, which is read into an int; then    *)
(* files them all again.  The outcomes differ in the random parts.         *)
RECURSIVE Evictions(_, _, _)
Evictions(tb, count, evicted) ==
    LET k == ecall_choose_rule_to_evict(tb, NULL)
        id == tb.evict_group[k]
        entry == [key |-> k,
                  group_priority |-> tb.by_size[Position(tb.by_size, "id", id)].priority,
                  priority |-> tb.groups[id][Position(tb.groups[id], "key", k)].priority]
    IN  IF count <= as_int(tb.max_flows) \/ k = NULL THEN {[tb |-> tb, evicted |-> evicted]}
        ELSE UNION {Evictions(ecall_evg_remove_rule(tb, k, rnd), count - 1, Append(evicted, entry)) :
                       rnd \in Randoms}

AddBack_Dropped(tbs, e) == {ecall_evg_remove_rule(tb, e.key, 0) : tb \in tbs}
AddBack(tbs, e) ==
    {ecall_evg_add_rule(tb, e.key, e.group_priority, e.priority, rnd) : tb \in tbs, rnd \in Randoms}

total_nr_evictions(tb) ==
    IF Count(tb) > as_int(tb.max_flows) THEN Count(tb) - as_int(tb.max_flows) ELSE 0

-----------------------------------------------------------------------------
NoOutput == [keys |-> <<>>, total |-> 0]
Init == table = NewTable /\ evict_due = FALSE /\ out = NoOutput

(* classifier_replace, then the groups: oftable_replace_rule, and the same *)
(* lines of ecall_add_flow.                                                *)
Replaced(tb, k, rule) ==
    LET replaced == {[ecall_evg_remove_rule(tb, k, rnd) EXCEPT !.cls = With(@, k, rule)] : rnd \in Randoms}
    IN  IF Enabled(tb) /\ rule.timed
        THEN {ecall_evg_add_rule(r, k, rnd0, rule.priority, rnd) :
                 r \in replaced, rnd0 \in Randoms, rnd \in Randoms}
        ELSE replaced

oftable_remove_rule(tb, k, rnd) == ecall_evg_remove_rule([tb EXCEPT !.cls = Without(@, k)], k, rnd)

oftable_replace_rule(k, rule) ==
    /\ table' \in Replaced(table, k, rule)
    /\ UNCHANGED evict_due /\ out' = NoOutput

(* A table over its limit loses the rule chosen, if there is one.  The     *)
(* early returns (a read-only table, a deletion pending on an equal rule,  *)
(* an overlap) leave the table as it was.                                  *)
ecall_add_flow(k, rule) ==
    /\ \E rnd \in Randoms, tb \in Replaced(table, k, rule) :
          LET evict == ecall_choose_rule_to_evict_p(tb, k)
          IN  table' = IF Count(tb) > tb.max_flows /\ evict # NULL
                       THEN oftable_remove_rule(tb, evict, rnd) ELSE tb
    /\ UNCHANGED evict_due /\ out' = NoOutput

(* Part of every deletion, expiry and eviction; the sgx_cls_rule is then   *)
(* dropped from the map of rules, which no group reads.                    *)
RemoveRule(k) ==
    /\ \E rnd \in Randoms : table' = oftable_remove_rule(table, k, rnd)
    /\ UNCHANGED evict_due /\ out' = NoOutput

ecall_oftable_disable_eviction(tb) ==
    [tb EXCEPT !.fields = NULL, !.groups = <<>>, !.by_size = <<>>,
               !.evict_group = [k \in Keys |-> NULL]]

(* Enabling with other fields files all rules with a timeout again.        *)
oftable_enable_eviction(tb, fields) ==
    LET fresh == [ecall_oftable_disable_eviction(tb) EXCEPT !.fields = fields]
        timed == SelectSeq(KeySeq, LAMBDA k : k \in Timed(tb))
        entries == [i \in DOMAIN timed |->
                       [key |-> timed[i], group_priority |-> 0, priority |-> tb.cls[timed[i]].priority]]
    IN  IF tb.fields = fields THEN {tb} ELSE FoldLeft(AddBack, {fresh}, entries)

(* The table's name has no part in eviction; a read-only table is left.    *)
ofproto_configure_table(fields, limit) ==
    LET configured == IF fields = NULL THEN {ecall_oftable_disable_eviction(table)}
                      ELSE oftable_enable_eviction(table, fields)
    IN  \E tb \in configured :
          /\ table' = [tb EXCEPT !.max_flows = limit]
          /\ evict_due' = (evict_due \/ (Enabled(tb) /\ Count(tb) > limit))
          /\ out' = NoOutput

(* Another table of the bridge was configured below its number of flows.   *)
OtherTableOverflows == evict_due' = TRUE /\ UNCHANGED table /\ out' = NoOutput

(* ofproto_run calls ofproto_evict while the state is S_EVICT; the state   *)
(* lasts as long as a deletion is pending.  The rules offered are then     *)
(* removed one by one, RemoveRule, as far as none has an operation pending.*)
ecall_ofproto_evict ==
    /\ evict_due
    /\ IF Enabled(table)
       THEN \E e \in Evictions(table, Count(table), <<>>) :
              /\ table' \in FoldLeft(AddBack, {e.tb}, e.evicted)
              /\ out' = [keys |-> [i \in DOMAIN e.evicted |-> e.evicted[i].key],
                         total |-> total_nr_evictions(table)]
       ELSE UNCHANGED table /\ out' = NoOutput
    /\ evict_due' \in BOOLEAN

Next ==
    \/ \E k \in Keys, rule \in Rules : oftable_replace_rule(k, rule) \/ ecall_add_flow(k, rule)
    \/ \E k \in DOMAIN table.cls : RemoveRule(k)
    \/ \E fields \in {NULL, "none", "field"}, limit \in Limits : ofproto_configure_table(fields, limit)
    \/ OtherTableOverflows
    \/ ecall_ofproto_evict

Spec == Init /\ [][Next]_vars

-----------------------------------------------------------------------------
(* The table has its type: the heaps are sequences of nodes of the right   *)
(* kind, and a group's priority fits 32 bits, (size << 16) | random.       *)
TypeOK ==
    /\ DOMAIN table.cls \subseteq Keys /\ Range(table.cls) \subseteq Rules
    /\ table.fields \in {NULL, "none", "field"} /\ table.max_flows \in Limits \cup {UINT_MAX}
    /\ table.evict_group \in [Keys -> {NULL, "all"} \cup {k[1] : k \in Keys}]
    /\ \A i \in DOMAIN table.by_size : table.by_size[i].priority \in R .. SizeCap * R + R - 1
    /\ evict_due \in BOOLEAN /\ Range(out.keys) \subseteq Keys

Members(id) == {k \in Timed(table) : eviction_group_hash_rule(table, k) = id}

(* With eviction enabled, exactly the rules with a timeout are in a group, *)
(* each in the one its fields say, once, under its own priority, and the   *)
(* size heap has each group once, under its present size; rules filed      *)
(* before the fields changed, or taken out while ofproto_evict was         *)
(* choosing, are no exception (eviction.c:19-57, 96-138, 230-239).         *)
GroupsPartition ==
    IF ~Enabled(table) THEN table.groups = <<>> /\ table.by_size = <<>>
    ELSE LET ids == {eviction_group_hash_rule(table, k) : k \in Timed(table)}
         IN  /\ DOMAIN table.groups = ids
             /\ Len(table.by_size) = Cardinality(ids)
             /\ {table.by_size[i].id : i \in DOMAIN table.by_size} = ids
             /\ \A i \in DOMAIN table.by_size :
                   table.by_size[i].priority \div R = Min({SizeCap, Len(table.groups[table.by_size[i].id])})
             /\ \A id \in ids :
                   /\ Len(table.groups[id]) = Cardinality(Members(id))
                   /\ Range(table.groups[id]) =
                        {[key |-> k, priority |-> table.cls[k].priority] : k \in Members(id)}
             /\ \A k \in Keys : table.evict_group[k] =
                   IF k \in Timed(table) THEN eviction_group_hash_rule(table, k) ELSE NULL

(* k is a fair victim among the rules S: no group is larger than its own,  *)
(* sizes beyond the cap counting as the cap, and no rule of its group      *)
(* expires sooner.                                                         *)
Fair(k, S) ==
    LET G(x) == {y \in S : eviction_group_hash_rule(table, y) = eviction_group_hash_rule(table, x)}
        Size(x) == Min({SizeCap, Cardinality(G(x))})
    IN  /\ \A x \in S : Size(x) <= Size(k)
        /\ \A x \in G(k) : table.cls[x].priority <= table.cls[k].priority

(* An insertion into a full table never evicts the rule just inserted,     *)
(* finds a victim whenever another rule has a timeout, and takes a fair    *)
(* one unless the new rule itself is the one that would go                 *)
(* (eviction.c:59-94: the order of the heaps decides).                     *)
VictimIsFair ==
    Enabled(table) => \A k \in DOMAIN table.cls :
        LET victim == ecall_choose_rule_to_evict_p(table, k)
        IN  /\ (victim = NULL) <=> (Timed(table) \ {k} = {})
            /\ victim # NULL =>
                  /\ victim \in Timed(table) \ {k}
                  /\ Fair(victim, Timed(table)) \/ ecall_choose_rule_to_evict(table, NULL) = k

(* ofproto_evict offers distinct rules with a timeout, each fair among     *)
(* those not yet offered, until the table would be within its limit or     *)
(* only permanent rules would be left (eviction.c:203-227).                *)
FairOffer ==
    out'.total > 0 /\ table.max_flows # UINT_MAX =>
        LET s == out'.keys
        IN  /\ \A i \in DOMAIN s : Fair(s[i], Timed(table) \ {s[j] : j \in 1 .. i - 1})
            /\ IsInjective(s)
            /\ Len(s) = Min({Count(table) - table.max_flows, Cardinality(Timed(table))})
OffersFairly == [][FairOffer]_vars

(* ofproto-provider.h:167: "Maximum number of flows or UINT_MAX if there   *)
(* is no limit besides any limit imposed by resource limitations."  A      *)
(* table without a limit has no rule evicted.                              *)
KeptWithoutLimit == table.max_flows = UINT_MAX => out'.keys = <<>>
NoLimitNoEviction == [][KeptWithoutLimit]_vars

(* ofproto.c:5516: ofproto_evict "evicts as many flows as necessary and    *)
(* currently feasible": the number it is told to evict is the number of    *)
(* rules the enclave hands over.                                           *)
TotalIsFeasible == out.total = Len(out.keys)
=============================================================================
