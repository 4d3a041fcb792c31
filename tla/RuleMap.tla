------------------------------ MODULE RuleMap -------------------------------
(***************************************************************************)
(* The enclave's map from the address of an untrusted rule to its own copy *)
(* (trusted/cls_rule/cls-rule.c over trusted/lib/hmap.c).                  *)
(*                                                                         *)
(* A copy is filed under the low 32 bits of the address, the only thing a  *)
(* look-up compares.  Copies with the same hash share a bucket, newest     *)
(* first, until the map grows, which turns their order round.              *)
(***************************************************************************)
EXTENDS Integers, Sequences, FiniteSets

CONSTANTS
    Addresses,   \* addresses at which ofproto allocates a struct rule
    Hashes,      \* values of 32 bits
    Low(_),      \* the low 32 bits of an address
    Leaks,       \* whether rules may be freed without cls_rule_destroy, as
                 \* ofopgroup_complete does in the optimized build
    MaxRules     \* bound on the number of rules ever initialised

ASSUME LowAssumption == \A a \in Addresses : Low(a) \in Hashes
ASSUME MaxRulesAssumption == MaxRules \in Nat

VARIABLES
    bucket,      \* copies filed under each hash, in the order of the bucket
    hmap_n,      \* hmap->n
    hmap_mask,   \* hmap->mask
    current,     \* history: the copy made by the last cls_rule_init of an address
    made         \* history: number of copies made, which identifies them

mapVars == <<bucket, hmap_n, hmap_mask, current, made>>

None == 0
Copies == [o_cls_rule : Addresses, id : 1 .. MaxRules]

MapInit ==
    /\ bucket = [h \in Hashes |-> <<>>]
    /\ hmap_n = 0 /\ hmap_mask = 0
    /\ current = [a \in Addresses |-> None]
    /\ made = 0

-----------------------------------------------------------------------------
(* sgx_rule_from_ut_cr: the first copy with the hash; the address is not   *)
(* compared.                                                               *)
Found(a) == IF bucket[Low(a)] = <<>> THEN None ELSE Head(bucket[Low(a)]).id

Reversed(s) == [i \in 1 .. Len(s) |-> s[Len(s) + 1 - i]]

(* resize inserts the nodes of a bucket one after another in front.        *)
hmap_resize_LosesNext(b) == [h \in Hashes |-> IF b[h] = <<>> THEN <<>> ELSE <<b[h][1]>>]
hmap_resize(b) == [h \in Hashes |-> Reversed(b[h])]

(* Masks are 0, 3, 7, ...: hmap_expand is reached when n / 2 exceeds mask. *)
hmap_expand(count) == IF hmap_mask = 0 THEN 3 ELSE 2 * hmap_mask + 1

hmap_insert_fast(b, h, copy) == [b EXCEPT ![h] = <<copy>> \o @]

(* ecall_cls_rule_init and node_insert.                                    *)
ecall_cls_rule_init(a) ==
    LET copy == [o_cls_rule |-> a, id |-> made + 1]
        b == hmap_insert_fast(bucket, Low(a), copy)
        grows == (hmap_n + 1) \div 2 > hmap_mask
    IN  /\ current[a] = None /\ made < MaxRules
        /\ made' = made + 1
        /\ current' = [current EXCEPT ![a] = made + 1]
        /\ hmap_n' = hmap_n + 1
        /\ hmap_mask' = IF grows THEN hmap_expand(hmap_n + 1) ELSE hmap_mask
        /\ bucket' = IF grows THEN hmap_resize(b) ELSE b

(* ecall_cls_rule_destroy and node_delete, which looks up again the        *)
(* address found in the copy: the first copy of the bucket goes, whichever *)
(* rule it was made for.  Both builds destroy rules that are replaced or   *)
(* backed out; the optimized one also those that are evicted in a batch.   *)
ecall_cls_rule_destroy_KeepsNode(a) ==
    /\ current[a] # None /\ Found(a) # None
    /\ current' = [current EXCEPT ![a] = None]
    /\ UNCHANGED <<bucket, hmap_n, hmap_mask, made>>
ecall_cls_rule_destroy(a) ==
    /\ current[a] # None /\ Found(a) # None
    /\ bucket' = [bucket EXCEPT ![Low(a)] = Tail(@)]
    /\ hmap_n' = hmap_n - 1
    /\ current' = [current EXCEPT ![a] = None]
    /\ UNCHANGED <<hmap_mask, made>>

(* A deletion completes in the optimized build: the rule is freed, its     *)
(* copy stays.                                                             *)
FreeRule(a) ==
    /\ Leaks /\ current[a] # None
    /\ current' = [current EXCEPT ![a] = None]
    /\ UNCHANGED <<bucket, hmap_n, hmap_mask, made>>

MapNext ==
    \E a \in Addresses : ecall_cls_rule_init(a) \/ ecall_cls_rule_destroy(a) \/ FreeRule(a)

MapSpec == MapInit /\ [][MapNext]_mapVars

-----------------------------------------------------------------------------
MapTypeOK ==
    /\ bucket \in [Hashes -> Seq(Copies)]
    /\ current \in [Addresses -> 0 .. MaxRules]
    /\ hmap_n \in Int /\ hmap_mask \in Nat /\ made \in 0 .. MaxRules

(* "From untrusted the Pointer the sgx_cls_rule is retrieved"              *)
(* (cls-rule.c:117): an ecall that is given a rule works on the copy made  *)
(* for this rule, whatever rules were created and destroyed at this or     *)
(* another address before, and whenever the map grew (cls-rule.c:193).     *)
LookupFindsCopy == \A a \in Addresses : current[a] # None => Found(a) = current[a]

(* The map holds the copies of the rules that exist, each in the bucket of *)
(* its address, and no other: nothing is left of a destroyed rule.         *)
NothingLeftBehind ==
    \A h \in Hashes : \A i \in 1 .. Len(bucket[h]) :
        /\ current[bucket[h][i].o_cls_rule] = bucket[h][i].id
        /\ Low(bucket[h][i].o_cls_rule) = h

(* What is left of LookupFindsCopy when rules are freed without being      *)
(* destroyed or low halves are shared: a bucket has at least as many       *)
(* copies as there are rules with that hash, all of addresses with that    *)
(* hash.  A look-up for a rule that exists thus never returns NULL, which  *)
(* no caller checks, although it may return a copy made for another or an  *)
(* earlier rule (cls-rule.c:32-36, 194-202).                               *)
Sharing(h) == {a \in Addresses : current[a] # None /\ Low(a) = h}
CopiesForRules ==
    \A h \in Hashes :
        /\ Len(bucket[h]) >= Cardinality(Sharing(h))
        /\ \A i \in 1 .. Len(bucket[h]) : Low(bucket[h][i].o_cls_rule) = h

(* With distinct low halves and no leaks a bucket holds at most the copy   *)
(* of the one address with that hash: what makes the missing comparison of *)
(* addresses harmless (cls-rule.c:193).                                    *)
MapInv ==
    /\ MapTypeOK
    /\ \A h \in Hashes :
          \/ bucket[h] = <<>>
          \/ \E a \in Addresses : /\ Low(a) = h /\ current[a] # None
                                  /\ bucket[h] = <<[o_cls_rule |-> a, id |-> current[a]]>>
    /\ \A a \in Addresses : current[a] # None => bucket[Low(a)] # <<>>
=============================================================================
