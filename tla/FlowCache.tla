----------------------------- MODULE FlowCache ------------------------------
(***************************************************************************)
(* The flow cache of OFTonSGX: a fixed set of cache entries in untrusted   *)
(* memory that remember the results of classifier lookups.                 *)
(*                                                                         *)
(* The enclave thread fills it when it executes a lookup and empties it    *)
(* when rules go away (trusted/cache-trusted.c, called from                *)
(* trusted/call-table.c); untrusted code may read it under the same        *)
(* spinlock (untrusted/cache-untrusted.c).  A private checksum lets the    *)
(* enclave detect that the entries were changed behind its back.           *)
(*                                                                         *)
(* Flows, with bridge and table, are abstracted to the hash under which    *)
(* they are filed, rules to their untrusted addresses.                     *)
(***************************************************************************)
EXTENDS Integers, Sequences, FiniteSets, FiniteSetsExt, SequencesExt

CONSTANTS
    Entries,   \* the cls_cache_entry objects (MAX_CACHE_SIZE of them)
    Hashes,    \* values of flow_map_cache_calculate_hash, naturals
    Rules,     \* addresses of untrusted cls_rules, naturals without 0
    Modulus    \* the range of the checksum (2^64 in the code)

VARIABLES
    cr,        \* cache_entry->cr, 0 for NULL
    filed,     \* hash of hmap_node, by which entries is searched
    ut_filed,  \* hash of hmap_node_ut_crs, by which ut_crs is searched
    entries,   \* the entries linked in the hash map flow_cache->entries
    ut_crs,    \* the entries linked in the hash map flow_cache->ut_crs
    lru_list,  \* flow_cache->lru_list, front first
    checksum,  \* flow_cache_hash_checksum
    inserting, \* what flow_map_cache_insert holds between its two lock rounds
    recency    \* history: entries in the order of their last insertion or hit

cacheVars == <<cr, filed, ut_filed, entries, ut_crs, lru_list, checksum, inserting, recency>>

NULL == 0
NotInserting == [entry |-> NULL, hash |-> NULL, rule |-> NULL]
Idle == inserting = NotInserting

(* hash_int of their sum in the code; any function of the two would do.    *)
hash_int(h, rule) == (3 * h + rule) % Modulus
cache_entry_hash(e) == hash_int(filed[e], cr[e])

-----------------------------------------------------------------------------
(* flow_map_cache_init: entries are linked to lru_list one after another.  *)
CacheInit ==
    /\ cr = [e \in Entries |-> NULL]
    /\ filed = [e \in Entries |-> NULL] /\ ut_filed = filed
    /\ entries = {} /\ ut_crs = {}
    /\ lru_list \in SetToSeqs(Entries)
    /\ checksum = 0
    /\ inserting = NotInserting
    /\ recency = <<>>

list_remove(list, e) == RemoveAt(list, CHOOSE i \in DOMAIN list : list[i] = e)
ToBack(list, e) == Append(IF Contains(list, e) THEN list_remove(list, e) ELSE list, e)

INSERT(h) == (checksum + h) % Modulus
DELETE_NoWrap(h) == checksum - h
DELETE(h) == (checksum - h) % Modulus

remove_cache_entry_KeepsUtCr(S) ==
    /\ entries' = entries \ S
    /\ cr' = [e \in Entries |-> IF e \in S THEN NULL ELSE cr[e]]
    /\ UNCHANGED ut_crs
remove_cache_entry(S) ==
    /\ entries' = entries \ S
    /\ ut_crs' = ut_crs \ S
    /\ cr' = [e \in Entries |-> IF e \in S THEN NULL ELSE cr[e]]

(* First lock round of flow_map_cache_insert, at the end of a lookup that  *)
(* found a rule: the front entry is taken, and emptied if it is in use.    *)
BeginInsert(h, rule) ==
    LET e == Head(lru_list)
    IN  /\ Idle
        /\ IF cr[e] # NULL
           THEN checksum' = DELETE(cache_entry_hash(e)) /\ remove_cache_entry({e})
           ELSE UNCHANGED <<checksum, entries, ut_crs, cr>>
        /\ inserting' = [entry |-> e, hash |-> h, rule |-> rule]
        /\ UNCHANGED <<filed, ut_filed, lru_list, recency>>

(* cache_entry->cr = ut_cr and insert_cache_entry: the entry is linked in  *)
(* both maps under the hash of the flow, moved to the back, and summed.    *)
(* The assignment comes before the second lock round; nobody reads cr of   *)
(* an entry that is in neither map.                                        *)
FinishInsert ==
    LET e == inserting.entry
    IN  /\ ~Idle
        /\ cr' = [cr EXCEPT ![e] = inserting.rule]
        /\ filed' = [filed EXCEPT ![e] = inserting.hash]
        /\ ut_filed' = [ut_filed EXCEPT ![e] = inserting.hash]
        /\ entries' = entries \cup {e} /\ ut_crs' = ut_crs \cup {e}
        /\ lru_list' = ToBack(lru_list, e)
        /\ recency' = ToBack(recency, e)
        /\ checksum' = INSERT(hash_int(inserting.hash, inserting.rule))
        /\ inserting' = NotInserting

(* flow_map_cache_remove_ut_cr, after cls_remove, cls_rule_destroy,        *)
(* classifier_replace, delete_flows and remove_rules.  ut_cr_addr_hash     *)
(* hashes the memory the rule points to, whose contents are arbitrary.     *)
RemoveUtCr(rule, h) ==
    LET found == {e \in ut_crs : ut_filed[e] = h /\ cr[e] = rule}
    IN  /\ Idle
        /\ \/ found = {} /\ UNCHANGED cacheVars
           \/ \E e \in found :
                /\ checksum' = DELETE(cache_entry_hash(e))
                /\ remove_cache_entry({e})
                /\ lru_list' = ToBack(lru_list, e)
                /\ UNCHANGED <<filed, ut_filed, inserting, recency>>

(* flow_map_cache_flush, after ofproto_flush and a change of the           *)
(* taggable state of a table.                                              *)
Flush_KeepsSum ==
    /\ Idle
    /\ remove_cache_entry(entries)
    /\ UNCHANGED <<checksum, filed, ut_filed, lru_list, inserting, recency>>
Flush ==
    /\ Idle
    /\ remove_cache_entry(entries)
    /\ checksum' = 0
    /\ UNCHANGED <<filed, ut_filed, lru_list, inserting, recency>>

(* flow_map_cache_get_entry in untrusted code: a hit is moved to the back. *)
(* The locks let it run between the two rounds of an insertion, and so     *)
(* does the model; the one caller of today waits for the enclave then.     *)
GetEntry_NoMove(h) ==
    \E e \in {x \in entries : filed[x] = h} :
        /\ recency' = ToBack(recency, e)
        /\ UNCHANGED <<cr, filed, ut_filed, entries, ut_crs, lru_list, checksum, inserting>>
GetEntry(h) ==
    \E e \in {x \in entries : filed[x] = h} :
        /\ lru_list' = ToBack(lru_list, e)
        /\ recency' = ToBack(recency, e)
        /\ UNCHANGED <<cr, filed, ut_filed, entries, ut_crs, checksum, inserting>>

CacheNext ==
    \/ \E h \in Hashes, rule \in Rules : BeginInsert(h, rule) \/ RemoveUtCr(rule, h)
    \/ FinishInsert
    \/ Flush
    \/ \E h \in Hashes : GetEntry(h)

CacheSpec == CacheInit /\ [][CacheNext]_cacheVars

-----------------------------------------------------------------------------
CacheTypeOK ==
    /\ cr \in [Entries -> Rules \cup {NULL}]
    /\ filed \in [Entries -> Hashes \cup {NULL}] /\ ut_filed \in [Entries -> Hashes \cup {NULL}]
    /\ entries \subseteq Entries /\ ut_crs \subseteq Entries
    /\ checksum \in 0 .. Modulus - 1
    /\ lru_list \in Seq(Entries) /\ recency \in Seq(Entries)
    /\ Idle \/ inserting \in [entry : Entries, hash : Hashes, rule : Rules]

(* Both maps hold exactly the entries in use, and every entry is in the    *)
(* eviction queue once, also while an insertion is between its two lock    *)
(* rounds (cache-trusted.c:88-107, 146-174).                               *)
EntriesAgree ==
    /\ entries = ut_crs
    /\ entries = {e \in Entries : cr[e] # NULL}
    /\ ToSet(lru_list) = Entries /\ Len(lru_list) = Cardinality(Entries)
    /\ ~Idle => cr[inserting.entry] = NULL

(* flow_map_cache_is_valid accepts the cache whenever the enclave is       *)
(* between two calls: the running sum equals the sum over the entries,     *)
(* also after evictions, removals and flushes (cache-trusted.c:28-31).     *)
ChecksumValid ==
    Idle => checksum = MapThenSumSet(cache_entry_hash, entries) % Modulus

Before(list, e, f) == \E i, j \in DOMAIN list : i < j /\ list[i] = e /\ list[j] = f

(* An insertion that has to evict takes the entry that was used longest    *)
(* ago: every other entry in use was last inserted or hit after it         *)
(* (cache-trusted.c:88-99, 166-169, cache-untrusted.c:16-33).              *)
TakesLeastRecent ==
    Idle /\ ~Idle' =>
        LET e == inserting'.entry
        IN  cr[e] # NULL => \A f \in entries \ {e} : Before(recency, e, f)
EvictsLeastRecent == [][TakesLeastRecent]_cacheVars

(* Why: of the entries in use, lru_list has those that were used longer    *)
(* ago first.  Entries that are not in use may stand between them.         *)
Once(list) == \A i, j \in DOMAIN list : list[i] = list[j] => i = j
LruInv ==
    /\ Once(lru_list) /\ Once(recency) /\ entries \subseteq ToSet(recency)
    /\ \A e, f \in entries : Before(lru_list, e, f) => Before(recency, e, f)
CacheInv == CacheTypeOK /\ EntriesAgree /\ LruInv

(* "Mapping from Hash(untrusted cr addr) to cls_cache_entry"               *)
(* (include/common.h:179): entries of one rule are filed under one hash.   *)
UtCrsKeyedByAddress ==
    \A e, f \in ut_crs : cr[e] = cr[f] => ut_filed[e] = ut_filed[f]

(* "Put cache entry in the front of lru list" (cache-trusted.c:151): an    *)
(* entry that flow_map_cache_remove_ut_cr empties is the next to be taken. *)
RemovedEntryInFront ==
    [][\A rule \in Rules, h \in Hashes : RemoveUtCr(rule, h) =>
          \A e \in Entries : cr[e] # NULL /\ cr'[e] = NULL => Head(lru_list') = e]_cacheVars
=============================================================================
