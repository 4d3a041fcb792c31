---------------------------- MODULE SharedMemory ----------------------------
(***************************************************************************)
(* The pages of untrusted memory that hold the buckets of the flow cache's *)
(* hash maps.                                                              *)
(*                                                                         *)
(* The enclave grows a map (trusted/lib/hmap.c) into a page it finds, or   *)
(* has the untrusted side allocate (trusted/shared-memory-trusted.c,       *)
(* untrusted/shared-memory-untrusted.c), and gives the old page back.      *)
(* Sizes are in buckets; nodes and their hashes are left out.              *)
(***************************************************************************)
EXTENDS Integers, FiniteSets, FiniteSetsExt

CONSTANTS
    Maps,         \* the hash maps: entries and ut_crs
    Cap,          \* MAX_N_PAGES
    DefaultSize,  \* DEFAULT_PAGE_SIZE, in buckets (8 in the code)
    MaxNodes,     \* nodes a map may hold: MAX_CACHE_SIZE (5 as shipped)
    MaxBits       \* masks go up to 2^MaxBits - 1

(* The masks that hmap.c makes: all ones.                                  *)
Masks == {2^k - 1 : k \in 0 .. MaxBits}

(* Masks can get as large as a full map needs.                             *)
ASSUME SizesAssumption ==
    /\ Cap \in Nat /\ DefaultSize \in Nat /\ MaxNodes \in Nat /\ MaxBits \in Nat
    /\ Masks \subseteq Nat /\ {0, 3} \subseteq Masks /\ \E x \in Masks : MaxNodes \div 2 <= x

VARIABLES
    pages,    \* allocated, size and status of each page
    buckets,  \* the page of a map's buckets; One for the built-in single bucket
    mask,     \* hmap->mask
    n,        \* hmap->n
    unset     \* history: pages whose status malloc happened to leave non-free

vars == <<pages, buckets, mask, n, unset>>

Indices == 0 .. Cap - 1
One == -1
NoPage == -1
FREE == 0          \* PAGE_STATUS_FREE
ALLOCATED == 1     \* PAGE_STATUS_ALLOCATED

Unallocated == [allocated |-> FALSE, size |-> 0, status |-> FREE]

(* shared_memory_init: half of the pages; nothing sets their status.       *)
Init ==
    /\ unset \in SUBSET (0 .. (Cap \div 2) - 1)
    /\ pages = [i \in Indices |->
                  IF i < Cap \div 2
                  THEN [allocated |-> TRUE, size |-> DefaultSize,
                        status |-> IF i \in unset THEN ALLOCATED ELSE FREE]
                  ELSE Unallocated]
    /\ buckets = [m \in Maps |-> One]
    /\ mask = [m \in Maps |-> 0]
    /\ n = [m \in Maps |-> 0]

-----------------------------------------------------------------------------
calc_mask_Unsmeared(capacity) == capacity \div 2
calc_mask(capacity) ==
    IF capacity \div 2 = 0 THEN 0
    ELSE Max({3, Min({x \in Masks : x >= capacity \div 2})})

(* The lowest index in a set of pages, or NoPage.                          *)
Lowest(S) == IF S = {} THEN NoPage ELSE Min(S)
next_unallocated_page(p) == Lowest({i \in Indices : ~p[i].allocated})
next_free_page(p) == Lowest({i \in Indices : p[i].allocated /\ p[i].status = FREE})

(* The slot that ocall_allocate_page refills; a free page that is too      *)
(* small is replaced when no slot is left.                                 *)
shared_memory_allocate_page(p) ==
    IF next_unallocated_page(p) # NoPage THEN next_unallocated_page(p) ELSE next_free_page(p)

(* The last page that fits, else a new one of twice the requested size.    *)
shared_memory_get_page_Any(p, size) ==
    LET fit == {i \in Indices : p[i].allocated /\ size <= p[i].size}
        new == shared_memory_allocate_page(p)
    IN  CASE fit # {} -> [page |-> Max(fit), pages |-> [p EXCEPT ![Max(fit)].status = ALLOCATED]]
          [] fit = {} /\ new = NoPage -> [page |-> NoPage, pages |-> p]
          [] OTHER -> [page |-> new, pages |-> [p EXCEPT ![new] =
                         [allocated |-> TRUE, size |-> 2 * size, status |-> ALLOCATED]]]
shared_memory_get_page(p, size) ==
    LET fit == {i \in Indices : p[i].allocated /\ size <= p[i].size /\ p[i].status = FREE}
        new == shared_memory_allocate_page(p)
    IN  CASE fit # {} -> [page |-> Max(fit), pages |-> [p EXCEPT ![Max(fit)].status = ALLOCATED]]
          [] fit = {} /\ new = NoPage -> [page |-> NoPage, pages |-> p]
          [] OTHER -> [page |-> new, pages |-> [p EXCEPT ![new] =
                         [allocated |-> TRUE, size |-> 2 * size, status |-> ALLOCATED]]]

shared_memory_free_page_Forgotten(p, i) == p
shared_memory_free_page(p, i) ==
    IF i \in Indices /\ p[i].allocated THEN [p EXCEPT ![i].status = FREE] ELSE p

(* resize: without a page the map keeps its buckets.                       *)
resize(m, new_mask) ==
    LET got == shared_memory_get_page(pages, new_mask + 1)
    IN  IF got.page = NoPage THEN UNCHANGED <<pages, buckets, mask>>
        ELSE /\ mask' = [mask EXCEPT ![m] = new_mask]
             /\ buckets' = [buckets EXCEPT ![m] = got.page]
             /\ pages' = IF buckets[m] = One THEN got.pages
                         ELSE shared_memory_free_page(got.pages, buckets[m])

(* hmap_insert and hmap_expand.                                            *)
hmap_insert(m) ==
    /\ n[m] < MaxNodes
    /\ n' = [n EXCEPT ![m] = @ + 1]
    /\ IF n'[m] \div 2 > mask[m] /\ calc_mask(n'[m]) > mask[m]
       THEN resize(m, calc_mask(n'[m]))
       ELSE UNCHANGED <<pages, buckets, mask>>
    /\ UNCHANGED unset

(* hmap_remove never shrinks the map.                                      *)
hmap_remove(m) ==
    /\ n[m] > 0
    /\ n' = [n EXCEPT ![m] = @ - 1]
    /\ UNCHANGED <<pages, buckets, mask, unset>>

Next == \E m \in Maps : hmap_insert(m) \/ hmap_remove(m)

Spec == Init /\ [][Next]_vars

-----------------------------------------------------------------------------
TypeOK ==
    /\ pages \in [Indices -> [allocated : BOOLEAN, size : Nat, status : {FREE, ALLOCATED}]]
    /\ buckets \in [Maps -> Indices \cup {One}]
    /\ n \in [Maps -> 0 .. MaxNodes]
    /\ mask \in [Maps -> Masks]

(* The buckets of a map are a live page that is not free for others, is    *)
(* large enough for its mask, and belongs to no other map; a failed growth *)
(* leaves this true (hmap.c:83-91, shared-memory-trusted.c:43-69).         *)
BucketsOwned ==
    \A m \in Maps :
        /\ buckets[m] = One <=> mask[m] = 0
        /\ buckets[m] # One =>
             /\ pages[buckets[m]].allocated /\ pages[buckets[m]].status = ALLOCATED
             /\ pages[buckets[m]].size >= mask[m] + 1
        /\ \A k \in Maps \ {m} : buckets[m] = buckets[k] => buckets[m] = One

(* Growing gives the old page back: a page is taken only by a map, unless  *)
(* it was never usable because its status was never set (hmap.c:119-125).  *)
NoPageLost ==
    {i \in Indices : pages[i].allocated /\ pages[i].status # FREE}
        \subseteq {buckets[m] : m \in Maps} \cup unset

(* Together they are inductive: the page a map grows into is free, so no   *)
(* other map has it.                                                       *)
PagesInv == TypeOK /\ BucketsOwned /\ NoPageLost
=============================================================================
