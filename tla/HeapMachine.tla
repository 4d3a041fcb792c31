---------------------------- MODULE HeapMachine -----------------------------
(* The operations of Heap applied to one heap in any order.  Nodes are     *)
(* told apart by their position only.                                      *)
EXTENDS Heap

CONSTANTS
    HeapPriorities,  \* priorities of the nodes, a set of naturals
    MaxHeap          \* bound on the nodes in the heap

VARIABLES
    heap,            \* the array
    last             \* history: the priorities the last call took out and put in

Node(p) == [priority |-> p]
Count(h, p) == Len(SelectSeq(h, LAMBDA x : x.priority = p))

HeapInit == heap = <<>> /\ last = [out |-> {}, in |-> {}]

InsertNode(p) ==
    /\ Len(heap) < MaxHeap
    /\ heap' = heap_insert(heap, Node(p))
    /\ last' = [out |-> {}, in |-> {p}]

RemoveNode(i) ==
    /\ heap' = heap_remove(heap, i)
    /\ last' = [out |-> {heap[i].priority}, in |-> {}]

ChangeNode(i, p) ==
    /\ heap' = heap_change(heap, i, p)
    /\ last' = [out |-> {heap[i].priority}, in |-> {p}]

PopNode ==
    /\ heap # <<>>
    /\ heap' = heap_pop(heap)
    /\ last' = [out |-> {heap[Len(heap)].priority}, in |-> {}]

HeapNext ==
    \/ \E p \in HeapPriorities : InsertNode(p)
    \/ \E i \in DOMAIN heap : RemoveNode(i)
    \/ \E i \in DOMAIN heap, p \in HeapPriorities : ChangeNode(i, p)
    \/ PopNode

HeapSpec == HeapInit /\ [][HeapNext]_<<heap, last>>

(* Every operation restores the heap order, wherever in the tree the node  *)
(* was and whichever way its replacement has to move (heap.c:77-96,168).   *)
HeapOrdered == IsHeap(heap)

(* Every operation takes out the node it was given and no other, and adds  *)
(* the one it was given: swaps lose and duplicate nothing (heap.c:152).    *)
MovesGivenNodes ==
    \A p \in HeapPriorities :
        Count(heap', p) = Count(heap, p) + (IF p \in last'.in THEN 1 ELSE 0)
                                         - (IF p \in last'.out THEN 1 ELSE 0)
ContentsExact == [][MovesGivenNodes]_<<heap, last>>

(* heap_rebuild turns any array into a heap with the same nodes, in        *)
(* particular a heap in which a raw change was made (heap.c:141-149).      *)
RebuildRestores ==
    /\ IsHeap(heap_rebuild(Reverse(heap)))
    /\ \A i \in DOMAIN heap : \A p \in HeapPriorities :
          LET raw == [heap EXCEPT ![i].priority = p]
              rebuilt == heap_rebuild(raw)
          IN  IsHeap(rebuilt) /\ \A q \in HeapPriorities : Count(rebuilt, q) = Count(raw, q)
=============================================================================
