-------------------------------- MODULE Heap --------------------------------
(***************************************************************************)
(* The max-heap of trusted/lib/heap.c, as operators on the array.          *)
(* A heap is the sequence array[1 .. n] of records with a field priority;  *)
(* a node's idx is its position.                                           *)
(***************************************************************************)
EXTENDS Naturals, Sequences, SequencesExt

parent(i) == i \div 2
left(i) == 2 * i
right(i) == 2 * i + 1
is_leaf(h, i) == left(i) > Len(h)
swap_nodes(h, i, j) == [h EXCEPT ![i] = h[j], ![j] = h[i]]

RECURSIVE float_up(_, _)
float_up(h, i) ==
    IF i <= 1 \/ h[parent(i)].priority >= h[i].priority THEN h
    ELSE float_up(swap_nodes(h, parent(i), i), parent(i))

(* The child float_down swaps with: the larger one, if larger than i.      *)
LargerChild_LeftOnly(h, i) == IF h[left(i)].priority > h[i].priority THEN left(i) ELSE i
LargerChild(h, i) ==
    LET l == IF h[left(i)].priority > h[i].priority THEN left(i) ELSE i
    IN  IF right(i) <= Len(h) /\ h[right(i)].priority > h[l].priority THEN right(i) ELSE l

RECURSIVE float_down(_, _)
float_down(h, i) ==
    IF is_leaf(h, i) \/ LargerChild(h, i) = i THEN h
    ELSE float_down(swap_nodes(h, LargerChild(h, i), i), LargerChild(h, i))

(* float_up reports whether it moved the node.                             *)
float_up_or_down_DownOnly(h, i) == float_down(h, i)
float_up_or_down(h, i) ==
    IF float_up(h, i) # h THEN float_up(h, i) ELSE float_down(h, i)

raw_insert(h, node) == Append(h, node)
heap_insert(h, node) == float_up(raw_insert(h, node), Len(h) + 1)

raw_remove_Truncate(h, i) == Front(h)
raw_remove(h, i) ==
    Front(IF i < Len(h) THEN [h EXCEPT ![i] = h[Len(h)]] ELSE h)

heap_remove(h, i) ==
    LET rest == raw_remove(h, i)
    IN  IF i <= Len(rest) THEN float_up_or_down(rest, i) ELSE rest

heap_change(h, i, priority) ==
    float_up_or_down([h EXCEPT ![i].priority = priority], i)

(* Removes the node in the last position.                                  *)
heap_pop(h) == Front(h)

RECURSIVE RebuildFrom(_, _)
RebuildFrom(h, i) == IF i = 0 THEN h ELSE RebuildFrom(float_down(h, i), i - 1)
heap_rebuild(h) == RebuildFrom(h, Len(h) \div 2)

(* What the callers rely on: HEAP_FOR_EACH visits a maximum first.         *)
IsHeap(h) == \A i \in 2 .. Len(h) : h[parent(i)].priority >= h[i].priority
=============================================================================
