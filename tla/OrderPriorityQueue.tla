------------------------- MODULE OrderPriorityQueue -------------------------
(***************************************************************************)
(* week_5/hw_5's priority queue of orders (order_priority_queue.cpp): a    *)
(* binary heap in a vector.  Orders are compared by price alone; with      *)
(* OrderCompare the highest price is on top.                               *)
(***************************************************************************)
EXTENDS Integers, Sequences, FiniteSets, Loops

CONSTANTS HeapOrders,   \* the orders that may be pushed
          Price         \* Price[o]: their prices

ASSUME PriorityQueueAssumption == Price \in [HeapOrders -> Int]

VARIABLES heap_,  \* the vector, from 1
          held    \* history: the orders pushed and not popped

hvars == <<heap_, held>>

HeapInit == heap_ = <<>> /\ held = {}

\* compare_ of OrderCompare
Compare(a, b) == Price[a] < Price[b]

Parent(i) == i \div 2

Swapped(h, i, j) == [h EXCEPT ![i] = h[j], ![j] = h[i]]

\* The two loops' state: the vector and the index of the order that moves.
HeapState ==
  {s \in [heap : Seq(HeapOrders), index : Nat \ {0}] : s.index <= Len(s.heap)}

UpPass ==
  [s \in HeapState |->
     LET h == s.heap
         i == s.index
     IN  IF i > 1 /\ Compare(h[Parent(i)], h[i])
         THEN [heap |-> Swapped(h, i, Parent(i)), index |-> Parent(i)] ELSE s]

\* The order rises in every pass: after index passes the loop is over.
heapify_up(h, i) == Passes(UpPass, [heap |-> h, index |-> i])[i].heap

\* Mutant: the right child is never looked at.
MaxChildLeft(h, i) == 2 * i

MaxChild(h, i) ==
  IF 2 * i + 1 <= Len(h) /\ Compare(h[2 * i], h[2 * i + 1]) THEN 2 * i + 1 ELSE 2 * i

DownPass ==
  [s \in HeapState |->
     LET h == s.heap
         i == s.index
     IN  IF 2 * i <= Len(h) /\ Compare(h[i], h[MaxChild(h, i)])
         THEN [heap |-> Swapped(h, i, MaxChild(h, i)), index |-> MaxChild(h, i)] ELSE s]

\* It sinks in every pass, and there are no more than Len(h) places.
heapify_down(h, i) == Passes(DownPass, [heap |-> h, index |-> i])[Len(h)].heap

push(o) ==
  /\ heap_' = heapify_up(Append(heap_, o), Len(heap_) + 1)
  /\ held' = held \cup {o}

\* The last order becomes the root and sinks.  top and pop of an empty queue
\* throw and change nothing.
pop ==
  /\ heap_ # <<>>
  /\ LET last == Len(heap_)
         rest == SubSeq([heap_ EXCEPT ![1] = heap_[last]], 1, last - 1)
     IN  heap_' = IF rest = <<>> THEN rest ELSE heapify_down(rest, 1)
  /\ held' = held \ {heap_[1]}

ClearHeap == heap_' = <<>> /\ held' = {}

\* Each order object is in the queue once at a time.
HeapNext == (\E o \in HeapOrders \ held : push(o)) \/ pop \/ ClearHeap

HeapSpec == HeapInit /\ [][HeapNext]_hvars

-----------------------------------------------------------------------------
\* What is popped is always an order of the highest price, and nothing is
\* lost or doubled: the vector holds exactly the orders pushed and not yet
\* taken off the top, and no other has a higher price than its first.
TopIsBest ==
  /\ {heap_[i] : i \in DOMAIN heap_} = held
  /\ Len(heap_) = Cardinality(held)
  /\ \A o \in held : ~Compare(heap_[1], o)
=============================================================================
