---------------------------- MODULE BoundedFifo ----------------------------
(***************************************************************************)
(* What week_7/src/ConcurrentQueue.hpp promises its callers: a first-in    *)
(* first-out buffer of at most Capacity items, in which a push that        *)
(* returns true has appended its item and a pop that returns true has      *)
(* removed the oldest one and left it in the caller's variable.  A push or *)
(* a pop that returns false changes nothing.                               *)
(***************************************************************************)
EXTENDS Naturals, Sequences

CONSTANTS Capacity,   \* the template parameter of the queue
          Item,       \* the values of type T
          Consumers,  \* the threads that pop
          NoItem      \* a T no push has provided (a default-constructed one)

VARIABLES q,          \* the items in the queue, the oldest first
          res         \* res[c]: the variable consumer c passes to pop

vars == <<q, res>>

Init == /\ q = <<>>
        /\ res = [c \in Consumers |-> NoItem]

Enqueue(v) == /\ Len(q) < Capacity
              /\ q' = Append(q, v)
              /\ UNCHANGED res

Dequeue(c) == /\ q # <<>>
              /\ res' = [res EXCEPT ![c] = Head(q)]
              /\ q' = Tail(q)

\* reset() drops whatever is queued.
Clear == /\ q' = <<>>
         /\ UNCHANGED res

Next == \/ \E v \in Item : Enqueue(v)
        \/ \E c \in Consumers : Dequeue(c)
        \/ Clear

Spec == Init /\ [][Next]_vars
=============================================================================
