-------------------------- MODULE OrderBookBuffer --------------------------
(***************************************************************************)
(* week_4/hw_4's OrderBookBuffer (OrderBookBuffer.h): a buffer of a fixed  *)
(* number of orders over raw memory, which it constructs orders in, moves  *)
(* to another buffer object, and destroys with everything in it.           *)
(*                                                                         *)
(* Memory is told by blocks: the allocator gives out any that is free.     *)
(* add_order holds the lock of the thread policy throughout, so calls of   *)
(* several threads are steps one after the other.  The move operations     *)
(* compile for HeapAllocator and ZeroInitAllocator only.                   *)
(***************************************************************************)
EXTENDS Integers, FiniteSets

CONSTANTS Buffers,    \* where OrderBookBuffer objects may live
          Blocks,     \* bound: blocks of memory
          Null,       \* nullptr
          Capacities  \* the capacities asked for

ASSUME BufferAssumption == Null \notin Blocks /\ Capacities \subseteq Nat

VARIABLES
  live,      \* the objects constructed and not destroyed
  buffer_, size_, capacity_,
  allocated,  \* the blocks that are allocated
  built       \* built[m]: how many orders are constructed in block m

bvars == <<live, buffer_, size_, capacity_, allocated, built>>

BufferInit ==
  /\ live = {}
  /\ buffer_ = [b \in Buffers |-> Null]
  /\ size_ = [b \in Buffers |-> 0]
  /\ capacity_ = [b \in Buffers |-> 0]
  /\ allocated = {}
  /\ built = [m \in Blocks |-> 0]

construct(b, n) ==
  /\ b \notin live
  /\ live' = live \cup {b}
  /\ size_' = [size_ EXCEPT ![b] = 0]
  /\ capacity_' = [capacity_ EXCEPT ![b] = n]
  /\ IF n = 0
     THEN buffer_' = [buffer_ EXCEPT ![b] = Null] /\ UNCHANGED allocated
     ELSE \E m \in Blocks \ allocated :
            /\ buffer_' = [buffer_ EXCEPT ![b] = m]
            /\ allocated' = allocated \cup {m}
  /\ UNCHANGED built

\* Destroys size_ orders and gives the block back.
Release(b) ==
  IF buffer_[b] = Null THEN UNCHANGED <<allocated, built>>
  ELSE /\ built' = [built EXCEPT ![buffer_[b]] = @ - size_[b]]
       /\ allocated' = allocated \ {buffer_[b]}

destroy(b) ==
  /\ b \in live
  /\ Release(b)
  /\ live' = live \ {b}
  /\ UNCHANGED <<buffer_, size_, capacity_>>

\* The members of o go to b, and o is left without memory.
TakeOver(b, o) ==
  /\ buffer_' = [buffer_ EXCEPT ![b] = buffer_[o], ![o] = Null]
  /\ size_' = [size_ EXCEPT ![b] = size_[o], ![o] = 0]
  /\ capacity_' = [capacity_ EXCEPT ![b] = capacity_[o], ![o] = 0]

moveConstruct(b, o) ==
  /\ b \notin live /\ o \in live
  /\ TakeOver(b, o)
  /\ live' = live \cup {b}
  /\ UNCHANGED <<allocated, built>>

\* Mutant: what b held is neither destroyed nor given back.
moveAssignLeaks(b, o) ==
  /\ b \in live /\ o \in live
  /\ IF b = o THEN UNCHANGED <<buffer_, size_, capacity_, allocated, built>>
     ELSE TakeOver(b, o) /\ UNCHANGED <<allocated, built>>
  /\ UNCHANGED live

moveAssign(b, o) ==
  /\ b \in live /\ o \in live
  /\ IF b = o THEN UNCHANGED <<buffer_, size_, capacity_, allocated, built>>
     ELSE Release(b) /\ TakeOver(b, o)
  /\ UNCHANGED live

\* A full buffer refuses, also one that was moved from.
add_order(b) ==
  /\ b \in live
  /\ size_[b] < capacity_[b]
  /\ built' = [built EXCEPT ![buffer_[b]] = @ + 1]
  /\ size_' = [size_ EXCEPT ![b] = @ + 1]
  /\ UNCHANGED <<live, buffer_, capacity_, allocated>>

BufferNext ==
  \E b \in Buffers :
    \/ \E n \in Capacities : construct(b, n)
    \/ \E o \in Buffers : moveConstruct(b, o) \/ moveAssign(b, o)
    \/ add_order(b)
    \/ destroy(b)

BufferSpec == BufferInit /\ [][BufferNext]_bvars

-----------------------------------------------------------------------------
\* Every allocated block belongs to exactly one buffer object, which knows
\* how many orders are constructed in it, and no other memory holds orders:
\* over constructions, moves onto objects old and new, self-assignment and
\* destructors, nothing is freed or destroyed twice, used after it was freed,
\* or leaked.
BlocksHaveOneOwner ==
  /\ \A m \in Blocks : m \in allocated <=> \E b \in live : buffer_[b] = m
  /\ \A b, c \in live : buffer_[b] = buffer_[c] => b = c \/ buffer_[b] = Null
  /\ \A b \in live :
       /\ size_[b] <= capacity_[b]
       /\ buffer_[b] = Null => capacity_[b] = 0
       /\ buffer_[b] # Null => built[buffer_[b]] = size_[b]
  /\ \A m \in Blocks \ allocated : built[m] = 0

\* The variables keep their types; with BlocksHaveOneOwner this is inductive
\* (proved in ProgramProofs).
BufferTypeOK ==
  /\ live \subseteq Buffers /\ allocated \subseteq Blocks
  /\ buffer_ \in [Buffers -> Blocks \cup {Null}]
  /\ size_ \in [Buffers -> Nat] /\ capacity_ \in [Buffers -> Nat]
  /\ built \in [Blocks -> Nat]
=============================================================================
