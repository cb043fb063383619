-------------------------- MODULE ConcurrentQueue --------------------------
(***************************************************************************)
(* The lock-free multi-producer multi-consumer ring buffer of              *)
(* week_7/src/ConcurrentQueue.hpp (the challenge client carries a copy     *)
(* with the same push and pop).  Every access to a shared atomic, and      *)
(* every copy of an item into or out of a cell, is a step of its own.      *)
(*                                                                         *)
(* Memory orders.  Under MemoryPolicy SeqCst a load returns the current    *)
(* value.  Under RAR and Fence the loads of head, tail and of a cell's seq *)
(* may return any value the variable has held (Visible, VisibleSeq): more  *)
(* than C++ allows.  A read-modify-write acts on the current value under   *)
(* every policy.                                                           *)
(***************************************************************************)
EXTENDS Integers, Sequences

CONSTANTS Capacity,   \* the template parameter
          Producers,  \* threads that call push
          Consumers,  \* threads that call pop
          Observers,  \* threads that call size and is_empty
          Policy,     \* g_memory_policy
          MaxPushes,  \* bound: successful pushes of each producer
          NoItem      \* a default-constructed T

\* The static_assert of the class.
ASSUME CapacityAssumption == Capacity \in Nat /\ Capacity > 0
ASSUME BoundAssumption    == MaxPushes \in Nat
ASSUME PolicyAssumption   == Policy \in {"RAR", "SeqCst", "Fence"}
ASSUME ThreadsAssumption  == Producers \cap Consumers = {}

Threads == Producers \cup Consumers
Slots   == 0 .. Capacity - 1

\* The n-th item of producer p; every item pushed is thereby distinct.
Item == Producers \X (1 .. MaxPushes)

VARIABLES
  head, tail,   \* the two position counters
  seq,          \* seq[i]: the sequence number of cell i
  data,         \* data[i]: the item in cell i
  pc,           \* pc[t]: where thread t is in push or pop
  pos,          \* pos[t]: its local variable pos
  item,         \* item[t]: the argument of push, the result of pop
  sent,         \* sent[p]: successful pushes of p since the program started
  log,          \* history: log[n + 1] is the item that claimed position n
  obs           \* obs[o]: the state of an observer's call

queueVars == <<head, tail, seq, data>>
vars == <<head, tail, seq, data, pc, pos, item, sent, log, obs>>

\* The cell of a position.
Slot(n) == n % Capacity

\* What a load of a counter whose value is n may return.
Visible(n) == IF Policy = "SeqCst" THEN {n} ELSE 0 .. n

\* A cell's seq runs through n and n + 1 for the positions n of that cell.
VisibleSeq(i) ==
  IF Policy = "SeqCst"
  THEN {seq[i]}
  ELSE {s \in i .. seq[i] : Slot(s) = i \/ Slot(s - 1) = i}

Init ==
  /\ head = 0
  /\ tail = 0
  /\ seq  = [i \in Slots |-> i]
  /\ data = [i \in Slots |-> NoItem]
  /\ pc   = [t \in Threads |-> "idle"]
  /\ pos  = [t \in Threads |-> 0]
  /\ item = [t \in Threads |-> NoItem]
  /\ sent = [p \in Producers |-> 0]
  /\ log  = <<>>
  /\ obs  = [o \in Observers |-> [at |-> "idle", h |-> 0, size |-> 0, empty |-> TRUE]]

(***************************************************************************)
(* push(item)                                                              *)
(***************************************************************************)

\* The call, and its first load of tail.
PushCall(p) ==
  /\ pc[p] = "idle"
  /\ sent[p] < MaxPushes
  /\ item' = [item EXCEPT ![p] = <<p, sent[p] + 1>>]
  /\ \E n \in Visible(tail) : pos' = [pos EXCEPT ![p] = n]
  /\ pc' = [pc EXCEPT ![p] = "check"]
  /\ UNCHANGED <<queueVars, sent, log, obs>>

\* Mutant: any difference but zero is a refusal.
PushCheckNeverReloads(p) ==
  /\ pc[p] = "check"
  /\ \E s \in VisibleSeq(Slot(pos[p])) :
       pc' = [pc EXCEPT ![p] = IF s = pos[p] THEN "cas" ELSE "idle"]
  /\ UNCHANGED <<queueVars, pos, item, sent, log, obs>>

\* Load the cell's seq and compare it with pos: claim it, return false
\* because the cell is not free yet, or reload tail.
PushCheck(p) ==
  /\ pc[p] = "check"
  /\ \E s \in VisibleSeq(Slot(pos[p])) :
       pc' = [pc EXCEPT ![p] = IF s = pos[p] THEN "cas"
                               ELSE IF s < pos[p] THEN "idle" ELSE "reload"]
  /\ UNCHANGED <<queueVars, pos, item, sent, log, obs>>

\* Mutant: tail is loaded and dropped.
PushReloadKeepsPos(p) ==
  /\ pc[p] = "reload"
  /\ pc' = [pc EXCEPT ![p] = "check"]
  /\ UNCHANGED <<queueVars, pos, item, sent, log, obs>>

PushReload(p) ==
  /\ pc[p] = "reload"
  /\ \E n \in Visible(tail) : pos' = [pos EXCEPT ![p] = n]
  /\ pc' = [pc EXCEPT ![p] = "check"]
  /\ UNCHANGED <<queueVars, item, sent, log, obs>>

\* Mutant: tail is stored, not compared.
PushClaimBlindly(p) ==
  /\ pc[p] = "cas"
  /\ tail' = pos[p] + 1
  /\ log'  = Append(log, item[p])
  /\ sent' = [sent EXCEPT ![p] = @ + 1]
  /\ pc'   = [pc EXCEPT ![p] = "write"]
  /\ UNCHANGED <<head, seq, data, pos, item, obs>>

\* compare_exchange_weak succeeds: position pos belongs to p.
PushClaim(p) ==
  /\ pc[p] = "cas"
  /\ tail = pos[p]
  /\ tail' = tail + 1
  /\ log'  = Append(log, item[p])
  /\ sent' = [sent EXCEPT ![p] = @ + 1]
  /\ pc'   = [pc EXCEPT ![p] = "write"]
  /\ UNCHANGED <<head, seq, data, pos, item, obs>>

\* It fails, because tail moved or spuriously, and loads tail into pos.
PushCASFails(p) ==
  /\ pc[p] = "cas"
  /\ \E n \in Visible(tail) : pos' = [pos EXCEPT ![p] = n]
  /\ pc' = [pc EXCEPT ![p] = "check"]
  /\ UNCHANGED <<queueVars, item, sent, log, obs>>

PushWrite(p) ==
  /\ pc[p] = "write"
  /\ data' = [data EXCEPT ![Slot(pos[p])] = item[p]]
  /\ pc'   = [pc EXCEPT ![p] = "publish"]
  /\ UNCHANGED <<head, tail, seq, pos, item, sent, log, obs>>

\* Mutant: the + 1 is forgotten.
PushPublishUnchanged(p) ==
  /\ pc[p] = "publish"
  /\ seq' = [seq EXCEPT ![Slot(pos[p])] = pos[p]]
  /\ pc'  = [pc EXCEPT ![p] = "idle"]
  /\ UNCHANGED <<head, tail, data, pos, item, sent, log, obs>>

\* Hand the cell to the consumers and return true.
PushPublish(p) ==
  /\ pc[p] = "publish"
  /\ seq' = [seq EXCEPT ![Slot(pos[p])] = pos[p] + 1]
  /\ pc'  = [pc EXCEPT ![p] = "idle"]
  /\ UNCHANGED <<head, tail, data, pos, item, sent, log, obs>>

(***************************************************************************)
(* pop(item)                                                               *)
(***************************************************************************)

PopCall(c) ==
  /\ pc[c] = "idle"
  /\ \E n \in Visible(head) : pos' = [pos EXCEPT ![c] = n]
  /\ pc' = [pc EXCEPT ![c] = "check"]
  /\ UNCHANGED <<queueVars, item, sent, log, obs>>

\* Mutant: the + 1 is forgotten.
PopCheckTooEarly(c) ==
  /\ pc[c] = "check"
  /\ \E s \in VisibleSeq(Slot(pos[c])) :
       pc' = [pc EXCEPT ![c] = IF s \in {pos[c], pos[c] + 1} THEN "cas"
                               ELSE IF s < pos[c] THEN "idle" ELSE "reload"]
  /\ UNCHANGED <<queueVars, pos, item, sent, log, obs>>

\* Claim the cell, return false because nothing is published in it yet, or
\* reload head.
PopCheck(c) ==
  /\ pc[c] = "check"
  /\ \E s \in VisibleSeq(Slot(pos[c])) :
       pc' = [pc EXCEPT ![c] = IF s = pos[c] + 1 THEN "cas"
                               ELSE IF s < pos[c] + 1 THEN "idle" ELSE "reload"]
  /\ UNCHANGED <<queueVars, pos, item, sent, log, obs>>

PopReload(c) ==
  /\ pc[c] = "reload"
  /\ \E n \in Visible(head) : pos' = [pos EXCEPT ![c] = n]
  /\ pc' = [pc EXCEPT ![c] = "check"]
  /\ UNCHANGED <<queueVars, item, sent, log, obs>>

\* Mutant: head is stored, not compared.
PopClaimBlindly(c) ==
  /\ pc[c] = "cas"
  /\ head' = pos[c] + 1
  /\ pc'   = [pc EXCEPT ![c] = "read"]
  /\ UNCHANGED <<tail, seq, data, pos, item, sent, log, obs>>

PopClaim(c) ==
  /\ pc[c] = "cas"
  /\ head = pos[c]
  /\ head' = head + 1
  /\ pc'   = [pc EXCEPT ![c] = "read"]
  /\ UNCHANGED <<tail, seq, data, pos, item, sent, log, obs>>

PopCASFails(c) ==
  /\ pc[c] = "cas"
  /\ \E n \in Visible(head) : pos' = [pos EXCEPT ![c] = n]
  /\ pc' = [pc EXCEPT ![c] = "check"]
  /\ UNCHANGED <<queueVars, item, sent, log, obs>>

PopRead(c) ==
  /\ pc[c] = "read"
  /\ item' = [item EXCEPT ![c] = data[Slot(pos[c])]]
  /\ pc'   = [pc EXCEPT ![c] = "release"]
  /\ UNCHANGED <<queueVars, pos, sent, log, obs>>

\* Mutant: the sequence number of this round, not of the next.
PopReleaseSameRound(c) ==
  /\ pc[c] = "release"
  /\ seq' = [seq EXCEPT ![Slot(pos[c])] = pos[c]]
  /\ pc'  = [pc EXCEPT ![c] = "idle"]
  /\ UNCHANGED <<head, tail, data, pos, item, sent, log, obs>>

\* Hand the cell to the producers of the next round and return true.
PopRelease(c) ==
  /\ pc[c] = "release"
  /\ seq' = [seq EXCEPT ![Slot(pos[c])] = pos[c] + Capacity]
  /\ pc'  = [pc EXCEPT ![c] = "idle"]
  /\ UNCHANGED <<head, tail, data, pos, item, sent, log, obs>>

(***************************************************************************)
(* size() and is_empty() load head, then tail.  empty remembers whether    *)
(* the queue was empty at the first of the two loads.                      *)
(***************************************************************************)

SizeLoadHead(o) ==
  /\ obs[o].at = "idle"
  /\ \E h \in Visible(head) :
       obs' = [obs EXCEPT ![o] = [at |-> "tail", h |-> h, size |-> 0,
                                  empty |-> head = tail]]
  /\ UNCHANGED <<queueVars, pc, pos, item, sent, log>>

SizeLoadTail(o) ==
  /\ obs[o].at = "tail"
  /\ \E t \in Visible(tail) :
       obs' = [obs EXCEPT ![o] = [at |-> "idle", h |-> obs[o].h,
                                  size |-> t - obs[o].h, empty |-> obs[o].empty]]
  /\ UNCHANGED <<queueVars, pc, pos, item, sent, log>>

\* reset_all calls reset() between two runs, when no thread uses the queue.
\* It leaves the cells' data.
Reset ==
  /\ \A t \in Threads : pc[t] = "idle"
  /\ \A o \in Observers : obs[o].at = "idle"
  /\ head' = 0
  /\ tail' = 0
  /\ seq'  = [i \in Slots |-> i]
  /\ log'  = <<>>
  /\ UNCHANGED <<data, pc, pos, item, sent, obs>>

Push(p) == \/ PushCall(p) \/ PushCheck(p) \/ PushReload(p) \/ PushClaim(p)
           \/ PushCASFails(p) \/ PushWrite(p) \/ PushPublish(p)

Pop(c) == \/ PopCall(c) \/ PopCheck(c) \/ PopReload(c) \/ PopClaim(c)
          \/ PopCASFails(c) \/ PopRead(c) \/ PopRelease(c)

Next == \/ \E p \in Producers : Push(p)
        \/ \E c \in Consumers : Pop(c)
        \/ \E o \in Observers : SizeLoadHead(o) \/ SizeLoadTail(o)
        \/ Reset

Spec == Init /\ [][Next]_vars

\* A thread inside a call keeps running, and compare_exchange_weak does not
\* fail for ever while it could succeed.  Nobody is obliged to call.
Fairness ==
  /\ \A p \in Producers :
       /\ WF_vars(PushCheck(p)) /\ WF_vars(PushReload(p)) /\ SF_vars(PushClaim(p))
       /\ WF_vars(PushCASFails(p)) /\ WF_vars(PushWrite(p)) /\ WF_vars(PushPublish(p))
  /\ \A c \in Consumers :
       /\ WF_vars(PopCheck(c)) /\ WF_vars(PopReload(c)) /\ SF_vars(PopClaim(c))
       /\ WF_vars(PopCASFails(c)) /\ WF_vars(PopRead(c)) /\ WF_vars(PopRelease(c))

FairSpec == Spec /\ Fairness

-----------------------------------------------------------------------------
(***************************************************************************)
(* Properties                                                              *)
(***************************************************************************)

\* Producer p, or consumer c, has claimed a position and still holds its cell.
Writing(p) == pc[p] \in {"write", "publish"}
Reading(c) == pc[c] \in {"read", "release"}

\* A push that has not claimed a position carries its caller's next item.
ArgumentOK ==
  \A p \in Producers : pc[p] \in {"check", "cas", "reload"} =>
    item[p] = <<p, sent[p] + 1>> /\ item[p] \in Item

\* Every variable of the queue and of its callers keeps its type; in
\* particular no cell ever holds a negative sequence number.
TypeOK ==
  /\ head \in Nat /\ tail \in Nat
  /\ seq  \in [Slots -> Nat]
  /\ data \in [Slots -> Item \cup {NoItem}]
  /\ pc   \in [Threads -> {"idle", "check", "cas", "reload",
                           "write", "publish", "read", "release"}]
  /\ pos  \in [Threads -> Nat]
  /\ item \in [Threads -> Item \cup {NoItem}]
  /\ sent \in [Producers -> 0 .. MaxPushes]
  /\ log  \in Seq(Item)
  /\ obs  \in [Observers -> [at : {"idle", "tail"}, h : Nat, size : Int, empty : BOOLEAN]]
  /\ ArgumentOK

\* The counters never drift more than Capacity apart.
CountersInv ==
  /\ head <= tail /\ tail <= head + Capacity
  /\ Len(log) = tail

\* The Capacity positions from head on lie in different cells.  Those below
\* tail are claimed and being written, or published; the others are free, or
\* the item of the previous round is still being copied out.
WindowInv ==
  \A n \in head .. head + Capacity - 1 :
    IF n < tail
    THEN \/ seq[Slot(n)] = n
         \/ seq[Slot(n)] = n + 1 /\ data[Slot(n)] = log[n + 1]
    ELSE seq[Slot(n)] \in {n, n - Capacity + 1}

WriterInv ==
  \A p \in Producers : Writing(p) =>
    /\ head <= pos[p] /\ pos[p] < tail
    /\ seq[Slot(pos[p])] = pos[p]
    /\ item[p] = log[pos[p] + 1]
    /\ pc[p] = "publish" => data[Slot(pos[p])] = item[p]

ReaderInv ==
  \A c \in Consumers : Reading(c) =>
    /\ pos[c] < head
    /\ seq[Slot(pos[c])] = pos[c] + 1
    /\ data[Slot(pos[c])] = log[pos[c] + 1]
    /\ pc[c] = "release" => item[c] = log[pos[c] + 1]

\* What a thread has learnt before its compare_exchange stays true.
CheckedInv ==
  /\ \A p \in Producers : pc[p] = "cas" => seq[Slot(pos[p])] >= pos[p]
  /\ \A c \in Consumers : pc[c] = "cas" => seq[Slot(pos[c])] >= pos[c] + 1

\* No two threads own the same position on the same side.
OwnersInv ==
  /\ \A p1, p2 \in Producers :
       Writing(p1) /\ Writing(p2) /\ pos[p1] = pos[p2] => p1 = p2
  /\ \A c1, c2 \in Consumers :
       Reading(c1) /\ Reading(c2) /\ pos[c1] = pos[c2] => c1 = c2

\* push and pop together: the counters, the sequence numbers, the items in
\* the cells and the threads inside the two functions agree, whatever stale
\* values the relaxed loads return.
QueueInv == /\ CountersInv /\ WindowInv /\ WriterInv
            /\ ReaderInv /\ CheckedInv /\ OwnersInv

\* The copies `cell->data = item` and `item = cell->data` never race: two
\* threads that are between their compare_exchange and their store to seq
\* are in different cells.
Holding(t) == \/ t \in Producers /\ Writing(t)
              \/ t \in Consumers /\ Reading(t)
ExclusiveCell ==
  \A t1, t2 \in Threads :
    Holding(t1) /\ Holding(t2) /\ t1 # t2 => Slot(pos[t1]) # Slot(pos[t2])

\* The abstract queue: the claimed positions that no pop has claimed.  An
\* item is enqueued by the compare_exchange on tail and dequeued by the one
\* on head; a pop that has claimed a position will deliver that item.
Queued == [i \in 1 .. tail - head |-> log[head + i]]
Result == [c \in Consumers |-> IF pc[c] = "read" THEN log[pos[c] + 1] ELSE item[c]]
Fifo == INSTANCE BoundedFifo WITH q <- Queued, res <- Result

\* The queue implements a bounded FIFO: nothing pushed is lost, duplicated,
\* reordered or overwritten.
IsBoundedFifo == Fifo!Spec

\* A call is refused at its check of the sequence number.
PushRefused(p) == pc[p] = "check" /\ pc'[p] = "idle"
PopRefused(c)  == pc[c] = "check" /\ pc'[c] = "idle"

TrueRefusals ==
  /\ \A p \in Producers : PushRefused(p) =>
       /\ tail >= Capacity
       /\ \/ head <= tail - Capacity
          \/ \E c \in Consumers : Reading(c) /\ pos[c] = tail - Capacity
  /\ \A c \in Consumers : PopRefused(c) =>
       \/ head = tail
       \/ \E p \in Producers : Writing(p) /\ pos[p] = head

\* push returns false only when position tail - Capacity is still occupied
\* at that instant: nobody has popped it, or its pop has not finished.  pop
\* returns false only when the queue is empty at that instant or the oldest
\* item is claimed and its push has not finished (items behind it may already
\* be published).  Stale loads (RAR, Fence) break this.
RefusalsAreTrue == [][TrueRefusals]_vars

\* size() never wraps below zero although head and tail are read at
\* different times, and is_empty() returns true only if the queue was empty
\* when the call read head.
SizeIsHonest ==
  \A o \in Observers : obs[o].at = "idle" =>
    obs[o].size >= 0 /\ (obs[o].size = 0 => obs[o].empty)

\* A push or a pop that has started returns: the retry loops end.
EveryCallReturns ==
  \A t \in Threads : pc[t] # "idle" ~> pc[t] = "idle"
=============================================================================
