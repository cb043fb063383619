----------------------- MODULE ConcurrentQueueProofs -----------------------
(***************************************************************************)
(* Theorems about ConcurrentQueue for every capacity of at least two, any  *)
(* set of threads and every memory policy.  The invariant QueueInv is      *)
(* inductive; ExclusiveCell and the refinement of BoundedFifo follow.      *)
(***************************************************************************)
EXTENDS ConcurrentQueue, SequenceTheorems, TLAPS

(***************************************************************************)
(* Positions and cells                                                     *)
(***************************************************************************)

\* Division with remainder by the capacity.
LEMMA DivMod ==
  ASSUME NEW a \in Int
  PROVE  /\ a \div Capacity \in Int
         /\ Slot(a) \in Slots
         /\ a = Capacity * (a \div Capacity) + Slot(a)
BY CapacityAssumption, SMT DEF Slot, Slots

\* A non-zero multiple of the capacity is at least one capacity away from 0.
LEMMA NonZeroMultiple ==
  ASSUME NEW k \in Int, k # 0
  PROVE  Capacity * k >= Capacity \/ Capacity * k <= -Capacity
BY CapacityAssumption, SMT

\* The remainder is unique: two positions in the same cell differ by a
\* multiple of the capacity.
LEMMA SameSlotDistance ==
  ASSUME NEW a \in Int, NEW b \in Int, Slot(a) = Slot(b)
  PROVE  \E k \in Int : a - b = Capacity * k
<1> DEFINE qa == a \div Capacity
           qb == b \div Capacity
           r  == Slot(b)
<1>1. qa \in Int /\ qb \in Int /\ Capacity \in Int /\ r \in Int
  BY DivMod, CapacityAssumption DEF Slots
<1>2. a = Capacity * qa + r /\ b = Capacity * qb + r
  BY DivMod
<1> HIDE DEF qa, qb, r
<1>3. a - b = Capacity * (qa - qb)
  BY <1>1, <1>2, SMT
<1>4. qa - qb \in Int
  BY <1>1
<1> QED
  BY <1>3, <1>4

\* Positions less than one capacity apart share a cell only if they are equal.
LEMMA SlotInjective ==
  ASSUME NEW a \in Int, NEW b \in Int, Slot(a) = Slot(b),
         a - b < Capacity, b - a < Capacity
  PROVE  a = b
<1>1. PICK k \in Int : a - b = Capacity * k
  BY SameSlotDistance
<1>2. k = 0
  BY <1>1, NonZeroMultiple, CapacityAssumption
<1> QED
  BY <1>1, <1>2, CapacityAssumption

\* Positions one capacity apart share a cell.
LEMMA SlotNextRound ==
  ASSUME NEW a \in Int
  PROVE  Slot(a + Capacity) = Slot(a)
<1> DEFINE b  == a + Capacity
           qa == a \div Capacity
           qb == b \div Capacity
           ra == Slot(a)
           rb == Slot(b)
<1>1. /\ b \in Int /\ qa \in Int /\ qb \in Int /\ Capacity \in Int
      /\ ra \in 0 .. Capacity - 1 /\ rb \in 0 .. Capacity - 1
  BY DivMod, CapacityAssumption DEF Slots
<1>2. /\ a = Capacity * qa + ra
      /\ b = Capacity * qb + rb
      /\ b = a + Capacity
  BY <1>1, DivMod
<1> HIDE DEF b, qa, qb, ra, rb
<1> DEFINE k == qb - qa - 1
<1>3. k \in Int /\ ra - rb = Capacity * k
  BY <1>1, <1>2, SMT
<1> HIDE DEF k
<1>4. k = 0
  BY <1>1, <1>3, NonZeroMultiple
<1>5. ra = rb
  BY <1>1, <1>3, <1>4
<1> QED
  BY <1>5 DEF ra, rb, b

-----------------------------------------------------------------------------
(***************************************************************************)
(* Types                                                                   *)
(***************************************************************************)

\* What a load may return has the type of what is stored, and is not larger.
LEMMA VisibleType ==
  ASSUME NEW n \in Nat, NEW m \in Visible(n)
  PROVE  m \in Nat /\ m <= n
BY DEF Visible

\* What a load of a cell's seq may return is a number between the cell's index
\* and its current seq.
LEMMA VisibleSeqBound ==
  ASSUME TypeOK, NEW i \in Slots, NEW s \in VisibleSeq(i)
  PROVE  s \in Nat /\ s <= seq[i]
<1>1. seq[i] \in Nat /\ i \in Nat
  BY CapacityAssumption DEF TypeOK, Slots
<1>2. s = seq[i] \/ s \in i .. seq[i]
  BY DEF VisibleSeq
<1> QED
  BY <1>1, <1>2

\* Every position has a cell.
LEMMA SlotOfNat ==
  ASSUME NEW n \in Nat
  PROVE  Slot(n) \in Slots
BY DivMod

\* The constructor establishes the types.
LEMMA TypeInit == Init => TypeOK
<1> SUFFICES ASSUME Init PROVE TypeOK
  OBVIOUS
<1>1. seq \in [Slots -> Nat]
  BY DEF Init, Slots
<1>2. ArgumentOK
  BY DEF Init, ArgumentOK, Threads
<1> QED
  BY <1>1, <1>2, BoundAssumption DEF Init, TypeOK

\* Every step of push keeps the types.
LEMMA PushType ==
  ASSUME TypeOK, NEW p \in Producers, Push(p)
  PROVE  TypeOK'
<1> USE DEF TypeOK, queueVars
<1>1. /\ p \in Threads /\ Producers \subseteq Threads
      /\ pos[p] \in Nat /\ Slot(pos[p]) \in Slots
  BY SlotOfNat DEF Threads
<1>2. CASE PushCall(p)
  <2>1. <<p, sent[p] + 1>> \in Item
    BY <1>2, BoundAssumption DEF PushCall, Item
  <2>2. ArgumentOK'
    BY <1>1, <1>2, <2>1 DEF PushCall, ArgumentOK
  <2> QED
    BY <1>1, <1>2, <2>1, <2>2, VisibleType DEF PushCall
<1>3. CASE PushCheck(p)
  BY <1>1, <1>3 DEF PushCheck, ArgumentOK
<1>4. CASE PushReload(p)
  BY <1>1, <1>4, VisibleType DEF PushReload, ArgumentOK
<1>5. CASE PushClaim(p)
  <2>1. sent[p] + 1 \in 0 .. MaxPushes /\ item[p] \in Item
    BY <1>5, BoundAssumption DEF PushClaim, ArgumentOK, Item
  <2>2. ArgumentOK'
    BY <1>1, <1>5 DEF PushClaim, ArgumentOK
  <2> QED
    BY <1>1, <1>5, <2>1, <2>2 DEF PushClaim
<1>6. CASE PushCASFails(p)
  BY <1>1, <1>6, VisibleType DEF PushCASFails, ArgumentOK
<1>7. CASE PushWrite(p)
  BY <1>1, <1>7 DEF PushWrite, ArgumentOK
<1>8. CASE PushPublish(p)
  BY <1>1, <1>8 DEF PushPublish, ArgumentOK
<1> QED
  BY <1>2, <1>3, <1>4, <1>5, <1>6, <1>7, <1>8 DEF Push

\* Every step of pop keeps the types.
LEMMA PopType ==
  ASSUME TypeOK, NEW c \in Consumers, Pop(c)
  PROVE  TypeOK'
<1> USE DEF TypeOK, queueVars
<1>1. /\ c \in Threads /\ c \notin Producers
      /\ pos[c] \in Nat /\ Slot(pos[c]) \in Slots /\ pos[c] + Capacity \in Nat
  BY SlotOfNat, CapacityAssumption, ThreadsAssumption DEF Threads
<1>2. ArgumentOK'
  <2>1. \A p \in Producers : pc'[p] = pc[p] /\ item'[p] = item[p]
    BY <1>1 DEF Threads, Pop, PopCall, PopCheck, PopReload, PopClaim, PopCASFails,
                PopRead, PopRelease
  <2>2. sent' = sent
    BY DEF Pop, PopCall, PopCheck, PopReload, PopClaim, PopCASFails, PopRead, PopRelease
  <2> QED
    BY <2>1, <2>2 DEF ArgumentOK
<1>3. CASE PopCall(c)
  BY <1>1, <1>2, <1>3, VisibleType DEF PopCall
<1>4. CASE PopCheck(c)
  BY <1>1, <1>2, <1>4 DEF PopCheck
<1>5. CASE PopReload(c)
  BY <1>1, <1>2, <1>5, VisibleType DEF PopReload
<1>6. CASE PopClaim(c)
  BY <1>1, <1>2, <1>6 DEF PopClaim
<1>7. CASE PopCASFails(c)
  BY <1>1, <1>2, <1>7, VisibleType DEF PopCASFails
<1>8. CASE PopRead(c)
  BY <1>1, <1>2, <1>8 DEF PopRead
<1>9. CASE PopRelease(c)
  BY <1>1, <1>2, <1>9 DEF PopRelease
<1> QED
  BY <1>3, <1>4, <1>5, <1>6, <1>7, <1>8, <1>9 DEF Pop

\* size() and is_empty() keep the types.
LEMMA ObserveType ==
  ASSUME TypeOK, NEW o \in Observers, SizeLoadHead(o) \/ SizeLoadTail(o)
  PROVE  TypeOK'
<1> USE DEF TypeOK, queueVars
<1>1. CASE SizeLoadHead(o)
  BY <1>1, VisibleType DEF SizeLoadHead, ArgumentOK
<1>2. CASE SizeLoadTail(o)
  BY <1>2, VisibleType DEF SizeLoadTail, ArgumentOK
<1> QED
  BY <1>1, <1>2

\* reset() keeps the types.
LEMMA ResetType == TypeOK /\ Reset => TypeOK'
<1> SUFFICES ASSUME TypeOK, Reset PROVE TypeOK'
  OBVIOUS
<1>1. seq' \in [Slots -> Nat]
  BY DEF Reset, Slots
<1> QED
  BY <1>1 DEF TypeOK, Reset, ArgumentOK

\* Every step keeps the types.
LEMMA TypeStep == TypeOK /\ [Next]_vars => TypeOK'
<1> SUFFICES ASSUME TypeOK, [Next]_vars PROVE TypeOK'
  OBVIOUS
<1>1. CASE Next
  BY <1>1, PushType, PopType, ObserveType, ResetType DEF Next
<1>2. CASE UNCHANGED vars
  BY <1>2 DEF TypeOK, vars, ArgumentOK
<1> QED
  BY <1>1, <1>2

\* The queue and the local variables of push and pop keep their types for
\* every capacity (even one), every set of threads and every policy.
THEOREM TypeCorrect == Spec => []TypeOK
BY TypeInit, TypeStep, PTL DEF Spec

-----------------------------------------------------------------------------
(***************************************************************************)
(* The inductive invariant                                                 *)
(***************************************************************************)

\* The first Capacity positions are the cells themselves.
LEMMA SlotOfSlot ==
  ASSUME NEW i \in Slots
  PROVE  Slot(i) = i
<1>1. i \in Int /\ i \div Capacity \in Int /\ Slot(i) \in Slots /\ Capacity \in Int
  BY DivMod, CapacityAssumption DEF Slots
<1>2. i - Slot(i) = Capacity * (i \div Capacity)
  <2> DEFINE q == i \div Capacity
             r == Slot(i)
  <2>1. i = Capacity * q + r /\ q \in Int /\ r \in Int
    BY <1>1, DivMod DEF Slots
  <2> HIDE DEF q, r
  <2>2. i - r = Capacity * q
    BY <1>1, <2>1, SMT
  <2> QED
    BY <2>2 DEF q, r
<1>3. i \div Capacity = 0
  BY <1>1, <1>2, NonZeroMultiple DEF Slots
<1>4. Capacity * (i \div Capacity) = 0
  BY <1>1, <1>3
<1> QED
  BY <1>1, <1>2, <1>4 DEF Slots

\* Neighbouring positions are in different cells: this is where a capacity
\* of one fails.
LEMMA NeighboursDiffer ==
  ASSUME Capacity >= 2, NEW a \in Int
  PROVE  Slot(a + 1) # Slot(a)
BY SlotInjective, CapacityAssumption

\* What Append does to the length and the elements of the log.
LEMMA AppendFacts ==
  ASSUME NEW S, NEW s \in Seq(S), NEW e \in S
  PROVE  /\ Len(Append(s, e)) = Len(s) + 1
         /\ Append(s, e)[Len(s) + 1] = e
         /\ \A i \in 1 .. Len(s) : Append(s, e)[i] = s[i]
OBVIOUS

\* No two threads that have claimed a position are in the same cell.
LEMMA InvExclusive ==
  ASSUME Capacity >= 2, TypeOK, QueueInv
  PROVE  ExclusiveCell
<1> SUFFICES ASSUME NEW t1 \in Threads, NEW t2 \in Threads,
                    Holding(t1), Holding(t2), Slot(pos[t1]) = Slot(pos[t2])
             PROVE  t1 = t2
  BY DEF ExclusiveCell
<1>1. pos[t1] \in Nat /\ pos[t2] \in Nat
  BY DEF TypeOK
<1>2. CASE t1 \in Producers /\ Writing(t1) /\ t2 \in Producers /\ Writing(t2)
  BY <1>2 DEF QueueInv, WriterInv, OwnersInv
<1>3. CASE t1 \in Consumers /\ Reading(t1) /\ t2 \in Consumers /\ Reading(t2)
  BY <1>1, <1>3 DEF QueueInv, ReaderInv, OwnersInv
<1>4. ASSUME NEW p \in Producers, NEW c \in Consumers, Writing(p), Reading(c),
             pos[p] \in Nat, pos[c] \in Nat, Slot(pos[p]) = Slot(pos[c])
      PROVE  FALSE
  <2>1. pos[p] = pos[c] + 1
    BY <1>4 DEF QueueInv, WriterInv, ReaderInv
  <2> QED
    BY <1>4, <2>1, NeighboursDiffer
<1> QED
  BY <1>1, <1>2, <1>3, <1>4 DEF Holding

\* The constructor establishes the invariant.
LEMMA QueueInit == Init => QueueInv
<1> SUFFICES ASSUME Init PROVE QueueInv
  OBVIOUS
<1>1. CountersInv
  BY CapacityAssumption DEF Init, CountersInv
<1>2. WindowInv
  BY SlotOfSlot, CapacityAssumption DEF Init, WindowInv, Slots
<1>3. WriterInv /\ ReaderInv /\ CheckedInv /\ OwnersInv
  BY DEF Init, WriterInv, ReaderInv, CheckedInv, OwnersInv, Writing, Reading, Threads
<1> QED
  BY <1>1, <1>2, <1>3 DEF QueueInv

\* A step of one thread that touches neither the counters nor the cells, and
\* leaves that thread without a claimed position.
LEMMA QuietStep ==
  ASSUME QueueInv, NEW t \in Threads,
         head' = head, tail' = tail, seq' = seq, data' = data, log' = log,
         \A u \in Threads : u # t =>
           pc'[u] = pc[u] /\ pos'[u] = pos[u] /\ item'[u] = item[u],
         pc'[t] \notin {"write", "publish", "read", "release"},
         pc'[t] = "cas" =>
           /\ t \in Producers => seq[Slot(pos'[t])] >= pos'[t]
           /\ t \in Consumers => seq[Slot(pos'[t])] >= pos'[t] + 1
  PROVE  QueueInv'
<1> USE DEF QueueInv, Threads
<1>1. CountersInv' /\ WindowInv'
  BY DEF CountersInv, WindowInv
<1>2. WriterInv'
  BY DEF WriterInv, Writing
<1>3. ReaderInv'
  BY DEF ReaderInv, Reading
<1>4. CheckedInv'
  BY DEF CheckedInv
<1>5. OwnersInv'
  BY DEF OwnersInv, Writing, Reading
<1> QED
  BY <1>1, <1>2, <1>3, <1>4, <1>5

\* The compare_exchange on tail can only succeed on a cell that is free.
LEMMA ClaimedCellIsFree ==
  ASSUME Capacity >= 2, TypeOK, QueueInv, NEW p \in Producers, PushClaim(p)
  PROVE  tail < head + Capacity /\ seq[Slot(tail)] = tail
<1>1. head \in Nat /\ tail \in Nat /\ Capacity \in Nat
  BY CapacityAssumption DEF TypeOK
<1>2. seq[Slot(tail)] >= tail
  BY DEF PushClaim, QueueInv, CheckedInv
<1>3. ASSUME tail = head + Capacity PROVE FALSE
  <2>1. Slot(tail) = Slot(head)
    BY <1>1, <1>3, SlotNextRound
  <2>2. seq[Slot(head)] = head \/ seq[Slot(head)] = head + 1
    BY <1>1, <1>3 DEF QueueInv, WindowInv
  <2> QED
    BY <1>1, <1>2, <1>3, <2>1, <2>2
<1>4. tail < head + Capacity
  BY <1>1, <1>3 DEF QueueInv, CountersInv
<1>5. seq[Slot(tail)] \in {tail, tail - Capacity + 1}
  BY <1>1, <1>4 DEF QueueInv, WindowInv, CountersInv
<1> QED
  BY <1>1, <1>2, <1>4, <1>5

\* The compare_exchange of a push keeps the invariant.
LEMMA PushClaimStep ==
  ASSUME Capacity >= 2, TypeOK, QueueInv, NEW p \in Producers, PushClaim(p)
  PROVE  QueueInv'
<1>1. /\ head \in Nat /\ tail \in Nat /\ Capacity \in Nat /\ p \in Threads
      /\ item[p] \in Item /\ log \in Seq(Item) /\ Len(log) = tail
      /\ p \notin Consumers
  BY CapacityAssumption, ThreadsAssumption
  DEF TypeOK, ArgumentOK, PushClaim, QueueInv, CountersInv, Threads
<1>2. tail < head + Capacity /\ seq[Slot(tail)] = tail
  BY ClaimedCellIsFree
<1>3. /\ pos[p] = tail /\ tail' = tail + 1 /\ pos' = pos /\ item' = item
      /\ head' = head /\ seq' = seq /\ data' = data
      /\ \A u \in Threads : u # p => pc'[u] = pc[u]
      /\ pc'[p] = "write"
  BY <1>1 DEF PushClaim, TypeOK
<1>4. /\ Len(log') = tail + 1
      /\ log'[tail + 1] = item[p]
      /\ \A n \in Nat : n < tail => log'[n + 1] = log[n + 1]
  BY <1>1, AppendFacts DEF PushClaim
<1>5. CountersInv'
  BY <1>1, <1>2, <1>3, <1>4 DEF QueueInv, CountersInv
<1>6. WindowInv'
  <2> SUFFICES ASSUME NEW n \in head .. head + Capacity - 1
               PROVE  IF n < tail + 1
                      THEN \/ seq[Slot(n)] = n
                           \/ seq[Slot(n)] = n + 1 /\ data[Slot(n)] = log'[n + 1]
                      ELSE seq[Slot(n)] \in {n, n - Capacity + 1}
    BY <1>3 DEF WindowInv
  <2> QED
    BY <1>1, <1>2, <1>4 DEF QueueInv, WindowInv
<1>7. WriterInv'
  <2> SUFFICES ASSUME NEW u \in Producers, Writing(u)'
               PROVE  /\ head <= pos[u] /\ pos[u] < tail + 1
                      /\ seq[Slot(pos[u])] = pos[u]
                      /\ item[u] = log'[pos[u] + 1]
                      /\ pc'[u] = "publish" => data[Slot(pos[u])] = item[u]
    BY <1>3 DEF WriterInv
  <2>1. CASE u = p
    BY <1>1, <1>2, <1>3, <1>4, <2>1 DEF QueueInv, CountersInv
  <2>2. CASE u # p
    <3>1. Writing(u) /\ pc'[u] = pc[u] /\ pos[u] \in Nat
      BY <1>3, <2>2 DEF Writing, Threads, TypeOK
    <3> QED
      BY <1>1, <1>4, <3>1 DEF QueueInv, WriterInv
  <2> QED
    BY <2>1, <2>2
<1>8. ReaderInv'
  <2> SUFFICES ASSUME NEW c \in Consumers, Reading(c)'
               PROVE  /\ pos[c] < head
                      /\ seq[Slot(pos[c])] = pos[c] + 1
                      /\ data[Slot(pos[c])] = log'[pos[c] + 1]
                      /\ pc'[c] = "release" => item[c] = log'[pos[c] + 1]
    BY <1>3 DEF ReaderInv
  <2>1. Reading(c) /\ pc'[c] = pc[c] /\ pos[c] \in Nat
    BY <1>1, <1>3 DEF Reading, Threads, TypeOK
  <2>2. pos[c] < head /\ head <= tail
    BY <2>1 DEF QueueInv, ReaderInv, CountersInv
  <2> QED
    BY <1>1, <1>4, <2>1, <2>2 DEF QueueInv, ReaderInv
<1>9. CheckedInv'
  BY <1>1, <1>3 DEF QueueInv, CheckedInv, Threads
<1>10. OwnersInv'
  <2>1. \A u \in Producers : u # p /\ Writing(u)' => Writing(u) /\ pos[u] < tail
    BY <1>1, <1>3 DEF QueueInv, WriterInv, Writing, Threads
  <2>2. \A c \in Consumers : Reading(c)' => Reading(c)
    BY <1>1, <1>3 DEF Reading, Threads
  <2> QED
    BY <1>1, <1>3, <2>1, <2>2 DEF QueueInv, OwnersInv
<1> QED
  BY <1>5, <1>6, <1>7, <1>8, <1>9, <1>10 DEF QueueInv

\* The cell a producer is writing lies in the window, at its own position,
\* and no other thread that has claimed a position is in it.
LEMMA WriterCell ==
  ASSUME Capacity >= 2, TypeOK, QueueInv, NEW p \in Producers, Writing(p)
  PROVE  /\ \A n \in head .. head + Capacity - 1 : Slot(n) = Slot(pos[p]) => n = pos[p]
         /\ \A u \in Producers : Writing(u) /\ u # p => Slot(pos[u]) # Slot(pos[p])
         /\ \A c \in Consumers : Reading(c) => Slot(pos[c]) # Slot(pos[p])
<1>1. /\ pos[p] \in Nat /\ head \in Nat /\ tail \in Nat /\ Capacity \in Nat
      /\ head <= pos[p] /\ pos[p] < head + Capacity
      /\ Producers \cap Consumers = {}
  BY CapacityAssumption, ThreadsAssumption
  DEF TypeOK, QueueInv, WriterInv, CountersInv, Threads
<1>2. \A n \in head .. head + Capacity - 1 : Slot(n) = Slot(pos[p]) => n = pos[p]
  BY <1>1, SlotInjective
<1>3. ExclusiveCell
  BY InvExclusive
<1>4. \A u \in Producers : Writing(u) /\ u # p => Slot(pos[u]) # Slot(pos[p])
  BY <1>3 DEF ExclusiveCell, Holding, Threads
<1>5. \A c \in Consumers : Reading(c) => Slot(pos[c]) # Slot(pos[p])
  BY <1>1, <1>3 DEF ExclusiveCell, Holding, Threads
<1> QED
  BY <1>2, <1>4, <1>5

\* Copying the item into the claimed cell keeps the invariant.
LEMMA PushWriteStep ==
  ASSUME Capacity >= 2, TypeOK, QueueInv, NEW p \in Producers, PushWrite(p)
  PROVE  QueueInv'
<1> DEFINE i == Slot(pos[p])
<1>1. /\ pos[p] \in Nat /\ head \in Nat /\ tail \in Nat /\ Capacity \in Nat
      /\ p \in Threads /\ p \notin Consumers /\ i \in Slots
      /\ Writing(p)
  BY SlotOfNat, CapacityAssumption, ThreadsAssumption DEF TypeOK, Threads, PushWrite, Writing
<1>2. /\ head' = head /\ tail' = tail /\ seq' = seq /\ log' = log
      /\ pos' = pos /\ item' = item
      /\ \A u \in Threads : u # p => pc'[u] = pc[u]
      /\ pc'[p] = "publish"
      /\ data'[i] = item[p]
      /\ \A j \in Slots : j # i => data'[j] = data[j]
  BY <1>1 DEF PushWrite, TypeOK
<1>3. \A u \in Threads : pos[u] \in Nat /\ Slot(pos[u]) \in Slots
  BY SlotOfNat DEF TypeOK
<1>4. seq[i] = pos[p]
  BY <1>1 DEF QueueInv, WriterInv
<1>5. CountersInv'
  BY <1>2 DEF QueueInv, CountersInv
<1>6. WindowInv'
  <2> SUFFICES ASSUME NEW n \in head .. head + Capacity - 1
               PROVE  IF n < tail
                      THEN \/ seq[Slot(n)] = n
                           \/ seq[Slot(n)] = n + 1 /\ data'[Slot(n)] = log[n + 1]
                      ELSE seq[Slot(n)] \in {n, n - Capacity + 1}
    BY <1>2 DEF WindowInv
  <2>1. n \in Nat /\ Slot(n) \in Slots
    BY <1>1, SlotOfNat
  <2>2. CASE Slot(n) = i
    <3>1. n = pos[p]
      BY <1>1, <2>2, WriterCell
    <3> QED
      BY <1>1, <1>4, <2>2, <3>1 DEF QueueInv, WriterInv
  <2>3. CASE Slot(n) # i
    BY <1>2, <2>1, <2>3 DEF QueueInv, WindowInv
  <2> QED
    BY <2>2, <2>3
<1>7. WriterInv'
  <2> SUFFICES ASSUME NEW u \in Producers, Writing(u)'
               PROVE  /\ head <= pos[u] /\ pos[u] < tail
                      /\ seq[Slot(pos[u])] = pos[u]
                      /\ item[u] = log[pos[u] + 1]
                      /\ pc'[u] = "publish" => data'[Slot(pos[u])] = item[u]
    BY <1>2 DEF WriterInv
  <2>1. CASE u = p
    BY <1>1, <1>2, <2>1 DEF QueueInv, WriterInv
  <2>2. CASE u # p
    <3>1. Writing(u) /\ pc'[u] = pc[u] /\ u \in Threads
      BY <1>2, <2>2 DEF Writing, Threads
    <3>2. Slot(pos[u]) # i
      BY <1>1, <2>2, <3>1, WriterCell
    <3> QED
      BY <1>2, <1>3, <3>1, <3>2 DEF QueueInv, WriterInv
  <2> QED
    BY <2>1, <2>2
<1>8. ReaderInv'
  <2> SUFFICES ASSUME NEW c \in Consumers, Reading(c)'
               PROVE  /\ pos[c] < head
                      /\ seq[Slot(pos[c])] = pos[c] + 1
                      /\ data'[Slot(pos[c])] = log[pos[c] + 1]
                      /\ pc'[c] = "release" => item[c] = log[pos[c] + 1]
    BY <1>2 DEF ReaderInv
  <2>1. Reading(c) /\ pc'[c] = pc[c] /\ c \in Threads
    BY <1>1, <1>2 DEF Reading, Threads
  <2>2. Slot(pos[c]) # i
    BY <1>1, <2>1, WriterCell
  <2> QED
    BY <1>2, <1>3, <2>1, <2>2 DEF QueueInv, ReaderInv
<1>9. CheckedInv'
  BY <1>1, <1>2 DEF QueueInv, CheckedInv, Threads
<1>10. OwnersInv'
  BY <1>1, <1>2 DEF QueueInv, OwnersInv, Writing, Reading, Threads
<1> QED
  BY <1>5, <1>6, <1>7, <1>8, <1>9, <1>10 DEF QueueInv

\* Publishing the cell keeps the invariant.
LEMMA PushPublishStep ==
  ASSUME Capacity >= 2, TypeOK, QueueInv, NEW p \in Producers, PushPublish(p)
  PROVE  QueueInv'
<1> DEFINE i == Slot(pos[p])
<1>1. /\ pos[p] \in Nat /\ head \in Nat /\ tail \in Nat /\ Capacity \in Nat
      /\ p \in Threads /\ p \notin Consumers /\ i \in Slots
      /\ Writing(p) /\ pc[p] = "publish"
  BY SlotOfNat, CapacityAssumption, ThreadsAssumption DEF TypeOK, Threads, PushPublish, Writing
<1>2. /\ head' = head /\ tail' = tail /\ data' = data /\ log' = log
      /\ pos' = pos /\ item' = item
      /\ \A u \in Threads : u # p => pc'[u] = pc[u]
      /\ pc'[p] = "idle"
      /\ seq'[i] = pos[p] + 1
      /\ \A j \in Slots : j # i => seq'[j] = seq[j]
  BY <1>1 DEF PushPublish, TypeOK
<1>3. \A u \in Threads : pos[u] \in Nat /\ Slot(pos[u]) \in Slots
  BY SlotOfNat DEF TypeOK
<1>4. seq[i] = pos[p] /\ data[i] = log[pos[p] + 1] /\ pos[p] < tail
  BY <1>1 DEF QueueInv, WriterInv
<1>5. CountersInv'
  BY <1>2 DEF QueueInv, CountersInv
<1>6. WindowInv'
  <2> SUFFICES ASSUME NEW n \in head .. head + Capacity - 1
               PROVE  IF n < tail
                      THEN \/ seq'[Slot(n)] = n
                           \/ seq'[Slot(n)] = n + 1 /\ data[Slot(n)] = log[n + 1]
                      ELSE seq'[Slot(n)] \in {n, n - Capacity + 1}
    BY <1>2 DEF WindowInv
  <2>1. n \in Nat /\ Slot(n) \in Slots
    BY <1>1, SlotOfNat
  <2>2. CASE Slot(n) = i
    <3>1. n = pos[p]
      BY <1>1, <2>2, WriterCell
    <3> QED
      BY <1>2, <1>4, <2>2, <3>1
  <2>3. CASE Slot(n) # i
    BY <1>2, <2>1, <2>3 DEF QueueInv, WindowInv
  <2> QED
    BY <2>2, <2>3
<1>7. WriterInv'
  <2> SUFFICES ASSUME NEW u \in Producers, Writing(u)'
               PROVE  /\ head <= pos[u] /\ pos[u] < tail
                      /\ seq'[Slot(pos[u])] = pos[u]
                      /\ item[u] = log[pos[u] + 1]
                      /\ pc'[u] = "publish" => data[Slot(pos[u])] = item[u]
    BY <1>2 DEF WriterInv
  <2>1. u # p
    BY <1>2 DEF Writing
  <2>2. Writing(u) /\ pc'[u] = pc[u] /\ u \in Threads
    BY <1>2, <2>1 DEF Writing, Threads
  <2>3. Slot(pos[u]) # i
    BY <1>1, <2>1, <2>2, WriterCell
  <2> QED
    BY <1>2, <1>3, <2>2, <2>3 DEF QueueInv, WriterInv
<1>8. ReaderInv'
  <2> SUFFICES ASSUME NEW c \in Consumers, Reading(c)'
               PROVE  /\ pos[c] < head
                      /\ seq'[Slot(pos[c])] = pos[c] + 1
                      /\ data[Slot(pos[c])] = log[pos[c] + 1]
                      /\ pc'[c] = "release" => item[c] = log[pos[c] + 1]
    BY <1>2 DEF ReaderInv
  <2>1. Reading(c) /\ pc'[c] = pc[c] /\ c \in Threads
    BY <1>1, <1>2 DEF Reading, Threads
  <2>2. Slot(pos[c]) # i
    BY <1>1, <2>1, WriterCell
  <2> QED
    BY <1>2, <1>3, <2>1, <2>2 DEF QueueInv, ReaderInv
<1>9. CheckedInv'
  <2>1. \A j \in Slots : seq[j] \in Nat /\ seq'[j] \in Nat /\ seq'[j] >= seq[j]
    BY <1>1, <1>2, <1>4 DEF TypeOK
  <2>2. \A u \in Threads : pc'[u] = "cas" => pc[u] = "cas"
    BY <1>1, <1>2
  <2> QED
    BY <1>2, <1>3, <2>1, <2>2 DEF QueueInv, CheckedInv, Threads
<1>10. OwnersInv'
  BY <1>1, <1>2 DEF QueueInv, OwnersInv, Writing, Reading, Threads
<1> QED
  BY <1>5, <1>6, <1>7, <1>8, <1>9, <1>10 DEF QueueInv

\* The compare_exchange on head can only succeed on a published cell.
LEMMA ClaimedCellIsPublished ==
  ASSUME Capacity >= 2, TypeOK, QueueInv, NEW c \in Consumers, PopClaim(c)
  PROVE  head < tail /\ seq[Slot(head)] = head + 1 /\ data[Slot(head)] = log[head + 1]
<1>1. head \in Nat /\ tail \in Nat /\ Capacity \in Nat
  BY CapacityAssumption DEF TypeOK
<1>2. seq[Slot(head)] >= head + 1
  BY DEF PopClaim, QueueInv, CheckedInv
<1>3. head < tail
  BY <1>1, <1>2 DEF QueueInv, WindowInv
<1>4. \/ seq[Slot(head)] = head
      \/ seq[Slot(head)] = head + 1 /\ data[Slot(head)] = log[head + 1]
  BY <1>1, <1>3 DEF QueueInv, WindowInv
<1> QED
  BY <1>1, <1>2, <1>3, <1>4

\* The compare_exchange of a pop keeps the invariant.
LEMMA PopClaimStep ==
  ASSUME Capacity >= 2, TypeOK, QueueInv, NEW c \in Consumers, PopClaim(c)
  PROVE  QueueInv'
<1>1. /\ head \in Nat /\ tail \in Nat /\ Capacity \in Nat
      /\ c \in Threads /\ c \notin Producers
  BY CapacityAssumption, ThreadsAssumption DEF TypeOK, Threads
<1>2. head < tail /\ seq[Slot(head)] = head + 1 /\ data[Slot(head)] = log[head + 1]
  BY ClaimedCellIsPublished
<1>3. /\ pos[c] = head /\ head' = head + 1 /\ pos' = pos /\ item' = item
      /\ tail' = tail /\ seq' = seq /\ data' = data /\ log' = log
      /\ \A u \in Threads : u # c => pc'[u] = pc[u]
      /\ pc'[c] = "read"
  BY <1>1 DEF PopClaim, TypeOK
<1>4. \A u \in Threads : pos[u] \in Nat
  BY DEF TypeOK
<1>5. CountersInv'
  BY <1>1, <1>2, <1>3 DEF QueueInv, CountersInv
<1>6. WindowInv'
  <2> SUFFICES ASSUME NEW n \in head + 1 .. head + Capacity
               PROVE  IF n < tail
                      THEN \/ seq[Slot(n)] = n
                           \/ seq[Slot(n)] = n + 1 /\ data[Slot(n)] = log[n + 1]
                      ELSE seq[Slot(n)] \in {n, n - Capacity + 1}
    <3>1. (head + 1) + Capacity - 1 = head + Capacity
      BY <1>1
    <3> QED
      BY <1>3, <3>1 DEF WindowInv
  <2>1. CASE n = head + Capacity
    <3>1. Slot(n) = Slot(head) /\ ~(n < tail) /\ n - Capacity + 1 = head + 1
      BY <1>1, <2>1, SlotNextRound DEF QueueInv, CountersInv
    <3> QED
      BY <1>2, <3>1
  <2>2. CASE n # head + Capacity
    BY <1>1, <2>2 DEF QueueInv, WindowInv
  <2> QED
    BY <2>1, <2>2
<1>7. WriterInv'
  <2> SUFFICES ASSUME NEW u \in Producers, Writing(u)'
               PROVE  /\ head + 1 <= pos[u] /\ pos[u] < tail
                      /\ seq[Slot(pos[u])] = pos[u]
                      /\ item[u] = log[pos[u] + 1]
                      /\ pc'[u] = "publish" => data[Slot(pos[u])] = item[u]
    BY <1>3 DEF WriterInv
  <2>1. Writing(u) /\ pc'[u] = pc[u] /\ u \in Threads
    BY <1>1, <1>3 DEF Writing, Threads
  <2>2. pos[u] # head
    BY <1>1, <1>2, <2>1 DEF QueueInv, WriterInv
  <2> QED
    BY <1>1, <1>4, <2>1, <2>2 DEF QueueInv, WriterInv
<1>8. ReaderInv'
  <2> SUFFICES ASSUME NEW u \in Consumers, Reading(u)'
               PROVE  /\ pos[u] < head + 1
                      /\ seq[Slot(pos[u])] = pos[u] + 1
                      /\ data[Slot(pos[u])] = log[pos[u] + 1]
                      /\ pc'[u] = "release" => item[u] = log[pos[u] + 1]
    BY <1>3 DEF ReaderInv
  <2>1. CASE u = c
    BY <1>1, <1>2, <1>3, <2>1
  <2>2. CASE u # c
    <3>1. Reading(u) /\ pc'[u] = pc[u] /\ u \in Threads
      BY <1>3, <2>2 DEF Reading, Threads
    <3> QED
      BY <1>1, <1>4, <3>1 DEF QueueInv, ReaderInv
  <2> QED
    BY <2>1, <2>2
<1>9. CheckedInv'
  BY <1>1, <1>3 DEF QueueInv, CheckedInv, Threads
<1>10. OwnersInv'
  <2>1. \A u \in Consumers : u # c /\ Reading(u)' => Reading(u) /\ pos[u] < head
    BY <1>1, <1>3 DEF QueueInv, ReaderInv, Reading, Threads
  <2>2. \A u \in Producers : Writing(u)' => Writing(u)
    BY <1>1, <1>3 DEF Writing, Threads
  <2> QED
    BY <1>1, <1>3, <2>1, <2>2 DEF QueueInv, OwnersInv
<1> QED
  BY <1>5, <1>6, <1>7, <1>8, <1>9, <1>10 DEF QueueInv

\* Copying the item out of the claimed cell keeps the invariant.
LEMMA PopReadStep ==
  ASSUME TypeOK, QueueInv, NEW c \in Consumers, PopRead(c)
  PROVE  QueueInv'
<1>1. c \in Threads /\ c \notin Producers /\ Reading(c)
  BY ThreadsAssumption DEF Threads, PopRead, Reading
<1>2. /\ head' = head /\ tail' = tail /\ seq' = seq /\ data' = data /\ log' = log
      /\ pos' = pos
      /\ \A u \in Threads : u # c => pc'[u] = pc[u] /\ item'[u] = item[u]
      /\ pc'[c] = "release" /\ item'[c] = data[Slot(pos[c])]
  BY <1>1 DEF PopRead, TypeOK, queueVars
<1>3. CountersInv' /\ WindowInv'
  BY <1>2 DEF QueueInv, CountersInv, WindowInv
<1>4. WriterInv'
  BY <1>1, <1>2 DEF QueueInv, WriterInv, Writing, Threads
<1>5. ReaderInv'
  BY <1>1, <1>2 DEF QueueInv, ReaderInv, Reading, Threads
<1>6. CheckedInv'
  BY <1>1, <1>2 DEF QueueInv, CheckedInv, Threads
<1>7. OwnersInv'
  BY <1>1, <1>2 DEF QueueInv, OwnersInv, Writing, Reading, Threads
<1> QED
  BY <1>3, <1>4, <1>5, <1>6, <1>7 DEF QueueInv

\* The cell a consumer is reading will next hold the position one capacity
\* further, which no producer has claimed.
LEMMA ReaderCell ==
  ASSUME Capacity >= 2, TypeOK, QueueInv, NEW c \in Consumers, Reading(c),
         NEW n \in head .. head + Capacity - 1, Slot(n) = Slot(pos[c])
  PROVE  n = pos[c] + Capacity /\ ~(n < tail)
<1>1. /\ pos[c] \in Nat /\ head \in Nat /\ tail \in Nat /\ Capacity \in Nat
      /\ pos[c] < head /\ seq[Slot(n)] = pos[c] + 1
  BY CapacityAssumption DEF TypeOK, QueueInv, ReaderInv, Threads
<1>2. n # pos[c] + 1 /\ n # pos[c]
  BY <1>1, NeighboursDiffer
<1>3. ~(n < tail)
  BY <1>1, <1>2 DEF QueueInv, WindowInv
<1>4. seq[Slot(n)] \in {n, n - Capacity + 1}
  BY <1>3 DEF QueueInv, WindowInv
<1> QED
  BY <1>1, <1>2, <1>3, <1>4

\* Handing the cell to the next round keeps the invariant.
LEMMA PopReleaseStep ==
  ASSUME Capacity >= 2, TypeOK, QueueInv, NEW c \in Consumers, PopRelease(c)
  PROVE  QueueInv'
<1> DEFINE i == Slot(pos[c])
<1>1. /\ pos[c] \in Nat /\ head \in Nat /\ tail \in Nat /\ Capacity \in Nat
      /\ c \in Threads /\ c \notin Producers /\ i \in Slots /\ Reading(c)
  BY SlotOfNat, CapacityAssumption, ThreadsAssumption DEF TypeOK, Threads, PopRelease, Reading
<1>2. /\ head' = head /\ tail' = tail /\ data' = data /\ log' = log
      /\ pos' = pos /\ item' = item
      /\ \A u \in Threads : u # c => pc'[u] = pc[u]
      /\ pc'[c] = "idle"
      /\ seq'[i] = pos[c] + Capacity
      /\ \A j \in Slots : j # i => seq'[j] = seq[j]
  BY <1>1 DEF PopRelease, TypeOK
<1>3. \A u \in Threads : pos[u] \in Nat /\ Slot(pos[u]) \in Slots
  BY SlotOfNat DEF TypeOK
<1>4. seq[i] = pos[c] + 1
  BY <1>1 DEF QueueInv, ReaderInv
<1>5. ExclusiveCell
  BY InvExclusive
<1>6. CountersInv'
  BY <1>2 DEF QueueInv, CountersInv
<1>7. WindowInv'
  <2> SUFFICES ASSUME NEW n \in head .. head + Capacity - 1
               PROVE  IF n < tail
                      THEN \/ seq'[Slot(n)] = n
                           \/ seq'[Slot(n)] = n + 1 /\ data[Slot(n)] = log[n + 1]
                      ELSE seq'[Slot(n)] \in {n, n - Capacity + 1}
    BY <1>2 DEF WindowInv
  <2>1. n \in Nat /\ Slot(n) \in Slots
    BY <1>1, SlotOfNat
  <2>2. CASE Slot(n) = i
    <3>1. n = pos[c] + Capacity /\ ~(n < tail)
      BY <1>1, <2>2, ReaderCell
    <3> QED
      BY <1>2, <2>2, <3>1
  <2>3. CASE Slot(n) # i
    BY <1>2, <2>1, <2>3 DEF QueueInv, WindowInv
  <2> QED
    BY <2>2, <2>3
<1>8. WriterInv'
  <2> SUFFICES ASSUME NEW u \in Producers, Writing(u)'
               PROVE  /\ head <= pos[u] /\ pos[u] < tail
                      /\ seq'[Slot(pos[u])] = pos[u]
                      /\ item[u] = log[pos[u] + 1]
                      /\ pc'[u] = "publish" => data[Slot(pos[u])] = item[u]
    BY <1>2 DEF WriterInv
  <2>1. Writing(u) /\ pc'[u] = pc[u] /\ u \in Threads /\ u # c
    BY <1>1, <1>2 DEF Writing, Threads
  <2>2. Slot(pos[u]) # i
    BY <1>1, <1>5, <2>1 DEF ExclusiveCell, Holding
  <2> QED
    BY <1>2, <1>3, <2>1, <2>2 DEF QueueInv, WriterInv
<1>9. ReaderInv'
  <2> SUFFICES ASSUME NEW u \in Consumers, Reading(u)'
               PROVE  /\ pos[u] < head
                      /\ seq'[Slot(pos[u])] = pos[u] + 1
                      /\ data[Slot(pos[u])] = log[pos[u] + 1]
                      /\ pc'[u] = "release" => item[u] = log[pos[u] + 1]
    BY <1>2 DEF ReaderInv
  <2>1. u # c
    BY <1>2 DEF Reading
  <2>2. Reading(u) /\ pc'[u] = pc[u] /\ u \in Threads
    BY <1>2, <2>1 DEF Reading, Threads
  <2>3. Slot(pos[u]) # i
    BY <1>1, <1>5, <2>1, <2>2 DEF ExclusiveCell, Holding
  <2> QED
    BY <1>2, <1>3, <2>2, <2>3 DEF QueueInv, ReaderInv
<1>10. CheckedInv'
  <2>1. \A j \in Slots : seq[j] \in Nat /\ seq'[j] \in Nat /\ seq'[j] >= seq[j]
    <3>1. seq'[i] \in Nat /\ seq[i] \in Nat /\ seq'[i] >= seq[i]
      BY <1>1, <1>2, <1>4
    <3>2. \A j \in Slots : seq[j] \in Nat
      BY DEF TypeOK
    <3> QED
      BY <1>1, <1>2, <3>1, <3>2
  <2>2. \A u \in Threads : pc'[u] = "cas" => pc[u] = "cas"
    BY <1>1, <1>2
  <2> QED
    BY <1>2, <1>3, <2>1, <2>2 DEF QueueInv, CheckedInv, Threads
<1>11. OwnersInv'
  BY <1>1, <1>2 DEF QueueInv, OwnersInv, Writing, Reading, Threads
<1> QED
  BY <1>6, <1>7, <1>8, <1>9, <1>10, <1>11 DEF QueueInv

\* reset() between two runs keeps the invariant.
LEMMA ResetStep ==
  ASSUME TypeOK, Reset
  PROVE  QueueInv'
<1>1. \A t \in Threads : pc'[t] = "idle"
  BY DEF Reset
<1>2. CountersInv'
  BY CapacityAssumption DEF Reset, CountersInv
<1>3. WindowInv'
  BY SlotOfSlot, CapacityAssumption DEF Reset, WindowInv, Slots
<1>4. WriterInv' /\ ReaderInv' /\ CheckedInv' /\ OwnersInv'
  BY <1>1 DEF WriterInv, ReaderInv, CheckedInv, OwnersInv, Writing, Reading, Threads
<1> QED
  BY <1>2, <1>3, <1>4 DEF QueueInv

\* Every step of push keeps the invariant.
LEMMA PushStep ==
  ASSUME Capacity >= 2, TypeOK, QueueInv, NEW p \in Producers, Push(p)
  PROVE  QueueInv'
<1>1. p \in Threads /\ p \notin Consumers
  BY ThreadsAssumption DEF Threads
<1>2. CASE PushCall(p) \/ PushReload(p) \/ PushCASFails(p)
  <2>1. /\ head' = head /\ tail' = tail /\ seq' = seq /\ data' = data /\ log' = log
        /\ \A u \in Threads : u # p => pc'[u] = pc[u] /\ pos'[u] = pos[u] /\ item'[u] = item[u]
        /\ pc'[p] = "check"
    BY <1>1, <1>2 DEF PushCall, PushReload, PushCASFails, queueVars, TypeOK
  <2> QED
    BY <1>1, <2>1, QuietStep
<1>3. CASE PushCheck(p)
  <2>1. /\ head' = head /\ tail' = tail /\ seq' = seq /\ data' = data /\ log' = log
        /\ \A u \in Threads : u # p => pc'[u] = pc[u] /\ pos'[u] = pos[u] /\ item'[u] = item[u]
        /\ pc'[p] \in {"cas", "idle", "reload"} /\ pos' = pos
    BY <1>1, <1>3 DEF PushCheck, queueVars, TypeOK
  <2>2. pos[p] \in Nat /\ Slot(pos[p]) \in Slots
    BY <1>1, SlotOfNat DEF TypeOK
  <2>3. ASSUME pc'[p] = "cas" PROVE seq[Slot(pos[p])] >= pos[p]
    <3>1. PICK s \in VisibleSeq(Slot(pos[p])) : s = pos[p]
      BY <1>1, <1>3, <2>3 DEF PushCheck, TypeOK
    <3> QED
      BY <2>2, <3>1, VisibleSeqBound DEF TypeOK
  <2> QED
    BY <1>1, <2>1, <2>3, QuietStep
<1> QED
  BY <1>2, <1>3, PushClaimStep, PushWriteStep, PushPublishStep DEF Push

\* Every step of pop keeps the invariant.
LEMMA PopStep ==
  ASSUME Capacity >= 2, TypeOK, QueueInv, NEW c \in Consumers, Pop(c)
  PROVE  QueueInv'
<1>1. c \in Threads /\ c \notin Producers
  BY ThreadsAssumption DEF Threads
<1>2. CASE PopCall(c) \/ PopReload(c) \/ PopCASFails(c)
  <2>1. /\ head' = head /\ tail' = tail /\ seq' = seq /\ data' = data /\ log' = log
        /\ \A u \in Threads : u # c => pc'[u] = pc[u] /\ pos'[u] = pos[u] /\ item'[u] = item[u]
        /\ pc'[c] = "check"
    BY <1>1, <1>2 DEF PopCall, PopReload, PopCASFails, queueVars, TypeOK
  <2> QED
    BY <1>1, <2>1, QuietStep
<1>3. CASE PopCheck(c)
  <2>1. /\ head' = head /\ tail' = tail /\ seq' = seq /\ data' = data /\ log' = log
        /\ \A u \in Threads : u # c => pc'[u] = pc[u] /\ pos'[u] = pos[u] /\ item'[u] = item[u]
        /\ pc'[c] \in {"cas", "idle", "reload"} /\ pos' = pos
    BY <1>1, <1>3 DEF PopCheck, queueVars, TypeOK
  <2>2. pos[c] \in Nat /\ Slot(pos[c]) \in Slots
    BY <1>1, SlotOfNat DEF TypeOK
  <2>3. ASSUME pc'[c] = "cas" PROVE seq[Slot(pos[c])] >= pos[c] + 1
    <3>1. PICK s \in VisibleSeq(Slot(pos[c])) : s = pos[c] + 1
      BY <1>1, <1>3, <2>3 DEF PopCheck, TypeOK
    <3> QED
      BY <2>2, <3>1, VisibleSeqBound DEF TypeOK
  <2> QED
    BY <1>1, <2>1, <2>3, QuietStep
<1> QED
  BY <1>2, <1>3, PopClaimStep, PopReadStep, PopReleaseStep DEF Pop

\* Every step keeps the invariant.
LEMMA QueueStep ==
  ASSUME Capacity >= 2
  PROVE  TypeOK /\ QueueInv /\ [Next]_vars => QueueInv'
<1> SUFFICES ASSUME TypeOK, QueueInv, [Next]_vars PROVE QueueInv'
  OBVIOUS
<1>1. ASSUME NEW o \in Observers, SizeLoadHead(o) \/ SizeLoadTail(o) PROVE QueueInv'
  BY <1>1
  DEF SizeLoadHead, SizeLoadTail, queueVars, QueueInv, CountersInv, WindowInv, WriterInv,
      ReaderInv, CheckedInv, OwnersInv, Writing, Reading
<1>2. CASE UNCHANGED vars
  BY <1>2
  DEF vars, QueueInv, CountersInv, WindowInv, WriterInv, ReaderInv, CheckedInv,
      OwnersInv, Writing, Reading
<1>3. CASE Next
  BY <1>1, <1>3, PushStep, PopStep, ResetStep DEF Next
<1> QED
  BY <1>2, <1>3

\* With at least two cells the invariant of push and pop holds for ever,
\* under every memory policy and for any number of threads.
THEOREM QueueCorrect ==
  ASSUME Capacity >= 2
  PROVE  Spec => []QueueInv
BY QueueInit, QueueStep, TypeInit, TypeStep, PTL DEF Spec

\* The copies into and out of the cells never race.
THEOREM NoDataRace ==
  ASSUME Capacity >= 2
  PROVE  Spec => []ExclusiveCell
BY InvExclusive, TypeCorrect, QueueCorrect, PTL

-----------------------------------------------------------------------------
(***************************************************************************)
(* Refinement of the bounded FIFO                                          *)
(***************************************************************************)

\* The abstract queue: its type, its length and its elements.
LEMMA QueuedFacts ==
  ASSUME TypeOK, QueueInv
  PROVE  /\ Queued \in Seq(Item)
         /\ Len(Queued) = tail - head
         /\ \A i \in 1 .. tail - head : Queued[i] = log[head + i]
<1>1. head \in Nat /\ tail \in Nat /\ head <= tail /\ Len(log) = tail /\ log \in Seq(Item)
  BY DEF TypeOK, QueueInv, CountersInv
<1>2. \A i \in 1 .. tail - head : log[head + i] \in Item
  BY <1>1
<1>3. tail - head \in Nat
  BY <1>1
<1> QED
  BY <1>2, <1>3 DEF Queued

\* The compare_exchange of a push appends to the abstract queue.
LEMMA PushClaimRefines ==
  ASSUME Capacity >= 2, TypeOK, QueueInv, TypeOK', QueueInv',
         NEW p \in Producers, PushClaim(p)
  PROVE  Fifo!Enqueue(item[p])
<1>1. /\ head \in Nat /\ tail \in Nat /\ head <= tail /\ log \in Seq(Item)
      /\ item[p] \in Item /\ Len(log) = tail /\ Capacity \in Nat
      /\ p \in Threads /\ p \notin Consumers
  BY CapacityAssumption, ThreadsAssumption
  DEF TypeOK, ArgumentOK, QueueInv, CountersInv, PushClaim, Threads
<1>2. head' = head /\ tail' = tail + 1 /\ item' = item /\ pos' = pos
  BY DEF PushClaim
<1>3. /\ log'[tail + 1] = item[p]
      /\ \A n \in Nat : n < tail => log'[n + 1] = log[n + 1]
  BY <1>1, AppendFacts DEF PushClaim
<1>4. Len(Queued) < Capacity
  BY <1>1, QueuedFacts, ClaimedCellIsFree
<1>5. Queued' = Append(Queued, item[p])
  <2> DEFINE n == tail - head
  <2>1. n \in Nat
    BY <1>1
  <2>2. /\ Queued \in Seq(Item) /\ Len(Queued) = n
        /\ \A i \in 1 .. n : Queued[i] = log[head + i]
    BY QueuedFacts
  <2>3. Queued' = [i \in 1 .. n + 1 |-> log'[head + i]]
    <3>1. (tail + 1) - head = n + 1
      BY <1>1
    <3> QED
      BY <1>2, <3>1 DEF Queued
  <2>4. \A i \in 1 .. n : log'[head + i] = Queued[i]
    <3> SUFFICES ASSUME NEW i \in 1 .. n PROVE log'[head + i] = Queued[i]
      OBVIOUS
    <3>1. head + i - 1 \in Nat /\ head + i - 1 < tail /\ (head + i - 1) + 1 = head + i
      BY <1>1
    <3> QED
      BY <1>3, <2>2, <3>1
  <2>5. log'[head + (n + 1)] = item[p]
    BY <1>1, <1>3
  <2>6. Append(Queued, item[p]) = [i \in 1 .. n + 1 |-> IF i = n + 1 THEN item[p] ELSE Queued[i]]
    BY <1>1, <2>1, <2>2
  <2> HIDE DEF n
  <2> QED
    BY <2>1, <2>3, <2>4, <2>5, <2>6
<1>6. Result' = Result
  <2> SUFFICES ASSUME NEW c \in Consumers
               PROVE  (IF pc'[c] = "read" THEN log'[pos[c] + 1] ELSE item[c])
                      = (IF pc[c] = "read" THEN log[pos[c] + 1] ELSE item[c])
    BY <1>2 DEF Result
  <2>1. pc'[c] = pc[c] /\ pos[c] \in Nat
    BY <1>1 DEF PushClaim, TypeOK, Threads
  <2>2. pc[c] = "read" => pos[c] < tail
    BY <1>1, <2>1 DEF QueueInv, ReaderInv, Reading
  <2> QED
    BY <1>3, <2>1, <2>2
<1> QED
  BY <1>4, <1>5, <1>6 DEF Fifo!Enqueue

\* What Tail does to the length and the elements of a sequence.
LEMMA TailFacts ==
  ASSUME NEW S, NEW s \in Seq(S), Len(s) > 0
  PROVE  Tail(s) = [i \in 1 .. Len(s) - 1 |-> s[i + 1]]
<1>1. Len(s) - 1 \in Nat /\ s # <<>>
  OBVIOUS
<1>2. \A i \in 1 .. Len(s) - 1 : s[i + 1] \in S
  OBVIOUS
<1>3. [i \in 1 .. Len(s) - 1 |-> s[i + 1]] \in Seq(S)
  BY <1>1, <1>2
<1>4. Len([i \in 1 .. Len(s) - 1 |-> s[i + 1]]) = Len(s) - 1
  BY <1>1, <1>2
<1> QED
  BY <1>1, <1>3, <1>4, HeadTailProperties, SeqEqual

\* The compare_exchange of a pop removes the head of the abstract queue.
LEMMA PopClaimRefines ==
  ASSUME Capacity >= 2, TypeOK, QueueInv, TypeOK', QueueInv',
         NEW c \in Consumers, PopClaim(c)
  PROVE  Fifo!Dequeue(c)
<1> DEFINE n == tail - head
<1>1. /\ head \in Nat /\ tail \in Nat /\ head < tail /\ n \in Nat /\ n > 0 /\ c \in Threads
  BY ClaimedCellIsPublished DEF TypeOK, Threads
<1>2. /\ head' = head + 1 /\ tail' = tail /\ item' = item /\ pos' = pos /\ log' = log
      /\ pos[c] = head /\ pc[c] = "cas" /\ pc' = [pc EXCEPT ![c] = "read"]
  BY DEF PopClaim
<1>3. /\ Queued \in Seq(Item) /\ Len(Queued) = n
      /\ \A i \in 1 .. n : Queued[i] = log[head + i]
  BY QueuedFacts
<1>4. Queued # <<>>
  BY <1>1, <1>3
<1>5. Head(Queued) = log[head + 1]
  BY <1>1, <1>3
<1>6. Queued' = Tail(Queued)
  <2>1. Queued' = [i \in 1 .. n - 1 |-> log[(head + 1) + i]]
    <3>1. tail - (head + 1) = n - 1
      BY <1>1
    <3> QED
      BY <1>2, <3>1 DEF Queued
  <2>2. Tail(Queued) = [i \in 1 .. n - 1 |-> Queued[i + 1]]
    BY <1>1, <1>3, TailFacts
  <2>3. \A i \in 1 .. n - 1 : Queued[i + 1] = log[(head + 1) + i]
    <3> SUFFICES ASSUME NEW i \in 1 .. n - 1 PROVE Queued[i + 1] = log[(head + 1) + i]
      OBVIOUS
    <3>1. i + 1 \in 1 .. n /\ head + (i + 1) = (head + 1) + i
      BY <1>1
    <3> QED
      BY <1>3, <3>1
  <2> QED
    BY <2>1, <2>2, <2>3
<1>7. Result' = [Result EXCEPT ![c] = Head(Queued)]
  <2> SUFFICES ASSUME NEW u \in Consumers
               PROVE  (IF pc'[u] = "read" THEN log[pos[u] + 1] ELSE item[u])
                      = (IF u = c THEN log[head + 1]
                         ELSE IF pc[u] = "read" THEN log[pos[u] + 1] ELSE item[u])
    BY <1>2, <1>5 DEF Result
  <2>1. pc'[u] = IF u = c THEN "read" ELSE pc[u]
    BY <1>1, <1>2 DEF TypeOK, Threads
  <2> QED
    BY <1>2, <2>1
<1> QED
  BY <1>4, <1>6, <1>7 DEF Fifo!Dequeue

\* reset() clears the abstract queue.
LEMMA ResetRefines ==
  ASSUME TypeOK, QueueInv, Reset
  PROVE  Fifo!Clear
<1>1. Queued' = <<>>
  BY DEF Reset, Queued
<1>2. \A c \in Consumers : pc[c] # "read" /\ pc'[c] # "read"
  BY DEF Reset, Threads
<1>3. Result' = Result
  BY <1>2 DEF Reset, Result
<1> QED
  BY <1>1, <1>3 DEF Fifo!Clear

\* The other steps leave the abstract queue alone; the copy out of the cell
\* delivers the item the abstract dequeue has promised.
LEMMA PushRefines ==
  ASSUME Capacity >= 2, TypeOK, QueueInv, TypeOK', QueueInv', NEW p \in Producers, Push(p)
  PROVE  [Fifo!Next]_(Fifo!vars)
<1>1. CASE PushClaim(p)
  <2>1. item[p] \in Item
    BY <1>1 DEF TypeOK, ArgumentOK, PushClaim
  <2> QED
    BY <1>1, <2>1, PushClaimRefines DEF Fifo!Next
<1>2. CASE ~PushClaim(p)
  <2>1. p \in Threads /\ p \notin Consumers
    BY ThreadsAssumption DEF Threads
  <2>2. head' = head /\ tail' = tail /\ log' = log
    BY <1>2 DEF Push, PushCall, PushCheck, PushReload, PushCASFails, PushWrite,
                PushPublish, queueVars
  <2>3. \A c \in Consumers : pc'[c] = pc[c] /\ pos'[c] = pos[c] /\ item'[c] = item[c]
    BY <1>2, <2>1 DEF Push, PushCall, PushCheck, PushReload, PushCASFails, PushWrite,
                      PushPublish, TypeOK, Threads
  <2> QED
    BY <2>2, <2>3 DEF Fifo!vars, Queued, Result
<1> QED
  BY <1>1, <1>2

\* Every step of pop is an abstract dequeue or invisible.
LEMMA PopRefines ==
  ASSUME Capacity >= 2, TypeOK, QueueInv, TypeOK', QueueInv', NEW c \in Consumers, Pop(c)
  PROVE  [Fifo!Next]_(Fifo!vars)
<1>1. CASE PopClaim(c)
  BY <1>1, PopClaimRefines DEF Fifo!Next
<1>2. CASE ~PopClaim(c)
  <2>1. c \in Threads
    BY DEF Threads
  <2>2. head' = head /\ tail' = tail /\ log' = log
    BY <1>2 DEF Pop, PopCall, PopCheck, PopReload, PopCASFails, PopRead, PopRelease, queueVars
  <2>3. \A u \in Consumers : u # c => pc'[u] = pc[u] /\ pos'[u] = pos[u] /\ item'[u] = item[u]
    BY <1>2, <2>1 DEF Pop, PopCall, PopCheck, PopReload, PopCASFails, PopRead,
                      PopRelease, TypeOK, Threads
  <2>4. (IF pc'[c] = "read" THEN log[pos'[c] + 1] ELSE item'[c])
        = (IF pc[c] = "read" THEN log[pos[c] + 1] ELSE item[c])
    <3>1. CASE PopRead(c)
      <4>1. /\ pc[c] = "read" /\ pc'[c] = "release"
            /\ item'[c] = data[Slot(pos[c])]
        BY <2>1, <3>1 DEF PopRead, TypeOK
      <4> QED
        BY <4>1 DEF QueueInv, ReaderInv, Reading
    <3>2. CASE ~PopRead(c)
      BY <1>2, <2>1, <3>2 DEF Pop, PopCall, PopCheck, PopReload, PopCASFails, PopRelease, TypeOK
    <3> QED
      BY <3>1, <3>2
  <2> QED
    BY <2>2, <2>3, <2>4 DEF Fifo!vars, Queued, Result
<1> QED
  BY <1>1, <1>2

\* The initial states are initial states of the abstract queue.
LEMMA RefinementInit == Init => Fifo!Init
BY DEF Init, Fifo!Init, Queued, Result, Threads

\* Every step of the queue is a step of the abstract one, or invisible.
LEMMA RefinementStep ==
  ASSUME Capacity >= 2
  PROVE  TypeOK /\ QueueInv /\ TypeOK' /\ QueueInv' /\ [Next]_vars => [Fifo!Next]_(Fifo!vars)
<1> SUFFICES ASSUME TypeOK, QueueInv, TypeOK', QueueInv', [Next]_vars
             PROVE  [Fifo!Next]_(Fifo!vars)
  OBVIOUS
<1>1. CASE \E o \in Observers : SizeLoadHead(o) \/ SizeLoadTail(o)
  BY <1>1 DEF SizeLoadHead, SizeLoadTail, queueVars, Fifo!vars, Queued, Result
<1>2. CASE UNCHANGED vars
  BY <1>2 DEF vars, Fifo!vars, Queued, Result
<1>3. CASE Reset
  BY <1>3, ResetRefines DEF Fifo!Next
<1> QED
  BY <1>1, <1>2, <1>3, PushRefines, PopRefines DEF Next

\* With at least two cells the queue implements the bounded FIFO: no item is
\* lost, duplicated, reordered or overwritten, and never more than Capacity
\* items are queued, whatever stale values the relaxed loads return.
THEOREM QueueImplementsFifo ==
  ASSUME Capacity >= 2
  PROVE  Spec => IsBoundedFifo
BY RefinementInit, RefinementStep, TypeCorrect, QueueCorrect, PTL
DEF Spec, IsBoundedFifo, Fifo!Spec

-----------------------------------------------------------------------------
(***************************************************************************)
(* Refusals under SeqCst.  QueueInv says what the sequence numbers can be; *)
(* OccupiedInv adds that each number that is late has a thread to explain  *)
(* it, and LoadedInv that a thread with an old position finds a cell that  *)
(* has moved on, and so reloads and does not refuse.                       *)
(***************************************************************************)

OccupiedInv ==
  /\ \A n \in head .. tail - 1 : seq[Slot(n)] = n =>
       \E p \in Producers : Writing(p) /\ pos[p] = n
  /\ \A n \in tail .. head + Capacity - 1 : seq[Slot(n)] = n - Capacity + 1 =>
       \E c \in Consumers : Reading(c) /\ pos[c] = n - Capacity

LoadedInv ==
  /\ \A p \in Producers : pc[p] = "check" =>
       pos[p] <= tail /\ (pos[p] < tail => seq[Slot(pos[p])] >= pos[p])
  /\ \A c \in Consumers : pc[c] = "check" =>
       pos[c] <= head /\ (pos[c] < head => seq[Slot(pos[c])] >= pos[c] + 1)

\* size and is_empty: the queue's counters have only grown since head was
\* loaded.
SizeInv ==
  /\ \A o \in Observers : obs[o].at = "tail" =>
       obs[o].h <= head /\ (tail = obs[o].h => obs[o].empty)
  /\ SizeIsHonest

\* The constructor and reset leave no cell occupied and nobody inside.
LEMMA FreshRefusal ==
  ASSUME Capacity >= 2, Init
  PROVE  OccupiedInv /\ LoadedInv
<1>1. Capacity \in Nat /\ head = 0 /\ tail = 0
  BY CapacityAssumption DEF Init
<1>2. \A n \in 0 .. Capacity - 1 : seq[Slot(n)] = n
  BY <1>1, SlotOfSlot DEF Init, Slots
<1>3. \A t \in Threads : pc[t] = "idle"
  BY DEF Init
<1> QED
  BY <1>1, <1>2, <1>3 DEF OccupiedInv, LoadedInv, Threads

LEMMA ResetRefusal ==
  ASSUME Capacity >= 2, TypeOK, Reset
  PROVE  OccupiedInv' /\ LoadedInv'
<1>1. Capacity \in Nat /\ head' = 0 /\ tail' = 0
  BY CapacityAssumption DEF Reset
<1>2. \A n \in 0 .. Capacity - 1 : seq'[Slot(n)] = n
  BY <1>1, SlotOfSlot DEF Reset, Slots
<1>3. \A t \in Threads : pc'[t] = "idle"
  BY DEF Reset
<1> QED
  BY <1>1, <1>2, <1>3 DEF OccupiedInv, LoadedInv, Threads

\* A step that leaves the counters, the cells and the owners of positions
\* alone keeps both parts, if a thread that it brings to its check has just
\* loaded its position.
LEMMA QuietRefusal ==
  ASSUME OccupiedInv, LoadedInv,
         head' = head, tail' = tail, seq' = seq, head \in Nat, tail \in Nat,
         \A p \in Producers : Writing(p) => Writing(p)' /\ pos'[p] = pos[p],
         \A c \in Consumers : Reading(c) => Reading(c)' /\ pos'[c] = pos[c],
         \A p \in Producers : pc'[p] = "check" =>
           pos'[p] = tail \/ (pc[p] = "check" /\ pos'[p] = pos[p]),
         \A c \in Consumers : pc'[c] = "check" =>
           pos'[c] = head \/ (pc[c] = "check" /\ pos'[c] = pos[c])
  PROVE  OccupiedInv' /\ LoadedInv'
<1>1. OccupiedInv'
  BY DEF OccupiedInv
<1>2. LoadedInv'
  BY DEF LoadedInv
<1> QED
  BY <1>1, <1>2

\* A load of a counter returns its value.
LEMMA SeqCstLoad ==
  ASSUME Policy = "SeqCst"
  PROVE  /\ \A n : Visible(n) = {n}
         /\ \A i : VisibleSeq(i) = {seq[i]}
BY DEF Visible, VisibleSeq

\* A producer that claims a position explains why its cell is not published.
LEMMA PushClaimRefusal ==
  ASSUME Capacity >= 2, TypeOK, QueueInv, OccupiedInv, LoadedInv,
         NEW p \in Producers, PushClaim(p)
  PROVE  OccupiedInv' /\ LoadedInv'
<1>1. /\ head \in Nat /\ tail \in Nat /\ Capacity \in Nat
      /\ p \in Threads /\ p \notin Consumers
  BY CapacityAssumption, ThreadsAssumption DEF TypeOK, Threads
<1>2. seq[Slot(tail)] = tail
  BY ClaimedCellIsFree
<1>3. /\ pos[p] = tail /\ tail' = tail + 1 /\ head' = head /\ seq' = seq /\ pos' = pos
      /\ \A u \in Threads : u # p => pc'[u] = pc[u]
      /\ pc[p] = "cas" /\ pc'[p] = "write"
  BY <1>1 DEF PushClaim, TypeOK
<1>4. /\ \A u \in Producers : Writing(u) => Writing(u)'
      /\ \A u \in Consumers : Reading(u) => Reading(u)'
      /\ Writing(p)'
  BY <1>1, <1>3 DEF Writing, Reading, Threads
<1>5. OccupiedInv'
  <2>1. \A n \in head .. tail : seq[Slot(n)] = n =>
          \E u \in Producers : Writing(u)' /\ pos[u] = n
    BY <1>1, <1>3, <1>4 DEF OccupiedInv
  <2>2. \A n \in tail + 1 .. head + Capacity - 1 : seq[Slot(n)] = n - Capacity + 1 =>
          \E u \in Consumers : Reading(u)' /\ pos[u] = n - Capacity
    BY <1>1, <1>4 DEF OccupiedInv
  <2>3. (tail + 1) - 1 = tail
    BY <1>1
  <2> QED
    BY <1>3, <2>1, <2>2, <2>3 DEF OccupiedInv
<1>6. \A u \in Threads : pos[u] \in Nat
  BY DEF TypeOK
<1>7. LoadedInv'
  BY <1>1, <1>2, <1>3, <1>6 DEF LoadedInv, Threads
<1> QED
  BY <1>5, <1>7

\* Publishing: only the writer's own cell changes, and it moves on.
LEMMA PushPublishRefusal ==
  ASSUME Capacity >= 2, TypeOK, QueueInv, OccupiedInv, LoadedInv,
         NEW p \in Producers, PushPublish(p)
  PROVE  OccupiedInv' /\ LoadedInv'
<1> DEFINE i == Slot(pos[p])
<1>1. /\ head \in Nat /\ tail \in Nat /\ Capacity \in Nat /\ pos[p] \in Nat /\ i \in Slots
      /\ p \in Threads /\ p \notin Consumers /\ Writing(p)
  BY CapacityAssumption, ThreadsAssumption, SlotOfNat DEF TypeOK, Threads, PushPublish, Writing
<1>2. /\ tail' = tail /\ head' = head /\ pos' = pos
      /\ seq' = [seq EXCEPT ![i] = pos[p] + 1]
      /\ \A u \in Threads : u # p => pc'[u] = pc[u]
      /\ pc'[p] = "idle"
  BY <1>1 DEF PushPublish, TypeOK
<1>3. seq[i] = pos[p] /\ pos[p] < tail
  BY <1>1 DEF QueueInv, WriterInv
<1>4. \A j \in Slots : /\ j # i => seq'[j] = seq[j]
                       /\ seq[j] \in Nat /\ seq'[j] >= seq[j]
  BY <1>1, <1>2, <1>3 DEF TypeOK
<1>5. seq'[i] = pos[p] + 1
  BY <1>1, <1>2 DEF TypeOK
<1> HIDE DEF i
<1>6. \A n \in head .. head + Capacity - 1 : n \in Nat /\ Slot(n) \in Slots
  BY <1>1, SlotOfNat
<1>7. \A n \in head .. head + Capacity - 1 : Slot(n) = i => n = pos[p]
  BY WriterCell, <1>1 DEF i
<1>8. OccupiedInv'
  <2>1. ASSUME NEW n \in head .. tail - 1, seq'[Slot(n)] = n
        PROVE  \E u \in Producers : Writing(u)' /\ pos'[u] = n
    <3>1. n \in head .. head + Capacity - 1
      BY <1>1 DEF QueueInv, CountersInv
    <3>2. Slot(n) # i
      BY <1>1, <1>5, <1>7, <2>1, <3>1
    <3>3. PICK u \in Producers : Writing(u) /\ pos[u] = n
      BY <1>4, <1>6, <2>1, <3>1, <3>2 DEF OccupiedInv
    <3>4. u # p
      BY <3>2, <3>3 DEF i
    <3> QED
      BY <1>2, <3>3, <3>4 DEF Writing, Threads
  <2>2. ASSUME NEW n \in tail .. head + Capacity - 1, seq'[Slot(n)] = n - Capacity + 1
        PROVE  \E c \in Consumers : Reading(c)' /\ pos'[c] = n - Capacity
    <3>1. n \in head .. head + Capacity - 1
      BY <1>1 DEF QueueInv, CountersInv
    <3>2. Slot(n) # i
      BY <1>1, <1>3, <1>7, <2>2, <3>1
    <3>3. PICK c \in Consumers : Reading(c) /\ pos[c] = n - Capacity
      BY <1>4, <1>6, <2>2, <3>1, <3>2 DEF OccupiedInv
    <3> QED
      BY <1>1, <1>2, <3>3 DEF Reading, Threads
  <2> QED
    BY <1>2, <2>1, <2>2 DEF OccupiedInv
<1>9. LoadedInv'
  <2>1. \A u \in Threads : pos[u] \in Nat /\ Slot(pos[u]) \in Slots
    BY SlotOfNat DEF TypeOK
  <2>2. \A u \in Threads : pc'[u] = "check" => pc[u] = "check"
    BY <1>1, <1>2
  <2>3. \A u \in Threads : seq'[Slot(pos[u])] \in Nat /\ seq'[Slot(pos[u])] >= seq[Slot(pos[u])]
    BY <1>1, <1>2, <1>4, <1>5, <2>1
  <2> QED
    BY <1>2, <1>4, <2>1, <2>2, <2>3 DEF LoadedInv, Threads
<1> QED
  BY <1>8, <1>9

\* A consumer that claims a position explains why its cell is not free.
LEMMA PopClaimRefusal ==
  ASSUME Capacity >= 2, TypeOK, QueueInv, OccupiedInv, LoadedInv,
         NEW c \in Consumers, PopClaim(c)
  PROVE  OccupiedInv' /\ LoadedInv'
<1>1. /\ head \in Nat /\ tail \in Nat /\ Capacity \in Nat
      /\ c \in Threads /\ c \notin Producers
  BY CapacityAssumption, ThreadsAssumption DEF TypeOK, Threads
<1>2. seq[Slot(head)] = head + 1
  BY ClaimedCellIsPublished
<1>3. /\ pos[c] = head /\ tail' = tail /\ head' = head + 1 /\ seq' = seq /\ pos' = pos
      /\ \A u \in Threads : u # c => pc'[u] = pc[u]
      /\ pc[c] = "cas" /\ pc'[c] = "read"
  BY <1>1 DEF PopClaim, TypeOK
<1>4. /\ \A u \in Producers : Writing(u) => Writing(u)'
      /\ \A u \in Consumers : Reading(u) => Reading(u)'
      /\ Reading(c)'
  BY <1>1, <1>3 DEF Writing, Reading, Threads
<1>5. OccupiedInv'
  <2>1. \A n \in head + 1 .. tail - 1 : seq[Slot(n)] = n =>
          \E u \in Producers : Writing(u)' /\ pos[u] = n
    BY <1>1, <1>4 DEF OccupiedInv
  <2>2. ASSUME NEW n \in tail .. head + Capacity, seq[Slot(n)] = n - Capacity + 1
        PROVE  \E u \in Consumers : Reading(u)' /\ pos[u] = n - Capacity
    <3>1. CASE n = head + Capacity
      BY <1>1, <1>3, <1>4, <3>1
    <3>2. CASE n # head + Capacity
      BY <1>1, <1>4, <2>2, <3>2 DEF OccupiedInv
    <3> QED
      BY <3>1, <3>2
  <2>3. (head + 1) + Capacity - 1 = head + Capacity
    BY <1>1
  <2> QED
    BY <1>3, <2>1, <2>2, <2>3 DEF OccupiedInv
<1>6. \A u \in Threads : pos[u] \in Nat
  BY DEF TypeOK
<1>7. LoadedInv'
  BY <1>1, <1>2, <1>3, <1>6 DEF LoadedInv, Threads
<1> QED
  BY <1>5, <1>7

\* Releasing: only the reader's own cell changes, and it becomes free.
LEMMA PopReleaseRefusal ==
  ASSUME Capacity >= 2, TypeOK, QueueInv, OccupiedInv, LoadedInv,
         NEW c \in Consumers, PopRelease(c)
  PROVE  OccupiedInv' /\ LoadedInv'
<1> DEFINE i == Slot(pos[c])
<1>1. /\ head \in Nat /\ tail \in Nat /\ Capacity \in Nat /\ pos[c] \in Nat /\ i \in Slots
      /\ c \in Threads /\ c \notin Producers /\ Reading(c)
  BY CapacityAssumption, ThreadsAssumption, SlotOfNat DEF TypeOK, Threads, PopRelease, Reading
<1>2. /\ tail' = tail /\ head' = head /\ pos' = pos
      /\ seq' = [seq EXCEPT ![i] = pos[c] + Capacity]
      /\ \A u \in Threads : u # c => pc'[u] = pc[u]
      /\ pc'[c] = "idle"
  BY <1>1 DEF PopRelease, TypeOK
<1>3. seq[i] = pos[c] + 1
  BY <1>1 DEF QueueInv, ReaderInv
<1>4. \A j \in Slots : /\ j # i => seq'[j] = seq[j]
                       /\ seq[j] \in Nat /\ seq'[j] >= seq[j]
  BY <1>1, <1>2, <1>3 DEF TypeOK
<1>5. seq'[i] = pos[c] + Capacity
  BY <1>1, <1>2 DEF TypeOK
<1> HIDE DEF i
<1>6. \A n \in head .. head + Capacity - 1 : n \in Nat /\ Slot(n) \in Slots
  BY <1>1, SlotOfNat
<1>7. \A n \in head .. head + Capacity - 1 :
        Slot(n) = i => n = pos[c] + Capacity /\ ~(n < tail)
  BY ReaderCell, <1>1 DEF i
<1>8. OccupiedInv'
  <2>1. ASSUME NEW n \in head .. tail - 1, seq'[Slot(n)] = n
        PROVE  \E u \in Producers : Writing(u)' /\ pos'[u] = n
    <3>1. n \in head .. head + Capacity - 1 /\ n < tail
      BY <1>1 DEF QueueInv, CountersInv
    <3>2. Slot(n) # i
      BY <1>7, <3>1
    <3>3. PICK u \in Producers : Writing(u) /\ pos[u] = n
      BY <1>4, <1>6, <2>1, <3>1, <3>2 DEF OccupiedInv
    <3> QED
      BY <1>1, <1>2, <3>3 DEF Writing, Threads
  <2>2. ASSUME NEW n \in tail .. head + Capacity - 1, seq'[Slot(n)] = n - Capacity + 1
        PROVE  \E u \in Consumers : Reading(u)' /\ pos'[u] = n - Capacity
    <3>1. n \in head .. head + Capacity - 1
      BY <1>1 DEF QueueInv, CountersInv
    <3>2. Slot(n) # i
      BY <1>1, <1>5, <1>7, <2>2, <3>1
    <3>3. PICK u \in Consumers : Reading(u) /\ pos[u] = n - Capacity
      BY <1>4, <1>6, <2>2, <3>1, <3>2 DEF OccupiedInv
    <3>4. u # c
      <4>1. ASSUME u = c PROVE Slot(n) = i
        <5>1. n = pos[c] + Capacity
          BY <1>1, <3>1, <3>3, <4>1
        <5> QED
          BY <1>1, <5>1, SlotNextRound DEF i
      <4> QED
        BY <3>2, <4>1
    <3> QED
      BY <1>2, <3>3, <3>4 DEF Reading, Threads
  <2> QED
    BY <1>2, <2>1, <2>2 DEF OccupiedInv
<1>9. LoadedInv'
  <2>1. \A u \in Threads : pos[u] \in Nat /\ Slot(pos[u]) \in Slots
    BY SlotOfNat DEF TypeOK
  <2>2. \A u \in Threads : pc'[u] = "check" => pc[u] = "check"
    BY <1>1, <1>2
  <2>3. \A u \in Threads : seq'[Slot(pos[u])] \in Nat /\ seq'[Slot(pos[u])] >= seq[Slot(pos[u])]
    BY <1>1, <1>2, <1>4, <1>5, <2>1
  <2> QED
    BY <1>2, <1>4, <2>1, <2>2, <2>3 DEF LoadedInv, Threads
<1> QED
  BY <1>8, <1>9

\* Every step keeps both parts.
LEMMA RefusalInvStep ==
  ASSUME Capacity >= 2, Policy = "SeqCst"
  PROVE  TypeOK /\ QueueInv /\ OccupiedInv /\ LoadedInv /\ [Next]_vars
           => OccupiedInv' /\ LoadedInv'
<1> SUFFICES ASSUME TypeOK, QueueInv, OccupiedInv, LoadedInv, [Next]_vars
             PROVE  OccupiedInv' /\ LoadedInv'
  OBVIOUS
<1>1. head \in Nat /\ tail \in Nat
  BY DEF TypeOK
<1>2. ASSUME NEW p \in Producers, Push(p) PROVE OccupiedInv' /\ LoadedInv'
  <2>1. p \in Threads /\ p \notin Consumers
    BY ThreadsAssumption DEF Threads
  <2>2. CASE PushCall(p) \/ PushReload(p) \/ PushCASFails(p)
    <3>1. /\ head' = head /\ tail' = tail /\ seq' = seq
          /\ \A u \in Threads : u # p => pc'[u] = pc[u] /\ pos'[u] = pos[u]
          /\ pos'[p] = tail /\ pc[p] \in {"idle", "reload", "cas"}
      BY <2>1, <2>2, SeqCstLoad DEF PushCall, PushReload, PushCASFails, queueVars, TypeOK
    <3> QED
      BY <1>1, <2>1, <3>1, QuietRefusal DEF Writing, Reading, Threads
  <2>3. CASE PushCheck(p) \/ PushWrite(p)
    <3>1. /\ head' = head /\ tail' = tail /\ seq' = seq /\ pos' = pos
          /\ \A u \in Threads : u # p => pc'[u] = pc[u]
          /\ \/ pc[p] = "check" /\ pc'[p] \in {"cas", "idle", "reload"}
             \/ pc[p] = "write" /\ pc'[p] = "publish"
      BY <2>1, <2>3 DEF PushCheck, PushWrite, queueVars, TypeOK
    <3> QED
      BY <1>1, <2>1, <3>1, QuietRefusal DEF Writing, Reading, Threads
  <2> QED
    BY <1>2, <2>2, <2>3, PushClaimRefusal, PushPublishRefusal DEF Push
<1>3. ASSUME NEW c \in Consumers, Pop(c) PROVE OccupiedInv' /\ LoadedInv'
  <2>1. c \in Threads /\ c \notin Producers
    BY ThreadsAssumption DEF Threads
  <2>2. CASE PopCall(c) \/ PopReload(c) \/ PopCASFails(c)
    <3>1. /\ head' = head /\ tail' = tail /\ seq' = seq
          /\ \A u \in Threads : u # c => pc'[u] = pc[u] /\ pos'[u] = pos[u]
          /\ pos'[c] = head /\ pc[c] \in {"idle", "reload", "cas"}
      BY <2>1, <2>2, SeqCstLoad DEF PopCall, PopReload, PopCASFails, queueVars, TypeOK
    <3> QED
      BY <1>1, <2>1, <3>1, QuietRefusal DEF Writing, Reading, Threads
  <2>3. CASE PopCheck(c) \/ PopRead(c)
    <3>1. /\ head' = head /\ tail' = tail /\ seq' = seq /\ pos' = pos
          /\ \A u \in Threads : u # c => pc'[u] = pc[u]
          /\ \/ pc[c] = "check" /\ pc'[c] \in {"cas", "idle", "reload"}
             \/ pc[c] = "read" /\ pc'[c] = "release"
      BY <2>1, <2>3 DEF PopCheck, PopRead, queueVars, TypeOK
    <3> QED
      BY <1>1, <2>1, <3>1, QuietRefusal DEF Writing, Reading, Threads
  <2> QED
    BY <1>3, <2>2, <2>3, PopClaimRefusal, PopReleaseRefusal DEF Pop
<1>4. ASSUME NEW o \in Observers, SizeLoadHead(o) \/ SizeLoadTail(o)
      PROVE  OccupiedInv' /\ LoadedInv'
  BY <1>1, <1>4, QuietRefusal DEF SizeLoadHead, SizeLoadTail, queueVars, Writing, Reading
<1>5. CASE UNCHANGED vars
  BY <1>1, <1>5, QuietRefusal DEF vars, Writing, Reading
<1>6. CASE Next
  BY <1>2, <1>3, <1>4, <1>6, ResetRefusal DEF Next
<1> QED
  BY <1>5, <1>6

\* A refusal is the check's doing: no other step takes a thread from check to
\* idle.
LEMMA RefusedAtCheck ==
  ASSUME TypeOK, [Next]_vars
  PROVE  /\ \A p \in Producers : PushRefused(p) => PushCheck(p)
         /\ \A c \in Consumers : PopRefused(c) => PopCheck(c)
<1> USE DEF PushRefused, PopRefused
<1>1. ASSUME NEW u \in Producers, Push(u), ~PushCheck(u)
      PROVE  \A t \in Threads : pc[t] = "check" => pc'[t] # "idle"
  <2>1. u \in Threads
    BY DEF Threads
  <2>2. /\ \A t \in Threads : t # u => pc'[t] = pc[t]
        /\ pc[u] = "check" => pc'[u] # "idle"
    BY <1>1, <2>1
    DEF Push, PushCall, PushReload, PushClaim, PushCASFails, PushWrite, PushPublish, TypeOK
  <2> QED
    BY <2>2
<1>2. ASSUME NEW u \in Consumers, Pop(u), ~PopCheck(u)
      PROVE  \A t \in Threads : pc[t] = "check" => pc'[t] # "idle"
  <2>1. u \in Threads
    BY DEF Threads
  <2>2. /\ \A t \in Threads : t # u => pc'[t] = pc[t]
        /\ pc[u] = "check" => pc'[u] # "idle"
    BY <1>2, <2>1
    DEF Pop, PopCall, PopReload, PopClaim, PopCASFails, PopRead, PopRelease, TypeOK
  <2> QED
    BY <2>2
<1>3. ASSUME NEW u \in Producers, PushCheck(u), NEW t \in Threads, t # u
      PROVE  pc'[t] = pc[t]
  BY <1>3 DEF PushCheck, TypeOK
<1>4. ASSUME NEW u \in Consumers, PopCheck(u), NEW t \in Threads, t # u
      PROVE  pc'[t] = pc[t]
  BY <1>4 DEF PopCheck, TypeOK
<1>5. ASSUME \/ \E o \in Observers : SizeLoadHead(o) \/ SizeLoadTail(o)
             \/ Reset
             \/ UNCHANGED vars
      PROVE  pc' = pc
  BY <1>5 DEF SizeLoadHead, SizeLoadTail, Reset, vars
<1>6. \A p \in Producers : PushRefused(p) => PushCheck(p)
  BY <1>1, <1>2, <1>3, <1>4, <1>5, ThreadsAssumption DEF Next, Threads
<1>7. \A c \in Consumers : PopRefused(c) => PopCheck(c)
  BY <1>1, <1>2, <1>3, <1>4, <1>5, ThreadsAssumption DEF Next, Threads
<1> QED
  BY <1>6, <1>7

\* A push is refused at position tail only, whose cell is either published and
\* not popped, or still being read.
LEMMA PushRefusal ==
  ASSUME Capacity >= 2, Policy = "SeqCst", TypeOK, QueueInv, OccupiedInv, LoadedInv,
         NEW p \in Producers, PushRefused(p), PushCheck(p)
  PROVE  /\ tail >= Capacity
         /\ \/ head <= tail - Capacity
            \/ \E c \in Consumers : Reading(c) /\ pos[c] = tail - Capacity
<1>1. /\ head \in Nat /\ tail \in Nat /\ Capacity \in Nat /\ p \in Threads
      /\ \A t \in Threads : pos[t] \in Nat
      /\ pos[p] \in Nat /\ Slot(pos[p]) \in Slots /\ seq[Slot(pos[p])] \in Nat
      /\ head <= tail /\ tail <= head + Capacity
  BY CapacityAssumption, SlotOfNat DEF TypeOK, Threads, QueueInv, CountersInv
<1>2. seq[Slot(pos[p])] < pos[p]
  BY <1>1, SeqCstLoad DEF PushRefused, PushCheck, TypeOK
<1>3. pos[p] = tail
  BY <1>1, <1>2 DEF LoadedInv, PushRefused
<1>4. CASE tail = head + Capacity
  BY <1>1, <1>4
<1>5. CASE tail < head + Capacity
  <2>1. seq[Slot(tail)] = tail - Capacity + 1
    BY <1>1, <1>2, <1>3, <1>5 DEF QueueInv, WindowInv
  <2>2. PICK c \in Consumers : Reading(c) /\ pos[c] = tail - Capacity
    BY <1>1, <1>5, <2>1 DEF OccupiedInv
  <2> QED
    BY <1>1, <2>2 DEF Threads
<1> QED
  BY <1>1, <1>4, <1>5

\* A pop is refused at position head only, which is unclaimed or being
\* written.
LEMMA PopRefusal ==
  ASSUME Capacity >= 2, Policy = "SeqCst", TypeOK, QueueInv, OccupiedInv, LoadedInv,
         NEW c \in Consumers, PopRefused(c), PopCheck(c)
  PROVE  head = tail \/ \E p \in Producers : Writing(p) /\ pos[p] = head
<1>1. /\ head \in Nat /\ tail \in Nat /\ Capacity \in Nat /\ c \in Threads
      /\ pos[c] \in Nat /\ Slot(pos[c]) \in Slots /\ seq[Slot(pos[c])] \in Nat
      /\ head <= tail /\ tail <= head + Capacity
  BY CapacityAssumption, SlotOfNat DEF TypeOK, Threads, QueueInv, CountersInv
<1>2. seq[Slot(pos[c])] < pos[c] + 1
  BY <1>1, SeqCstLoad DEF PopRefused, PopCheck, TypeOK
<1>3. pos[c] = head
  BY <1>1, <1>2 DEF LoadedInv, PopRefused
<1>4. CASE head < tail
  <2>1. seq[Slot(head)] = head
    BY <1>1, <1>2, <1>3, <1>4 DEF QueueInv, WindowInv
  <2> QED
    BY <1>1, <1>4, <2>1 DEF OccupiedInv
<1> QED
  BY <1>1, <1>4

\* Under SeqCst push and pop return false only for a reason that holds at that
\* instant: the position a push needs is not free again, the queue is empty,
\* or its oldest item is still being written.
THEOREM RefusalsHaveReasons ==
  ASSUME Capacity >= 2, Policy = "SeqCst"
  PROVE  Spec => RefusalsAreTrue
<1>1. Init => OccupiedInv /\ LoadedInv
  BY FreshRefusal
<1>2. TypeOK /\ QueueInv /\ OccupiedInv /\ LoadedInv /\ [Next]_vars => [TrueRefusals]_vars
  BY RefusedAtCheck, PushRefusal, PopRefusal DEF TrueRefusals
<1> QED
  BY <1>1, <1>2, RefusalInvStep, TypeCorrect, QueueCorrect, PTL DEF Spec, RefusalsAreTrue

-----------------------------------------------------------------------------
(***************************************************************************)
(* size() and is_empty() under SeqCst                                      *)
(***************************************************************************)

\* Inside a call the head that was loaded is at most the current one, and the
\* tail was not behind it, so that tail - h = 0 means that both were equal.
LEMMA SizeInvStep ==
  ASSUME Capacity >= 2, Policy = "SeqCst"
  PROVE  TypeOK /\ QueueInv /\ SizeInv /\ [Next]_vars => SizeInv'
<1> SUFFICES ASSUME TypeOK, QueueInv, SizeInv, [Next]_vars PROVE SizeInv'
  OBVIOUS
<1>1. /\ head \in Nat /\ tail \in Nat /\ head <= tail
      /\ \A o \in Observers : obs[o].h \in Nat
      /\ DOMAIN obs = Observers
  BY DEF TypeOK, QueueInv, CountersInv
<1>2. ASSUME obs' = obs, head' \in {head, head + 1}, tail' \in {tail, tail + 1},
             tail' = tail \/ head' = head
      PROVE  SizeInv'
  BY <1>1, <1>2 DEF SizeInv, SizeIsHonest
<1>3. ASSUME NEW o \in Observers, SizeLoadHead(o) PROVE SizeInv'
  <2>1. Visible(head) = {head}
    BY DEF Visible
  <2>2. head' = head /\ tail' = tail
    BY <1>3 DEF SizeLoadHead, queueVars
  <2>3. obs' = [obs EXCEPT ![o] = [at |-> "tail", h |-> head, size |-> 0,
                                   empty |-> head = tail]]
    BY <1>3, <2>1 DEF SizeLoadHead
  <2>4. \A u \in Observers : u # o => obs'[u] = obs[u]
    BY <2>3, <1>1
  <2>5. obs'[o] = [at |-> "tail", h |-> head, size |-> 0, empty |-> head = tail]
    BY <2>3, <1>1
  <2>6. obs'[o].at = "tail" /\ obs'[o].h = head
    BY <2>5
  <2>7. ASSUME head = tail PROVE obs'[o].empty
    <3>1. (head = tail) = TRUE
      BY <2>7
    <3>2. obs'[o] = [at |-> "tail", h |-> head, size |-> 0, empty |-> TRUE]
      BY <2>5, <3>1, Zenon
    <3> QED
      BY <3>2
  <2> QED
    BY <1>1, <2>2, <2>4, <2>6, <2>7 DEF SizeInv, SizeIsHonest
<1>4. ASSUME NEW o \in Observers, SizeLoadTail(o) PROVE SizeInv'
  <2>1. Visible(tail) = {tail}
    BY DEF Visible
  <2>2. head' = head /\ tail' = tail /\ obs[o].at = "tail"
    BY <1>4 DEF SizeLoadTail, queueVars
  <2>3. obs' = [obs EXCEPT ![o] = [at |-> "idle", h |-> obs[o].h,
                                   size |-> tail - obs[o].h, empty |-> obs[o].empty]]
    BY <1>4, <2>1 DEF SizeLoadTail
  <2>4. \A u \in Observers : u # o => obs'[u] = obs[u]
    BY <2>3, <1>1
  <2>5. obs'[o] = [at |-> "idle", h |-> obs[o].h,
                   size |-> tail - obs[o].h, empty |-> obs[o].empty]
    BY <2>3, <1>1
  <2>6. obs'[o].at = "idle" /\ obs'[o].size = tail - obs[o].h
    BY <2>5
  <2>7. obs[o].empty => obs'[o].empty
    BY <2>5
  <2>8. obs[o].h <= head /\ (tail = obs[o].h => obs[o].empty)
    BY <2>2 DEF SizeInv
  <2> QED
    BY <1>1, <2>2, <2>4, <2>6, <2>7, <2>8 DEF SizeInv, SizeIsHonest
<1>5. CASE Reset
  <2>1. obs' = obs /\ \A o \in Observers : obs[o].at = "idle"
    BY <1>5 DEF Reset
  <2> QED
    BY <2>1 DEF SizeInv, SizeIsHonest
<1>6. ASSUME NEW p \in Producers, Push(p) PROVE SizeInv'
  BY <1>1, <1>2, <1>6
  DEF Push, PushCall, PushCheck, PushReload, PushClaim, PushCASFails, PushWrite,
      PushPublish, queueVars
<1>7. ASSUME NEW c \in Consumers, Pop(c) PROVE SizeInv'
  BY <1>1, <1>2, <1>7
  DEF Pop, PopCall, PopCheck, PopReload, PopClaim, PopCASFails, PopRead,
      PopRelease, queueVars
<1>8. CASE UNCHANGED vars
  BY <1>2, <1>8 DEF vars
<1> QED
  BY <1>3, <1>4, <1>5, <1>6, <1>7, <1>8 DEF Next

\* Under SeqCst size() never wraps, and is_empty() is true only of a queue
\* that was empty when the call began.
THEOREM SizeNeverWraps ==
  ASSUME Capacity >= 2, Policy = "SeqCst"
  PROVE  Spec => []SizeIsHonest
<1>1. Init => SizeInv
  BY DEF Init, SizeInv, SizeIsHonest
<1>2. SizeInv => SizeIsHonest
  BY DEF SizeInv
<1> QED
  BY <1>1, <1>2, SizeInvStep, TypeCorrect, QueueCorrect, PTL DEF Spec
=============================================================================
