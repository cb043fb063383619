--------------------------- MODULE LatencyLogger ---------------------------
(***************************************************************************)
(* The two logger threads of challenge/client/client.cpp, which have the   *)
(* same body: records are taken from a queue into a batch, and the batch   *)
(* is written to the file when it is full, when the flush interval has     *)
(* passed, or at shutdown.                                                 *)
(*                                                                         *)
(* Records are numbered in the order their pushes claim a cell.  A cell is *)
(* claimed before it is filled: until then pop fails on it and is_empty    *)
(* is false.  The logger is the queue's only consumer.                     *)
(*                                                                         *)
(* On a machine that is stale a load may return an older value, as the C++ *)
(* memory model allows where nothing orders it after the newer one: a cell *)
(* that is filled looks unfilled, a claim that was made is not seen, until *)
(* the logger has seen it once.  Stores are seen in the end.               *)
(***************************************************************************)
EXTENDS Integers, Sequences

CONSTANTS Producers,  \* threads that push records
          Capacity,   \* LOG_QUEUE_CAPACITY
          BatchSize,  \* LOG_BATCH_SIZE
          MaxRecords  \* bound: records claimed

ASSUME LoggerAssumption ==
  Capacity \in Nat \ {0} /\ BatchSize \in Nat \ {0} /\ MaxRecords \in Nat

VARIABLES
  queue,     \* the claimed cells: record and whether it is filled
  claimed,   \* records claimed
  filling,   \* filling[p]: the record p has claimed and not yet filled
  batch,     \* the local vector
  file,      \* the rows of the file
  at,        \* where the logger thread is
  shutdown,  \* shutdown_requested
  before,    \* history: records claimed before shutdown
  stale,     \* whether loads may return older values
  seen       \* the last claim that is_empty has shown the logger

vars == <<queue, claimed, filling, batch, file, at, shutdown, before, stale, seen>>

Init ==
  /\ queue = <<>>
  /\ claimed = 0
  /\ filling = [p \in Producers |-> 0]
  /\ batch = <<>>
  /\ file = <<>>
  /\ at = "loop"
  /\ shutdown = FALSE
  /\ before = 0
  /\ stale \in BOOLEAN
  /\ seen = 0

\* push up to its successful compare-and-swap; a full queue refuses the
\* record and the caller does not look at the result.  A cell that was used
\* before may look as if it still were.
Claim(p) ==
  /\ filling[p] = 0
  /\ claimed < MaxRecords
  /\ Len(queue) < Capacity
  /\ claimed' = claimed + 1
  /\ queue' = Append(queue, [rec |-> claimed + 1, full |-> FALSE])
  /\ filling' = [filling EXCEPT ![p] = claimed + 1]
  /\ UNCHANGED <<batch, file, at, shutdown, before, stale, seen>>

Refused(p) ==
  /\ filling[p] = 0
  /\ claimed < MaxRecords
  /\ Len(queue) = Capacity \/ (stale /\ claimed >= Capacity)
  /\ claimed' = claimed + 1
  /\ UNCHANGED <<queue, filling, batch, file, at, shutdown, before, stale, seen>>

\* Mutant: the item is copied and its cell is not published.
FillUnpublished(p) ==
  /\ filling[p] # 0
  /\ filling' = [filling EXCEPT ![p] = 0]
  /\ UNCHANGED <<queue, claimed, batch, file, at, shutdown, before, stale, seen>>

\* The rest of push.
Fill(p) ==
  /\ filling[p] # 0
  /\ queue' = [i \in DOMAIN queue |-> IF queue[i].rec = filling[p]
                                      THEN [queue[i] EXCEPT !.full = TRUE] ELSE queue[i]]
  /\ filling' = [filling EXCEPT ![p] = 0]
  /\ UNCHANGED <<claimed, batch, file, at, shutdown, before, stale, seen>>

Interrupt ==
  /\ ~shutdown
  /\ shutdown' = TRUE
  /\ before' = claimed
  /\ UNCHANGED <<queue, claimed, filling, batch, file, at, stale, seen>>

-----------------------------------------------------------------------------
\* What pop may answer; it does not fail by an older value for ever.
CanPop  == queue # <<>> /\ Head(queue).full
PopAnswers == {CanPop} \cup (IF stale THEN {FALSE} ELSE {})

\* The cells that is_empty may see claimed, counted from the first: all of
\* them, or no fewer than it has seen before.  It is true if there are none.
Views ==
  {n \in 0 .. Len(queue) :
     IF stale THEN \A i \in DOMAIN queue : queue[i].rec <= seen => i <= n ELSE n = Len(queue)}

See(n) == seen' = IF n = 0 THEN seen ELSE queue[n].rec

\* Mutant: the loop only tests shutdown_requested.
LoopUntilShutdown ==
  /\ at = "loop"
  /\ at' = IF ~shutdown THEN "pop" ELSE "done"
  /\ UNCHANGED <<queue, claimed, filling, batch, file, shutdown, before, stale, seen>>

\* The condition of the while loop.
Loop ==
  /\ at = "loop"
  /\ IF ~shutdown THEN at' = "pop" /\ UNCHANGED seen
     ELSE \E n \in Views : See(n) /\ at' = IF n # 0 THEN "pop" ELSE "done"
  /\ UNCHANGED <<queue, claimed, filling, batch, file, shutdown, before, stale>>

\* The first pop of an iteration: its record joins the batch.
Pop ==
  /\ at = "pop"
  /\ \E popped \in PopAnswers :
       IF popped THEN /\ batch' = Append(batch, Head(queue).rec)
                      /\ queue' = Tail(queue)
                 ELSE UNCHANGED <<batch, queue>>
  /\ at' = "check"
  /\ UNCHANGED <<claimed, filling, file, shutdown, before, stale, seen>>

\* Two of the three reasons to write the batch; the third, the interval, may
\* have passed at any time.  is_empty is only asked if the other two tests of
\* line 315 hold.
Asks         == shutdown /\ batch # <<>>
MustWrite(n) == Len(batch) >= BatchSize \/ (Asks /\ n = 0)
Look(n)      == IF Asks THEN n \in Views /\ See(n) ELSE n = 0 /\ UNCHANGED seen

\* Mutant: the batch is not cleared.
WriteKeepsBatch ==
  /\ at = "check"
  /\ \E n \in 0 .. Len(queue) : Look(n) /\ (MustWrite(n) \/ batch # <<>>)
  /\ Len(file) <= MaxRecords
  /\ file' = file \o batch
  /\ at' = "break"
  /\ UNCHANGED <<queue, claimed, filling, batch, shutdown, before, stale>>

Write ==
  /\ at = "check"
  /\ \E n \in 0 .. Len(queue) : Look(n) /\ (MustWrite(n) \/ batch # <<>>)
  /\ file' = file \o batch
  /\ batch' = <<>>
  /\ at' = "break"
  /\ UNCHANGED <<queue, claimed, filling, shutdown, before, stale>>

\* A batch that is not written is looked at again by SecondPop.
Keep ==
  /\ at = "check"
  /\ \E n \in 0 .. Len(queue) : Look(n) /\ ~MustWrite(n)
  /\ at' = IF batch # <<>> THEN "second" ELSE "break"
  /\ UNCHANGED <<queue, claimed, filling, batch, file, shutdown, before, stale>>

\* The pop in the else-branch's condition: what it takes is dropped.
SecondPop ==
  /\ at = "second"
  /\ \E popped \in PopAnswers : queue' = IF popped THEN Tail(queue) ELSE queue
  /\ at' = "break"
  /\ UNCHANGED <<claimed, filling, batch, file, shutdown, before, stale, seen>>

Break ==
  /\ at = "break"
  /\ IF ~shutdown THEN at' = "loop" /\ UNCHANGED seen
     ELSE \E n \in Views : See(n) /\ at' = IF n = 0 /\ batch = <<>> THEN "done" ELSE "loop"
  /\ UNCHANGED <<queue, claimed, filling, batch, file, shutdown, before, stale>>

Logger == Loop \/ Pop \/ Write \/ Keep \/ SecondPop \/ Break

Next == Logger \/ Interrupt \/ \E p \in Producers : Claim(p) \/ Refused(p) \/ Fill(p)

Spec == Init /\ [][Next]_vars

\* The threads are scheduled; nobody has to push.  A pop that is tried for ever
\* does not fail by an older value for ever.
Taken    == Pop /\ queue' # queue
Fairness == /\ WF_vars(Logger) /\ SF_vars(Taken)
            /\ \A p \in Producers : WF_vars(Fill(p))

FairSpec == Spec /\ Fairness

-----------------------------------------------------------------------------
(***************************************************************************)
(* Properties                                                              *)
(***************************************************************************)

\* The file and the batch behind it hold each record at most once, in the
\* order of the claims, whatever was dropped in between.
LoggedInOrder ==
  LET logged == file \o batch
  IN  \A i, j \in DOMAIN logged : i < j => logged[i] < logged[j]

\* A logger that has stopped leaves nothing in the queue that was pushed
\* before the interrupt, if loads return the newest values; if they do not it
\* may leave such records, but none that it has seen.
DrainsItsQueue ==
  at = "done" =>
    \A i \in DOMAIN queue : queue[i].rec > IF stale THEN seen ELSE before

\* The logger stops after an interrupt.
LoggerStops == shutdown ~> at = "done"
=============================================================================
