----------------------------- MODULE RetryQueue -----------------------------
(***************************************************************************)
(* Retries and dead letters of ingest_events: the operations of pkg/queue  *)
(* (FetchReadyBatch, MarkDone, MarkFailedWithBackoff) and handleFailure of *)
(* cpemon-writer, driven by one consumer whose processing may fail, while  *)
(* senders deliver events again.  No service of the repository calls these *)
(* operations yet, so the consumer is external: it does what they are made *)
(* for, and no more.                                                       *)
(*                                                                         *)
(* Time is relative: due and owed say how far an instant still is ahead,   *)
(* so that time goes on without bound.                                     *)
(***************************************************************************)
EXTENDS Integers, FiniteSets

CONSTANTS
  NumRows,         \* events that may be in the table
  Limits,          \* the limits the consumer fetches batches with
  DefaultLimit,    \* 50
  MaxAttempts,     \* maxAttempts
  BaseDelay,       \* baseDelay and base, in seconds
  MaxDelay,        \* the cap of backoffDuration, in seconds
  WordBits,        \* bits of a time.Duration that counts seconds
  TicksPerSecond,
  MaxFaults        \* bound: crashes and failed statements

ASSUME RetryAssumption ==
  /\ NumRows \in Nat
  /\ Limits \subseteq Int
  /\ DefaultLimit \in Nat \ {0}
  /\ MaxAttempts \in Nat \ {0}
  /\ BaseDelay \in Nat \ {0}
  /\ MaxDelay \in Nat
  /\ WordBits \in Nat \ {0}
  /\ TicksPerSecond \in Nat \ {0}
  /\ MaxFaults \in Nat

VARIABLES
  protocol,  \* which operations the consumer uses; it never changes
  tick,      \* the clock's position in the current second
  row,       \* status and attempts of each row, in the order of the ids
  due,       \* per row: next_at - NOW() in seconds, 0 when it has passed
  batch,     \* the fetched events still to visit, with the attempts read
  work,      \* the event the consumer is at
  faults,    \* history: crashes and failed statements so far
  failures,  \* history: failed processings of a row since it was offered
  owed       \* history: ticks until the back-off of a row is over

vars == <<protocol, tick, row, due, batch, work, faults, failures, owed>>

-----------------------------------------------------------------------------
Rows      == 1 .. NumRows
Statuses  == {"absent", "queued", "processing", "done", "dead"}
Idle      == [phase |-> "idle"]
Item(phase, key, attempts, d, o) ==
  [phase |-> phase, key |-> key, attempts |-> attempts, due |-> d, owed |-> o]
Works     == [phase : {"running", "failed"}, key : Rows,
              attempts : 0 .. MaxAttempts, due : Nat, owed : Nat]

TypeOK ==
  /\ protocol \in {"library", "writer"}
  /\ tick \in 0 .. TicksPerSecond - 1
  /\ row \in [Rows -> [status : Statuses, attempts : 0 .. MaxAttempts]]
  /\ due \in [Rows -> Nat]
  /\ DOMAIN batch \subseteq Rows
  /\ batch \in [DOMAIN batch -> 0 .. MaxAttempts]
  /\ work \in Works \cup {Idle}
  /\ faults \in 0 .. MaxFaults
  /\ failures \in [Rows -> 0 .. MaxAttempts]
  /\ owed \in [Rows -> Nat]

Init ==
  /\ protocol \in {"library", "writer"}
  /\ tick = 0
  /\ row = [k \in Rows |-> [status |-> "absent", attempts |-> 0]]
  /\ due = [k \in Rows |-> 0]
  /\ batch = [k \in {} |-> 0]
  /\ work = Idle
  /\ faults = 0
  /\ failures = [k \in Rows |-> 0]
  /\ owed = [k \in Rows |-> 0]

Fault ==
  /\ faults < MaxFaults
  /\ faults' = faults + 1

Less(n) == IF n > 0 THEN n - 1 ELSE 0

\* A time in whole seconds from now is stored rounded to DATETIME: up, in the
\* second half of a second.
InColumn(delay) ==
  LET d == delay + (IF 2 * tick >= TicksPerSecond THEN 1 ELSE 0)
  IN  IF d > 0 THEN d ELSE 0

\* The clock goes on.  Seconds begin for the database when tick is 0.
Tick ==
  LET Later(d) == IF tick + 1 = TicksPerSecond THEN Less(d) ELSE d IN
  /\ tick' = (tick + 1) % TicksPerSecond
  /\ due' = [k \in Rows |-> Later(due[k])]
  /\ owed' = [k \in Rows |-> Less(owed[k])]
  /\ work' = IF work = Idle THEN Idle
             ELSE Item(work.phase, work.key, work.attempts, Later(work.due),
                       Less(work.owed))
  /\ UNCHANGED <<protocol, row, batch, faults, failures>>

-----------------------------------------------------------------------------
(* Delays *)

\* Two's complement.
Wrap(n) == LET half == 2 ^ (WordBits - 1) IN ((n + half) % (2 * half)) - half

\* baseDelay * (1 << (ev.Attempts - 1))
LibraryDelay(attempts) == Wrap(BaseDelay * 2 ^ (attempts - 1))

\* backoffDuration: the cap is compared after the product was taken.
BackoffDuration(attempts) ==
  LET delay == Wrap(BaseDelay * 2 ^ attempts)
  IN  IF delay > MaxDelay THEN MaxDelay ELSE delay

Delay(attempts) == IF protocol = "library" THEN LibraryDelay(attempts)
                   ELSE BackoffDuration(attempts)

-----------------------------------------------------------------------------
(* The senders: InsertOrUpdateIngestEvent *)

\* BUG: the update list forgets attempts.
OfferKeepsAttempts(k) ==
  /\ \A j \in Rows : j < k => row[j].status # "absent"
  /\ row' = [row EXCEPT ![k].status = "queued"]
  /\ \E d \in 0 .. InColumn(0) : due' = [due EXCEPT ![k] = d]
  /\ owed' = [owed EXCEPT ![k] = 0]
  /\ failures' = [failures EXCEPT ![k] =
       IF k \in DOMAIN batch \/ (work # Idle /\ work.key = k) THEN @ ELSE 0]
  /\ UNCHANGED <<protocol, tick, batch, work, faults>>

\* The k-th event is new or delivered again.  The handler may have read its
\* clock some time before the statement runs.  failures starts again unless
\* the consumer still works with an older copy of the row.
Offer(k) ==
  /\ \A j \in Rows : j < k => row[j].status # "absent"
  /\ row' = [row EXCEPT ![k] = [status |-> "queued", attempts |-> 0]]
  /\ \E d \in 0 .. InColumn(0) : due' = [due EXCEPT ![k] = d]
  /\ owed' = [owed EXCEPT ![k] = 0]
  /\ failures' = [failures EXCEPT ![k] =
       IF k \in DOMAIN batch \/ (work # Idle /\ work.key = k) THEN @ ELSE 0]
  /\ UNCHANGED <<protocol, tick, batch, work, faults>>

-----------------------------------------------------------------------------
(* The consumer *)

Ready == {k \in Rows : row[k].status = "queued" /\ due[k] = 0}

EffectiveLimit(limit) == IF limit <= 0 THEN DefaultLimit ELSE limit

\* BUG: no ORDER BY, and the database happens to return the newest rows.
FetchNewest ==
  /\ work = Idle
  /\ DOMAIN batch = {}
  /\ \E limit \in Limits :
       batch' = [k \in {j \in Ready : Cardinality({i \in Ready : i > j})
                                          < EffectiveLimit(limit)}
                   |-> row[k].attempts]
  /\ UNCHANGED <<protocol, tick, row, due, work, faults, failures, owed>>

\* FetchReadyBatch, or the select of runOnce: ORDER BY id LIMIT limit.
Fetch ==
  /\ work = Idle
  /\ DOMAIN batch = {}
  /\ \E limit \in Limits :
       batch' = [k \in {j \in Ready : Cardinality({i \in Ready : i < j})
                                          < EffectiveLimit(limit)}
                   |-> row[k].attempts]
  /\ UNCHANGED <<protocol, tick, row, due, work, faults, failures, owed>>

NextOf(k) ==
  /\ work = Idle
  /\ k \in DOMAIN batch
  /\ \A j \in DOMAIN batch : k <= j

RestOf(k) == [j \in DOMAIN batch \ {k} |-> batch[j]]

Running(k) == Item("running", k, batch[k], 0, 0)

\* A consumer of the library begins with the next event; it locks nothing.
Begin(k) ==
  /\ protocol = "library"
  /\ NextOf(k)
  /\ batch' = RestOf(k)
  /\ work' = Running(k)
  /\ UNCHANGED <<protocol, tick, row, due, faults, failures, owed>>

\* cpemon-writer locks the event, which counts the attempt in the table, or
\* finds it no longer queued.
Lock(k) ==
  /\ protocol = "writer"
  /\ NextOf(k)
  /\ batch' = RestOf(k)
  /\ \/ /\ row[k].status = "queued"
        /\ row' = [row EXCEPT ![k] = [status |-> "processing",
                                      attempts |-> row[k].attempts + 1]]
        /\ work' = Running(k)
     \/ /\ row[k].status # "queued"
        /\ UNCHANGED <<row, work>>
  /\ UNCHANGED <<protocol, tick, due, faults, failures, owed>>

\* What the comment of each function promises for the n-th failure: the delay
\* without the arithmetic of the machine.
Promised(n) ==
  IF protocol = "library" THEN BaseDelay * 2 ^ (n - 1)
  ELSE LET d == BaseDelay * 2 ^ n IN IF d > MaxDelay THEN MaxDelay ELSE d

\* BUG: the attempts in the copy are not counted up.
FailUncounted ==
  /\ work.phase = "running"
  /\ work' = Item("failed", work.key, work.attempts,
                  InColumn(Delay(work.attempts + 1)),
                  TicksPerSecond * Promised(work.attempts + 1))
  /\ failures' = [failures EXCEPT ![work.key] =
                    IF @ < MaxAttempts THEN @ + 1 ELSE @]
  /\ UNCHANGED <<protocol, tick, row, due, batch, faults, owed>>

\* BUG: a failure is counted twice, by the lock and by the library.
FailTwice ==
  /\ work.phase = "running"
  /\ work' = Item("failed", work.key, work.attempts + 2,
                  InColumn(Delay(work.attempts + 1)),
                  TicksPerSecond * Promised(work.attempts + 1))
  /\ failures' = [failures EXCEPT ![work.key] =
                    IF @ < MaxAttempts THEN @ + 1 ELSE @]
  /\ UNCHANGED <<protocol, tick, row, due, batch, faults, owed>>

\* The processing fails: MarkFailedWithBackoff, or handleFailure with the
\* count that the lock wrote, adds one to the attempts of its copy and
\* computes next_at from the clock.
Fail ==
  /\ work.phase = "running"
  /\ work' = Item("failed", work.key, work.attempts + 1,
                  InColumn(Delay(work.attempts + 1)),
                  TicksPerSecond * Promised(work.attempts + 1))
  /\ failures' = [failures EXCEPT ![work.key] =
                    IF @ < MaxAttempts THEN @ + 1 ELSE @]
  /\ UNCHANGED <<protocol, tick, row, due, batch, faults, owed>>

\* BUG: the update list forgets next_at.
RecordKeepsNextAt ==
  LET k == work.key
      dead == work.attempts >= MaxAttempts IN
  /\ row' = [row EXCEPT ![k] = [status   |-> IF dead THEN "dead" ELSE "queued",
                                attempts |-> work.attempts]]
  /\ UNCHANGED due
  /\ owed' = IF dead THEN owed ELSE [owed EXCEPT ![k] = work.owed]

\* BUG: gives up one failure too early.
RecordEarly ==
  LET k == work.key
      dead == work.attempts + 1 >= MaxAttempts IN
  /\ row' = [row EXCEPT ![k] = [status   |-> IF dead THEN "dead" ELSE "queued",
                                attempts |-> work.attempts]]
  /\ due' = IF dead THEN due ELSE [due EXCEPT ![k] = work.due]
  /\ owed' = IF dead THEN owed ELSE [owed EXCEPT ![k] = work.owed]

\* The UPDATE of a failure: WHERE id = ?, whatever the row says by now.
Record ==
  LET k == work.key
      dead == work.attempts >= MaxAttempts IN
  /\ row' = [row EXCEPT ![k] = [status   |-> IF dead THEN "dead" ELSE "queued",
                                attempts |-> work.attempts]]
  /\ due' = IF dead THEN due ELSE [due EXCEPT ![k] = work.due]
  /\ owed' = IF dead THEN owed ELSE [owed EXCEPT ![k] = work.owed]

RecordFailure ==
  /\ work.phase = "failed"
  /\ Record
  /\ work' = Idle
  /\ UNCHANGED <<protocol, tick, batch, faults, failures>>

SetDone == row' = [row EXCEPT ![work.key] = [status   |-> "done",
                                             attempts |-> row[work.key].attempts]]

\* The processing succeeds: MarkDone by id.
MarkDone ==
  /\ work.phase = "running"
  /\ SetDone
  /\ work' = Idle
  /\ UNCHANGED <<protocol, tick, due, batch, faults, failures, owed>>

\* The statement that ends the work returns an error, before or after it took
\* effect; the consumer goes on to the next event.
StatementFails ==
  /\ Fault
  /\ \/ /\ work # Idle
        /\ UNCHANGED <<row, due, owed>>
     \/ /\ work.phase = "failed"
        /\ Record
     \/ /\ work.phase = "running"
        /\ SetDone
        /\ UNCHANGED <<due, owed>>
  /\ work' = Idle
  /\ UNCHANGED <<protocol, tick, batch, failures>>

\* The process dies in the middle of a batch and starts again.
Crash ==
  /\ DOMAIN batch # {} \/ work # Idle
  /\ Fault
  /\ batch' = [k \in {} |-> 0]
  /\ work' = Idle
  /\ UNCHANGED <<protocol, tick, row, due, failures, owed>>

-----------------------------------------------------------------------------
Consume ==
  \/ Fetch \/ Fail \/ RecordFailure \/ MarkDone \/ StatementFails \/ Crash
  \/ \E k \in Rows : Begin(k) \/ Lock(k)

Next == Tick \/ Consume \/ \E k \in Rows : Offer(k)

Spec == Init /\ [][Next]_vars

\* Time passes, the loop of the consumer goes on, its processing comes to an
\* end one way or the other, and statements get an answer.
Fairness ==
  /\ WF_vars(Tick)
  /\ WF_vars(Fetch)
  /\ WF_vars(\E k \in Rows : Begin(k) \/ Lock(k))
  /\ WF_vars(Fail \/ MarkDone)
  /\ WF_vars(RecordFailure)

FairSpec == Spec /\ Fairness

-----------------------------------------------------------------------------
(* Properties *)

\* An event is given up only after its processing failed MaxAttempts times
\* since it was offered, however often the consumer died, a statement was
\* lost, or a redelivery reset the counter under the consumer's copy.  (Those
\* failures may all have been of the older payload: the copy is not renewed.)
DeadAfterMaxAttempts ==
  \A k \in Rows : row[k].status = "dead" => failures[k] = MaxAttempts

\* No event is handed out before its back-off is over, but for the half second
\* that rounding next_at may take away; in particular the product in the delay
\* never wraps around to an instant in the past.
BackoffRespected == \A k \in Ready : 2 * owed[k] <= TicksPerSecond

\* Retries end: when no event is delivered again for good, every queued event
\* is eventually done or dead.  With the library a crash or a failed statement
\* does not change that, for it has no status that only a living consumer can
\* end; with the lock of cpemon-writer it takes a faultless run.
Offers == \E k \in Rows : Offer(k)
EventuallySettled ==
  <>[][~Offers]_vars =>
     \A k \in Rows :
       (row[k].status = "queued" /\ (protocol = "library" \/ faults = 0)) ~>
         (row[k].status \in {"done", "dead"} \/ (protocol = "writer" /\ faults > 0))

\* The oldest rows are not starved, however often other events are delivered
\* again: as many as fit into a batch are visited unless they keep being
\* delivered again themselves.  (Younger rows can starve: ORDER BY id LIMIT.)
OldestVisited ==
  \A k \in {j \in Rows : \A limit \in Limits : j <= EffectiveLimit(limit)} :
    <>[][~Offer(k)]_vars =>
       (row[k].status = "queued" ~>
          ((work # Idle /\ work.key = k) \/ row[k].status # "queued"))

\* The inductive invariant: no count, in the table or in a copy of the
\* consumer, runs ahead of the failures.
CountsAreFailures ==
  /\ \A k \in Rows :
       row[k].status = "queued" => /\ row[k].attempts <= failures[k]
                                   /\ row[k].attempts < MaxAttempts
  /\ \A k \in DOMAIN batch : batch[k] <= failures[k] /\ batch[k] < MaxAttempts
  /\ work.phase = "running" => /\ work.attempts <= failures[work.key]
                               /\ work.attempts < MaxAttempts
  /\ work.phase = "failed" => work.attempts <= failures[work.key]

\* What is behind BackoffRespected: the seconds a column has still to wait
\* cover the ticks a row is owed, but for half a second; so do those in the copy
\* of a failure that will be retried.
Covers(d, o) ==
  2 * o <= TicksPerSecond
             + (IF d > 0 THEN 2 * (TicksPerSecond * d - tick) ELSE 0)

BackoffKept ==
  /\ \A k \in Rows : Covers(due[k], owed[k])
  /\ work.phase = "failed" /\ work.attempts < MaxAttempts
       => Covers(work.due, work.owed)

\* No product behind the delay of a retry wraps around.  (The writer retries
\* after 5 s * 2 ^ 4 at most, in a Duration of 63 bits of nanoseconds; the
\* callers of the library choose their own numbers.)
DelaysFit == BaseDelay * 2 ^ (MaxAttempts - 1) < 2 ^ (WordBits - 1)
=============================================================================
