---------------------------- MODULE IngestQueue ----------------------------
(***************************************************************************)
(* The ingest pipeline: acs-ingest receives webhook deliveries and upserts *)
(* them into the MySQL table ingest_events; one or more cpemon-writer      *)
(* processes poll the table, claim queued rows and mark them done.         *)
(*                                                                         *)
(* Every SQL statement of the code autocommits, so it is one atomic step.  *)
(* Everything a process does between two statements is local to it and is  *)
(* part of the step that ends or begins there.                             *)
(***************************************************************************)
EXTENDS Integers, FiniteSets

CONSTANTS
  Deliveries,      \* POSTs to /acs/webhook, each handled once; a delivery
                   \* also stands for the payload it carries
  SNs,             \* serial numbers, up to the collation of the sn column
  EventTimes,      \* the event_ts values senders put into payloads (ticks)
  Writers,         \* cpemon-writer processes
  BatchSize,       \* BATCH_SIZE
  TicksPerMs,      \* the clock's ticks in a unit of event_ts, DATETIME(3)
  TicksPerSecond,  \* the clock's ticks in a unit of next_at, DATETIME
  MaxTime,         \* bound: the clock stops here
  LastArrival,     \* bound: no delivery arrives later
  Faults,          \* the kinds of fault that may happen
  MaxFaults,       \* bound: how many faults may happen
  None

FaultKinds == {"enqueue", "enqueueLost", "lock", "lockLost", "done",
               "doneLost", "crash"}

ASSUME ConstantsAssumption ==
  /\ BatchSize \in Nat \ {0}
  /\ TicksPerMs \in Nat \ {0}
  /\ TicksPerSecond \in Nat \ {0}
  /\ MaxTime \in Nat
  /\ LastArrival \in Nat
  /\ MaxFaults \in Nat
  /\ EventTimes \subseteq Int
  /\ Faults \subseteq FaultKinds
ASSUME NoneAssumption == None \notin (SNs \X Int) \cup SNs \cup EventTimes
                                  \cup [key : SNs \X Int, payload : Deliveries]

VARIABLES
  now,      \* the one clock that pods and database read
  req,      \* per delivery: how far its handler got, its key, its arrival
  row,      \* the table ingest_events, a function on the keys it holds
  lastId,   \* AUTO_INCREMENT counter of the table
  batch,    \* per writer: the selected rows runOnce has still to visit
  hold,     \* per writer: the row it locked and has still to mark done
  claimed,  \* history: the deliveries some writer has claimed
  faults    \* history: the number of faults so far

vars == <<now, req, row, lastId, batch, hold, claimed, faults>>

-----------------------------------------------------------------------------
(* Data *)

\* uk_idem: (sn, event_ts), the latter in milliseconds.
Keys == SNs \X Int

Rows == [id : Nat, status : {"queued", "processing", "done"},
         payload : Deliveries, attempts : Nat, nextAt : Int]

\* A POST as the handler sees it: is the body readable, what does the
\* signature header say, does the body parse, which sn and event_ts has it
\* (None: no sn, and an event_ts that is absent or unparsable).
Posts == [readable : BOOLEAN, signature : {"none", "good", "bad"},
          json : BOOLEAN, sn : SNs \cup {None}, ts : EventTimes \cup {None}]

\* Phases of a delivery.  "unacked": the row was written, the sender got no
\* 202; "500" stands for every other failed enqueue.
Answered == {"202", "400", "401", "500", "unacked"}
Accepted == {"202", "unacked"}
Phases   == {"new", "handling"} \cup Answered

\* MySQL rounds a timestamp to the precision of its column.
Rounded(t, unit) == (t + unit \div 2) \div unit

\* NOW() has the precision of seconds and does not round up.
DbNow == now \div TicksPerSecond

TypeOK ==
  /\ now \in Nat
  /\ req \in [Deliveries -> [phase : Phases, key : Keys \cup {None},
                             at : Nat]]
  /\ DOMAIN row \subseteq Keys
  /\ row \in [DOMAIN row -> Rows]
  /\ lastId \in Nat
  /\ batch \in [Writers -> SUBSET DOMAIN row]
  /\ hold \in [Writers -> [key : DOMAIN row, payload : Deliveries]
                            \cup {None}]
  /\ claimed \subseteq Deliveries
  /\ faults \in Nat

Init ==
  /\ now = 0
  /\ req = [d \in Deliveries |-> [phase |-> "new", key |-> None, at |-> 0]]
  /\ row = [k \in {} |-> None]
  /\ lastId = 0
  /\ batch = [w \in Writers |-> {}]
  /\ hold = [w \in Writers |-> None]
  /\ claimed = {}
  /\ faults = 0

\* A fault of an enabled kind; it is counted.
Fault(kind) ==
  /\ kind \in Faults
  /\ faults < MaxFaults
  /\ faults' = faults + 1

Tick ==
  /\ now < MaxTime
  /\ now' = now + 1
  /\ UNCHANGED <<req, row, lastId, batch, hold, claimed, faults>>

-----------------------------------------------------------------------------
(* acs-ingest *)

\* BUG: a payload without an sn passes.
VerdictWithoutSn(p) ==
  IF ~p.readable THEN "400"
  ELSE IF p.signature = "bad" THEN "401"
  ELSE IF ~p.json THEN "400"
  ELSE "handling"

\* The early returns of handleACSWebhook, in their order.
Verdict(p) ==
  IF ~p.readable THEN "400"
  ELSE IF p.signature = "bad" THEN "401"
  ELSE IF ~p.json \/ p.sn = None THEN "400"
  ELSE "handling"

\* A payload without a usable event_ts is stamped with the handler's clock.
KeyOf(p) ==
  <<p.sn, Rounded(IF p.ts = None THEN now ELSE p.ts, TicksPerMs)>>

\* A delivery arrives and its handler runs up to the database call.
Receive(d) ==
  /\ now <= LastArrival
  /\ req[d].phase = "new"
  /\ \E p \in Posts :
       req' = [req EXCEPT ![d] =
                 [phase |-> Verdict(p),
                  key   |-> IF Verdict(p) = "handling" THEN KeyOf(p) ELSE None,
                  at    |-> now]]
  /\ UNCHANGED <<now, row, lastId, batch, hold, claimed, faults>>

\* BUG: the columns of the update list forget attempts.
UpsertKeepsAttempts(d, t) ==
  LET key == req[d].key
      fresh == key \notin DOMAIN row IN
  /\ row' = [k \in DOMAIN row \cup {key} |->
               IF k # key THEN row[k]
               ELSE [id       |-> IF fresh THEN lastId + 1 ELSE row[k].id,
                     status   |-> "queued",
                     payload  |-> d,
                     attempts |-> IF fresh THEN 0 ELSE row[k].attempts,
                     nextAt   |-> Rounded(t, TicksPerSecond)]]
  /\ lastId' = lastId + 1

\* BUG: the update list forgets status: a redelivery does not re-queue.
UpsertKeepsStatus(d, t) ==
  LET key == req[d].key
      fresh == key \notin DOMAIN row IN
  /\ row' = [k \in DOMAIN row \cup {key} |->
               IF k # key THEN row[k]
               ELSE [id       |-> IF fresh THEN lastId + 1 ELSE row[k].id,
                     status   |-> IF fresh THEN "queued" ELSE row[k].status,
                     payload  |-> d,
                     attempts |-> 0,
                     nextAt   |-> Rounded(t, TicksPerSecond)]]
  /\ lastId' = lastId + 1

\* INSERT ... ON DUPLICATE KEY UPDATE by the handler of d, which read its
\* clock for next_at at time t.  An existing row keeps its id; the counter
\* moves in either case.
Upsert(d, t) ==
  LET key == req[d].key
      fresh == key \notin DOMAIN row IN
  /\ row' = [k \in DOMAIN row \cup {key} |->
               IF k # key THEN row[k]
               ELSE [id       |-> IF fresh THEN lastId + 1 ELSE row[k].id,
                     status   |-> "queued",
                     payload  |-> d,
                     attempts |-> 0,
                     nextAt   |-> Rounded(t, TicksPerSecond)]]
  /\ lastId' = lastId + 1

\* The upsert commits and the sender gets its 202.
Enqueue(d) ==
  /\ req[d].phase = "handling"
  /\ \E t \in req[d].at .. now : Upsert(d, t)
  /\ req' = [req EXCEPT ![d].phase = "202"]
  /\ UNCHANGED <<now, batch, hold, claimed, faults>>

\* BUG: the handler does not look at the error of the upsert.
EnqueueFailsSilently(d) ==
  /\ req[d].phase = "handling"
  /\ \/ /\ Fault("enqueue")
        /\ req' = [req EXCEPT ![d].phase = "202"]
        /\ UNCHANGED <<row, lastId>>
     \/ /\ Fault("enqueueLost")
        /\ \E t \in req[d].at .. now : Upsert(d, t)
        /\ req' = [req EXCEPT ![d].phase = "202"]
  /\ UNCHANGED <<now, batch, hold, claimed>>

\* The database call fails, the request is cancelled or the pod dies: the
\* row is not written, or it is written and the sender is not told.
EnqueueFails(d) ==
  /\ req[d].phase = "handling"
  /\ \/ /\ Fault("enqueue")
        /\ req' = [req EXCEPT ![d].phase = "500"]
        /\ UNCHANGED <<row, lastId>>
     \/ /\ Fault("enqueueLost")
        /\ \E t \in req[d].at .. now : Upsert(d, t)
        /\ req' = [req EXCEPT ![d].phase = "unacked"]
  /\ UNCHANGED <<now, batch, hold, claimed>>

-----------------------------------------------------------------------------
(* cpemon-writer *)

Ready == {k \in DOMAIN row : row[k].status = "queued" /\ row[k].nextAt <= DbNow}

\* runOnce: ORDER BY id LIMIT BatchSize over the ready rows.  With no ready
\* row the tick of the worker loop changes nothing.
Select(w) ==
  /\ batch[w] = {}
  /\ hold[w] = None
  /\ batch' = [batch EXCEPT ![w] =
       {k \in Ready :
          Cardinality({j \in Ready : row[j].id < row[k].id}) < BatchSize}]
  /\ UNCHANGED <<now, req, row, lastId, hold, claimed, faults>>

\* k is the next event of w's loop.
NextOf(w, k) ==
  /\ hold[w] = None
  /\ k \in batch[w]
  /\ \A j \in batch[w] : row[k].id <= row[j].id

\* UPDATE ... SET status = 'processing', attempts = attempts + 1.
Locked(r) == [r EXCEPT !.status = "processing", !.attempts = @ + 1]

\* BUG: the SET list lacks the status.
ClaimKeepsStatus(k) ==
  /\ row' = [row EXCEPT ![k].attempts = @ + 1]
  /\ claimed' = claimed \cup {row[k].payload}

\* The claim of a row: a writer has it from now on.
Claim(k) ==
  /\ row' = [row EXCEPT ![k] = Locked(row[k])]
  /\ claimed' = claimed \cup {row[k].payload}

Holding(k) == [key |-> k, payload |-> row[k].payload]

\* BUG: the UPDATE lacks AND status = 'queued', so it always finds its row.
LockUnguarded(w) ==
  /\ \E k \in DOMAIN row :
       /\ NextOf(w, k)
       /\ batch' = [batch EXCEPT ![w] = @ \ {k}]
       /\ Claim(k)
       /\ hold' = [hold EXCEPT ![w] = Holding(k)]
  /\ UNCHANGED <<now, req, lastId, faults>>

\* BUG: the test of RowsAffected is the wrong way round.
LockInverted(w) ==
  /\ \E k \in DOMAIN row :
       /\ NextOf(w, k)
       /\ batch' = [batch EXCEPT ![w] = @ \ {k}]
       /\ \/ /\ row[k].status = "queued"
             /\ Claim(k)
             /\ UNCHANGED hold
          \/ /\ row[k].status # "queued"
             /\ hold' = [hold EXCEPT ![w] = Holding(k)]
             /\ UNCHANGED <<row, claimed>>
  /\ UNCHANGED <<now, req, lastId, faults>>

\* processOneEvent up to its business logic: the lock UPDATE finds the row
\* queued and claims it, or no longer queued and goes on to the next event.
Lock(w) ==
  /\ \E k \in DOMAIN row :
       /\ NextOf(w, k)
       /\ batch' = [batch EXCEPT ![w] = @ \ {k}]
       /\ \/ /\ row[k].status = "queued"
             /\ Claim(k)
             /\ hold' = [hold EXCEPT ![w] = Holding(k)]
          \/ /\ row[k].status # "queued"
             /\ UNCHANGED <<row, hold, claimed>>
  /\ UNCHANGED <<now, req, lastId, faults>>

\* The lock UPDATE returns an error, before or after it took effect; runOnce
\* logs it and goes on to the next event.
LockFails(w) ==
  /\ \E k \in DOMAIN row :
       /\ NextOf(w, k)
       /\ batch' = [batch EXCEPT ![w] = @ \ {k}]
       /\ \/ /\ Fault("lock")
             /\ UNCHANGED <<row, claimed>>
          \/ /\ Fault("lockLost")
             /\ row[k].status = "queued"
             /\ Claim(k)
  /\ UNCHANGED <<now, req, lastId, hold>>

\* BUG: the copied WHERE clause of the lock: nothing is queued any more.
SetDoneIfQueued(k) ==
  row' = IF row[k].status = "queued" THEN [row EXCEPT ![k].status = "done"]
         ELSE row

\* UPDATE ... SET status = 'done' WHERE id = ?, whatever the status is now.
SetDone(k) == row' = [row EXCEPT ![k].status = "done"]

MarkDone(w) ==
  /\ hold[w] # None
  /\ SetDone(hold[w].key)
  /\ hold' = [hold EXCEPT ![w] = None]
  /\ UNCHANGED <<now, req, lastId, batch, claimed, faults>>

\* markDone returns an error, before or after it took effect.  Nobody tries
\* again: runOnce goes on to the next event.
MarkDoneFails(w) ==
  /\ hold[w] # None
  /\ \/ Fault("done") /\ UNCHANGED row
     \/ Fault("doneLost") /\ SetDone(hold[w].key)
  /\ hold' = [hold EXCEPT ![w] = None]
  /\ UNCHANGED <<now, req, lastId, batch, claimed>>

\* The process dies in the middle of a batch and starts again.
Crash(w) ==
  /\ batch[w] # {} \/ hold[w] # None
  /\ Fault("crash")
  /\ batch' = [batch EXCEPT ![w] = {}]
  /\ hold' = [hold EXCEPT ![w] = None]
  /\ UNCHANGED <<now, req, row, lastId, claimed>>

-----------------------------------------------------------------------------
Ingest == \E d \in Deliveries : Receive(d) \/ Enqueue(d) \/ EnqueueFails(d)

Write == \E w \in Writers :
           \/ Select(w) \/ Lock(w) \/ LockFails(w)
           \/ MarkDone(w) \/ MarkDoneFails(w) \/ Crash(w)

Next == Tick \/ Ingest \/ Write

Spec == Init /\ [][Next]_vars

\* Time passes, a handler that reached its database call gets an answer, and
\* a running writer goes on with its loop.  Senders may send nothing.
Fairness ==
  /\ WF_vars(Tick)
  /\ \A d \in Deliveries : WF_vars(Enqueue(d))
  /\ \A w \in Writers : WF_vars(Select(w)) /\ WF_vars(Lock(w))
                                           /\ WF_vars(MarkDone(w))

FairSpec == Spec /\ Fairness

-----------------------------------------------------------------------------
(* Properties *)

\* An accepted delivery is never lost: the row of its event holds it or
\* another accepted delivery of the same event, whatever failed on the way.
\* handleACSWebhook answers 202 only after the upsert committed.
AcceptedIsStored ==
  \A d \in Deliveries :
    req[d].phase \in Accepted =>
      /\ req[d].key \in DOMAIN row
      /\ LET p == row[req[d].key].payload IN
           req[p].key = req[d].key /\ req[p].phase \in Accepted

\* A claim is given once.  While a delivery waits in a queued row no writer
\* has ever claimed it, so no crash, error or second writer makes the lock of
\* processOneEvent succeed twice for one delivery.
QueuedIsUnclaimed ==
  \A k \in DOMAIN row : row[k].status = "queued" => row[k].payload \notin claimed

\* Two writers never work on the same delivery, even if both selected its row
\* (the lock UPDATE of processOneEvent lets one of them through).
NoDoubleClaim ==
  \A v, w \in Writers :
    v # w /\ hold[v] # None /\ hold[w] # None => hold[v].payload # hold[w].payload

\* The attempts column counts the claims of the payload the row holds now, not
\* of an earlier delivery of the same event: the upsert starts it afresh.
AttemptsCountClaims ==
  \A k \in DOMAIN row :
    row[k].attempts = IF row[k].payload \in claimed THEN 1 ELSE 0

\* Rows that nobody works on, stuck in 'processing', come from faults alone:
\* never more than one for each lost answer, failed markDone or crash.
Orphans == {k \in DOMAIN row :
              /\ row[k].status = "processing"
              /\ \A w \in Writers : hold[w] # Holding(k)}
OrphanBound == Cardinality(Orphans) <= faults

\* While a row holds the same payload its status only moves forward, from
\* queued over processing to done; only an upsert of another delivery may take
\* it back.
Rank(status) == CASE status = "queued" -> 0 [] status = "processing" -> 1
                  [] status = "done" -> 2
StatusMovesForward ==
  [][\A k \in DOMAIN row :
       row'[k].payload = row[k].payload => Rank(row[k].status) <= Rank(row'[k].status)
    ]_row

\* The facts the safety properties rest on: rows, requests and holds name each
\* other consistently, and only accepted deliveries are ever claimed.
KeysGiven ==
  \A d \in Deliveries :
    req[d].phase \in Accepted \cup {"handling"} => req[d].key \in Keys
RowsHaveOwners ==
  \A k \in DOMAIN row : /\ req[row[k].payload].phase \in Accepted
                        /\ req[row[k].payload].key = k
ClaimsAreAccepted == \A d \in claimed : req[d].phase \in Accepted
HoldsAreClaims ==
  \A w \in Writers :
    hold[w] # None => /\ hold[w].payload \in claimed
                      /\ req[hold[w].payload].key = hold[w].key

\* The inductive invariant of the proofs.  A writer's claim is consistent with
\* the table even after a redelivery took the row from under it.
Inductive ==
  /\ TypeOK
  /\ KeysGiven
  /\ RowsHaveOwners
  /\ AcceptedIsStored
  /\ ClaimsAreAccepted
  /\ HoldsAreClaims
  /\ QueuedIsUnclaimed
  /\ NoDoubleClaim
  /\ AttemptsCountClaims

\* Rows have ids of their own, also after redeliveries that keep theirs, and a
\* writer never has more rows before it than BATCH_SIZE.
IdsAreUnique ==
  \A k \in DOMAIN row : /\ row[k].id <= lastId
                        /\ \A j \in DOMAIN row : row[j].id = row[k].id => j = k
BatchesFit == \A w \in Writers : Cardinality(batch[w]) <= BatchSize

\* runOnce selects the oldest ready rows: what it leaves out of a batch is
\* younger than all it takes, and it leaves rows out only of a full batch.
OldestFirst ==
  [][\A w \in Writers : Select(w) =>
       /\ \A k \in batch'[w], j \in Ready \ batch'[w] : row[k].id < row[j].id
       /\ batch'[w] # Ready => Cardinality(batch'[w]) = BatchSize
    ]_vars

-----------------------------------------------------------------------------
(* The abstract view: what has become of each delivery. *)

StageOf(d) ==
  LET phase == req[d].phase
      r == row[req[d].key] IN
  CASE phase \in {"new", "handling"} -> "new"
    [] phase \in Answered \ Accepted -> "refused"
    [] phase \in Accepted /\ r.payload # d -> "replaced"
    [] phase \in Accepted /\ r.payload = d ->
         CASE r.status = "queued" -> "waiting"
           [] r.status = "processing" -> "claimed"
           [] r.status = "done" -> IF d \in claimed THEN "settled" ELSE "skipped"

Stage == [d \in Deliveries |-> StageOf(d)]

Lifecycle == INSTANCE DeliveryLifecycle WITH stage <- Stage

\* The pipeline implements the life cycle of its deliveries.
ImplementsLifecycle == Lifecycle!Spec

\* As long as no writer dies, no answer of a lock UPDATE is lost after the
\* UPDATE took effect, and no markDone fails before it did, an accepted
\* delivery does not wait forever and does not stay claimed forever: each of
\* the three would leave its row in 'processing' for good.  Refused locks and
\* statements of the ingest that fail may happen.
EventuallyDone ==
  \A d \in Deliveries :
    Stage[d] \in {"waiting", "claimed"} ~>
      Stage[d] \in {"settled", "skipped", "replaced"}

-----------------------------------------------------------------------------
(* What the repository says and the code does not do. *)

\* ADR/no-kafka-in-mvp.md:31: the writer polls and processes rows, then updates
\* their status.  A payload that is marked done would have been claimed.
DoneWasClaimed ==
  \A k \in DOMAIN row : row[k].status = "done" => row[k].payload \in claimed
=============================================================================
