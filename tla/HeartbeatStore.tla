--------------------------- MODULE HeartbeatStore ---------------------------
(***************************************************************************)
(* The heartbeat path: the replicas of cpemon-api receive heartbeats, set  *)
(* their in-memory metrics, upsert the snapshot table cpe_status and       *)
(* append to cpe_status_history; the admin page reads both tables.         *)
(*                                                                         *)
(* The two writes of a heartbeat are two autocommitted statements, and so  *)
(* are the two reads of the page; anything may happen in between.          *)
(***************************************************************************)
EXTENDS Integers, FiniteSets

CONSTANTS
  Beats,      \* POSTs to /cpe/heartbeat; a beat also stands for its content
  SNs,        \* serial numbers, up to the collation of the sn columns
  Pods,       \* replicas of cpemon-api
  Contents,   \* what beats carry: which optional fields, and whether all
              \* values fit their columns
  PageLimit,  \* history rows on the admin page (20)
  MaxTime,    \* bound: the clock stops here (ticks: units of DATETIME(3))
  Faults,     \* the kinds of fault that may happen
  MaxFaults,  \* bound: how many faults may happen
  None

\* Which optional fields a beat has: all, cpu and mem only, or none.
Givens == {"all", "metrics", "none"}

FaultKinds == {"status", "statusLost", "history", "historyLost", "restart"}

ASSUME HeartbeatAssumption ==
  /\ PageLimit \in Nat \ {0}
  /\ MaxTime \in Nat
  /\ Contents \subseteq [given : Givens, fits : BOOLEAN]
  /\ MaxFaults \in Nat
  /\ Faults \subseteq FaultKinds
  /\ None \notin Beats \cup SNs \cup Pods

VARIABLES
  now,      \* the clock
  beat,     \* per beat: how far its handler got and what the beat says
  status,   \* the table cpe_status: per SN the beat its row was written from
  history,  \* the table cpe_status_history, a function on the keys it holds
  gauge,    \* per pod and SN: the beat the cpu and mem gauges were set from
  counter,  \* per pod and SN: cpemon_cpe_heartbeat_total
  page,     \* an admin page and the searches that produce it
  before,   \* history: per beat, the beats answered before it was received
  faults,   \* history: the number of faults so far
  forgotten \* history: the answered beats whose replica was started again since

vars == <<now, beat, status, history, gauge, counter, page, before, faults,
          forgotten>>

-----------------------------------------------------------------------------
(* Data *)

\* PRIMARY KEY (sn, event_ts); event_ts is the handler's clock.
Keys == SNs \X Nat

\* "stamped": parsed, clock read; "metered": metrics set; "upserted": the
\* snapshot is written; "lost": the pod died before it answered.
InFlight == {"stamped", "metered", "upserted"}
Answered == {"202", "400", "500"}
Phases   == {"new", "lost"} \cup InFlight \cup Answered

BeatRecords ==
  [phase : Phases, sn : SNs \cup {None}, pod : Pods \cup {None},
   given : Givens, fits : BOOLEAN, at : Nat]

\* Writing b leaves NULLs in the row.
HasNulls(b) == beat[b].given # "all"

PagePhases == {"idle", "current", "shown", "500"}
EmptyPage == [phase |-> "idle", sn |-> None, current |-> None, rows |-> {},
              settled |-> {}]

TypeOK ==
  /\ now \in Nat
  /\ beat \in [Beats -> BeatRecords]
  /\ status \in [SNs -> Beats \cup {None}]
  /\ DOMAIN history \subseteq Keys
  /\ history \in [DOMAIN history -> Beats]
  /\ gauge \in [Pods -> [SNs -> Beats \cup {None}]]
  /\ counter \in [Pods -> [SNs -> Nat]]
  /\ page \in [phase : PagePhases, sn : SNs \cup {None},
               current : Beats \cup {None}, rows : SUBSET Beats,
               settled : SUBSET Beats]
  /\ before \in [Beats -> SUBSET Beats]
  /\ faults \in Nat
  /\ forgotten \subseteq Beats

Init ==
  /\ now = 0
  /\ beat = [b \in Beats |-> [phase |-> "new", sn |-> None, pod |-> None,
                              given |-> "none", fits |-> TRUE, at |-> 0]]
  /\ status = [s \in SNs |-> None]
  /\ history = [k \in {} |-> None]
  /\ gauge = [p \in Pods |-> [s \in SNs |-> None]]
  /\ counter = [p \in Pods |-> [s \in SNs |-> 0]]
  /\ page = EmptyPage
  /\ before = [b \in Beats |-> {}]
  /\ faults = 0
  /\ forgotten = {}

Fault(kind) ==
  /\ kind \in Faults
  /\ faults < MaxFaults
  /\ faults' = faults + 1

Tick ==
  /\ now < MaxTime
  /\ now' = now + 1
  /\ UNCHANGED <<beat, status, history, gauge, counter, page, before, faults,
                 forgotten>>

-----------------------------------------------------------------------------
(* handleHeartbeat *)

Advance(b, phase) == beat' = [beat EXCEPT ![b].phase = phase]

\* Beats of the same SN that have got their answer.
AnsweredOf(s) == {c \in Beats : beat[c].sn = s /\ beat[c].phase \in Answered}

\* A replica gets the request: a body that is not JSON or has no sn is
\* refused, any other is stamped with the clock.
Receive(b) ==
  /\ beat[b].phase = "new"
  /\ \/ /\ Advance(b, "400")
        /\ UNCHANGED before
     \/ \E s \in SNs, p \in Pods, c \in Contents :
          /\ beat' = [beat EXCEPT ![b] =
                        [phase |-> "stamped", sn |-> s, pod |-> p,
                         given |-> c.given, fits |-> c.fits, at |-> now]]
          /\ before' = [before EXCEPT ![b] = AnsweredOf(s)]
  /\ UNCHANGED <<now, status, history, gauge, counter, page, faults, forgotten>>

\* BUG: the counter is bumped only along with a gauge.
ObserveWithGauge(b) ==
  LET p == beat[b].pod
      s == beat[b].sn IN
  /\ beat[b].phase = "stamped"
  /\ Advance(b, "metered")
  /\ IF beat[b].given = "none" THEN UNCHANGED <<gauge, counter>>
     ELSE /\ gauge' = [gauge EXCEPT ![p][s] = b]
          /\ counter' = [counter EXCEPT ![p][s] = @ + 1]
  /\ UNCHANGED <<now, status, history, page, before, faults, forgotten>>

\* BUG: a gauge that is set is not set again.
ObserveOnce(b) ==
  LET p == beat[b].pod
      s == beat[b].sn IN
  /\ beat[b].phase = "stamped"
  /\ Advance(b, "metered")
  /\ gauge' = IF beat[b].given = "none" \/ gauge[p][s] # None THEN gauge
              ELSE [gauge EXCEPT ![p][s] = b]
  /\ counter' = [counter EXCEPT ![p][s] = @ + 1]
  /\ UNCHANGED <<now, status, history, page, before, faults, forgotten>>

\* The metrics of the pod: gauges if the beat has the values, the counter
\* in any case, and before the database is asked.
Observe(b) ==
  LET p == beat[b].pod
      s == beat[b].sn IN
  /\ beat[b].phase = "stamped"
  /\ Advance(b, "metered")
  /\ gauge' = IF beat[b].given = "none" THEN gauge
              ELSE [gauge EXCEPT ![p][s] = b]
  /\ counter' = [counter EXCEPT ![p][s] = @ + 1]
  /\ UNCHANGED <<now, status, history, page, before, faults, forgotten>>

\* BUG: INSERT IGNORE: the row that is there stays.
WriteStatusOnce(b) ==
  status' = [status EXCEPT ![beat[b].sn] = IF @ = None THEN b ELSE @]

\* INSERT ... ON DUPLICATE KEY UPDATE every column: the last writer wins.
WriteStatus(b) == status' = [status EXCEPT ![beat[b].sn] = b]

\* Values that do not fit their columns are an error of the statement.
UpsertStatus(b) ==
  /\ beat[b].phase = "metered"
  /\ \/ beat[b].fits /\ WriteStatus(b) /\ Advance(b, "upserted")
     \/ ~beat[b].fits /\ UNCHANGED status /\ Advance(b, "500")
  /\ UNCHANGED <<now, history, gauge, counter, page, before, faults, forgotten>>

\* BUG: the handler goes on to the history after an error.
UpsertFailsAndGoesOn(b) ==
  /\ beat[b].phase = "metered"
  /\ \/ Fault("status") /\ UNCHANGED status
     \/ Fault("statusLost") /\ beat[b].fits /\ WriteStatus(b)
  /\ Advance(b, "upserted")
  /\ UNCHANGED <<now, history, gauge, counter, page, before, forgotten>>

\* The statement fails, before or after it took effect; the handler answers
\* 500 and writes no history.
UpsertFails(b) ==
  /\ beat[b].phase = "metered"
  /\ \/ Fault("status") /\ UNCHANGED status
     \/ Fault("statusLost") /\ beat[b].fits /\ WriteStatus(b)
  /\ Advance(b, "500")
  /\ UNCHANGED <<now, history, gauge, counter, page, before, forgotten>>

HistoryKey(b) == <<beat[b].sn, beat[b].at>>

Append(b) ==
  history' = [k \in DOMAIN history \cup {HistoryKey(b)} |->
                IF k = HistoryKey(b) THEN b ELSE history[k]]

\* BUG: REPLACE INTO: a second beat of the same millisecond takes the row.
InsertHistoryReplacing(b) ==
  /\ beat[b].phase = "upserted"
  /\ Append(b)
  /\ Advance(b, "202")
  /\ UNCHANGED <<now, status, gauge, counter, page, before, faults, forgotten>>

\* BUG: the history is written without waiting for the snapshot.
InsertHistoryEarly(b) ==
  /\ beat[b].phase \in {"metered", "upserted"}
  /\ HistoryKey(b) \notin DOMAIN history
  /\ Append(b)
  /\ Advance(b, "202")
  /\ UNCHANGED <<now, status, gauge, counter, page, before, faults, forgotten>>

\* A plain INSERT: a second beat of the same SN in the same millisecond
\* violates the primary key; its handler answers 500 and leaves the snapshot
\* as it wrote it.
InsertHistory(b) ==
  /\ beat[b].phase = "upserted"
  /\ \/ HistoryKey(b) \notin DOMAIN history /\ Append(b) /\ Advance(b, "202")
     \/ HistoryKey(b) \in DOMAIN history /\ UNCHANGED history /\ Advance(b, "500")
  /\ UNCHANGED <<now, status, gauge, counter, page, before, faults, forgotten>>

InsertFails(b) ==
  /\ beat[b].phase = "upserted"
  /\ \/ Fault("history") /\ UNCHANGED history
     \/ Fault("historyLost") /\ HistoryKey(b) \notin DOMAIN history /\ Append(b)
  /\ Advance(b, "500")
  /\ UNCHANGED <<now, status, gauge, counter, page, before, forgotten>>

\* What p has counted and answered since it was started.
AnsweredBy(p) ==
  {b \in Beats : beat[b].pod = p /\ beat[b].phase \in {"202", "500"}}

\* BUG: the gauges come back as zeros instead of being absent.
RestartWithZeroes(p) ==
  /\ Fault("restart")
  /\ forgotten' = forgotten \cup AnsweredBy(p)
  /\ beat' = [b \in Beats |->
                IF beat[b].pod = p /\ beat[b].phase \in InFlight
                THEN [beat[b] EXCEPT !.phase = "lost"] ELSE beat[b]]
  /\ gauge' = [gauge EXCEPT ![p] = [s \in SNs |-> 0]]
  /\ counter' = [counter EXCEPT ![p] = [s \in SNs |-> 0]]
  /\ UNCHANGED <<now, status, history, page, before>>

\* A replica dies and starts again: its requests are cut off, its metrics
\* start from nothing.
Restart(p) ==
  /\ Fault("restart")
  /\ forgotten' = forgotten \cup AnsweredBy(p)
  /\ beat' = [b \in Beats |->
                IF beat[b].pod = p /\ beat[b].phase \in InFlight
                THEN [beat[b] EXCEPT !.phase = "lost"] ELSE beat[b]]
  /\ gauge' = [gauge EXCEPT ![p] = [s \in SNs |-> None]]
  /\ counter' = [counter EXCEPT ![p] = [s \in SNs |-> 0]]
  /\ UNCHANGED <<now, status, history, page, before>>

-----------------------------------------------------------------------------
(* handleAdmin *)

\* The first query.  A row with NULLs cannot be scanned into the page's
\* strings and integers; no row is "SN not found" and the handler goes on.
ReadCurrent(s) ==
  LET settled == {b \in Beats : beat[b].sn = s /\ beat[b].phase = "202"} IN
  /\ page.phase # "current"
  /\ page' = IF status[s] # None /\ HasNulls(status[s])
             THEN [EmptyPage EXCEPT !.phase = "500", !.sn = s]
             ELSE [EmptyPage EXCEPT !.phase = "current", !.sn = s,
                                    !.current = status[s], !.settled = settled]
  /\ UNCHANGED <<now, beat, status, history, gauge, counter, before, faults,
                 forgotten>>

RowsOf(s) == {k \in DOMAIN history : k[1] = s}

\* BUG: ORDER BY event_ts without DESC.
OldestRows(s) ==
  {k \in RowsOf(s) :
     Cardinality({j \in RowsOf(s) : j[2] < k[2]}) < PageLimit}

\* ORDER BY event_ts DESC LIMIT PageLimit.
NewestRows(s) ==
  {k \in RowsOf(s) :
     Cardinality({j \in RowsOf(s) : j[2] > k[2]}) < PageLimit}

\* The second query, with the same trouble with NULLs.
ReadHistory ==
  LET shown == {history[k] : k \in NewestRows(page.sn)} IN
  /\ page.phase = "current"
  /\ page' = IF \E b \in shown : HasNulls(b)
             THEN [EmptyPage EXCEPT !.phase = "500", !.sn = page.sn]
             ELSE [page EXCEPT !.phase = "shown", !.rows = shown]
  /\ UNCHANGED <<now, beat, status, history, gauge, counter, before, faults,
                 forgotten>>

-----------------------------------------------------------------------------
Handle == \E b \in Beats :
            \/ Receive(b) \/ Observe(b) \/ UpsertStatus(b) \/ UpsertFails(b)
            \/ InsertHistory(b) \/ InsertFails(b)

Show == ReadHistory \/ \E s \in SNs : ReadCurrent(s)

Next == Tick \/ Handle \/ Show \/ \E p \in Pods : Restart(p)

Spec == Init /\ [][Next]_vars

-----------------------------------------------------------------------------
(* Properties *)

\* The snapshot respects the order senders can observe: a beat that was
\* answered before another was received never stands in its place, whatever
\* replicas they met and whatever failed.  (A sender that waits for answers
\* sees its last acknowledged heartbeat, or something newer.)
RealTimeOrder ==
  \A b \in Beats :
    beat[b].phase \in {"upserted", "202"} => status[beat[b].sn] \notin before[b]

\* The gauges of a replica respect the same order, although handlers set them
\* before they know whether the database takes the beat.
GaugeRealTimeOrder ==
  \A b \in Beats :
    /\ beat[b].phase \in {"metered", "upserted", "202", "500"}
    /\ beat[b].given # "none"
    => gauge[beat[b].pod][beat[b].sn] \notin before[b]

\* An acknowledged heartbeat has a history row of its own, for ever: another
\* one in the same millisecond cannot take it over.
AcknowledgedIsRecorded ==
  \A b \in Beats :
    beat[b].phase = "202" =>
      HistoryKey(b) \in DOMAIN history /\ history[HistoryKey(b)] = b

\* A CPE with a history has a current status: handleHeartbeat writes the
\* snapshot first and nothing removes it.
HistoryHasStatus == \A k \in DOMAIN history : status[k[1]] # None

\* The counters of a replica count the heartbeats it accepted for processing
\* since it was last started, with or without cpu and mem, whether or not the
\* database took them (Help text of cpemon_cpe_heartbeat_total): what it had
\* counted before is gone from the counters and stays in the tables, and no
\* restart of another replica changes them.
Counted(p, s) ==
  {b \in Beats \ forgotten :
     /\ beat[b].pod = p /\ beat[b].sn = s
     /\ beat[b].phase \in {"metered", "upserted", "202", "500"}}

CounterMatchesRequests ==
  \A p \in Pods, s \in SNs : counter[p][s] = Cardinality(Counted(p, s))

\* Snapshot and history implement the register and the record of
\* HeartbeatRegister, whatever replicas, statements and pages do in between.
StageOf(b) ==
  LET phase == beat[b].phase IN
  CASE phase = "new" -> "new"
    [] phase \in {"stamped", "metered"} -> "open"
    [] phase = "upserted" -> "written"
    [] phase = "202" -> "acknowledged"
    [] phase \in {"400", "500", "lost"} -> "failed"

Stage    == [b \in Beats |-> StageOf(b)]
Cpe      == [b \in Beats |-> beat[b].sn]
Recorded == {history[k] : k \in DOMAIN history}

Register == INSTANCE HeartbeatRegister
              WITH stage <- Stage, cpe <- Cpe, current <- status,
                   recorded <- Recorded

ImplementsRegister == Register!Spec

\* A page without error shows a status if any heartbeat of the CPE had been
\* acknowledged when the page was asked for, and each such heartbeat is among
\* the rows unless the page is full of later ones, although the two queries
\* see different states of the tables.
PageShowsAcknowledged ==
  page.phase = "shown" =>
    \A b \in page.settled :
      /\ page.current # None
      /\ \/ b \in page.rows
         \/ /\ Cardinality(page.rows) = PageLimit
            /\ \A c \in page.rows : beat[c].at > beat[b].at

\* Beats that were received have an SN and a replica, and a beat is before
\* another one only with its answer.
ReceivedHavePlace ==
  \A b \in Beats : beat[b].phase \in InFlight \cup {"202", "500", "lost"} =>
                    beat[b].sn \in SNs /\ beat[b].pod \in Pods
UpsertedHasStatus ==
  \A b \in Beats :
    beat[b].phase \in {"upserted", "202"} => status[beat[b].sn] # None
BeforeIsAnswered ==
  \A b \in Beats : \A c \in before[b] : beat[c].phase \in Answered

\* The inductive invariant of the proofs.
Inductive ==
  /\ TypeOK
  /\ ReceivedHavePlace
  /\ UpsertedHasStatus
  /\ BeforeIsAnswered
  /\ RealTimeOrder
  /\ GaugeRealTimeOrder
  /\ AcknowledgedIsRecorded
  /\ HistoryHasStatus

-----------------------------------------------------------------------------
(* What the repository says and the code does not do. *)

\* docs/demo-admin-ha-security.md:83: the current status is the last heartbeat
\* of the SN; no row of its history would be newer.
StatusIsLatest ==
  \A k \in DOMAIN history : beat[status[k[1]]].at >= k[2]

\* app/cpemon-api/admin/README.md:26: a search for a known SN renders its
\* status and history; with a healthy database it would not be an error.
KnownCpeIsShown == page.phase # "500"
=============================================================================
