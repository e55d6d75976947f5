------------------------- MODULE IngestQueueProofs -------------------------
(***************************************************************************)
(* Proofs about IngestQueue, for every number of deliveries, writers and   *)
(* faults, every batch size and every clock.                               *)
(***************************************************************************)
EXTENDS IngestQueue, RankTheorems, FiniteSetTheorems, TLAPS

\* Rounding a clock reading to the precision of a column gives an integer.
LEMMA RoundedIsInt ==
  ASSUME NEW t \in Int
  PROVE  /\ Rounded(t, TicksPerMs) \in Int
         /\ Rounded(t, TicksPerSecond) \in Int
BY ConstantsAssumption DEF Rounded

\* The start of the system satisfies the inductive invariant.
LEMMA InitInductive == Init => Inductive
<1> SUFFICES ASSUME Init PROVE Inductive
  OBVIOUS
<1>1. DOMAIN row = {}
  BY DEF Init
<1>2. TypeOK
  BY <1>1 DEF Init, TypeOK, Phases
<1>3. KeysGiven /\ AcceptedIsStored
  BY DEF Init, KeysGiven, AcceptedIsStored, Accepted
<1>4. RowsHaveOwners /\ QueuedIsUnclaimed /\ AttemptsCountClaims
  BY <1>1 DEF RowsHaveOwners, QueuedIsUnclaimed, AttemptsCountClaims
<1>5. ClaimsAreAccepted /\ HoldsAreClaims /\ NoDoubleClaim
  BY DEF Init, ClaimsAreAccepted, HoldsAreClaims, NoDoubleClaim
<1> QED
  BY <1>2, <1>3, <1>4, <1>5 DEF Inductive

\* The upsert of a delivery whose handler has not finished, whether or not the
\* sender is told of it.
LEMMA UpsertInductive ==
  ASSUME Inductive,
         NEW d \in Deliveries, req[d].phase = "handling",
         NEW t \in Int, Upsert(d, t),
         NEW p \in Accepted, req' = [req EXCEPT ![d].phase = p],
         now' \in Nat, faults' \in Nat,
         UNCHANGED <<batch, hold, claimed>>
  PROVE  Inductive'
<1> DEFINE key == req[d].key
<1>1. key \in Keys
  BY DEF Inductive, KeysGiven
<1>2. /\ DOMAIN row' = DOMAIN row \cup {key}
      /\ \A k \in DOMAIN row : k # key => row'[k] = row[k]
      /\ row'[key].payload = d
      /\ row'[key].status = "queued"
      /\ row'[key].attempts = 0
  BY DEF Upsert
<1>3. row'[key] \in Rows
  <2>1. \A k \in DOMAIN row : row[k].id \in Nat
    BY DEF Inductive, TypeOK, Rows
  <2>2. lastId + 1 \in Nat
    BY DEF Inductive, TypeOK
  <2>3. Rounded(t, TicksPerSecond) \in Int
    BY RoundedIsInt
  <2> QED
    BY <2>1, <2>2, <2>3 DEF Upsert, Rows
<1>4. /\ req' \in [Deliveries -> [phase : Phases, key : Keys \cup {None}, at : Nat]]
      /\ req'[d].phase \in Accepted
      /\ \A e \in Deliveries : req'[e].key = req[e].key
      /\ \A e \in Deliveries : e # d => req'[e].phase = req[e].phase
  BY DEF Inductive, TypeOK, Phases, Answered, Accepted
<1>5. /\ d \notin claimed
      /\ \A k \in DOMAIN row : row[k].payload # d
      /\ \A w \in Writers : hold[w] # None => hold[w].payload # d
  BY DEF Inductive, ClaimsAreAccepted, RowsHaveOwners, HoldsAreClaims, Accepted
<1>6. TypeOK'
  <2>1. row' \in [DOMAIN row' -> Rows]
    BY <1>2, <1>3 DEF Inductive, TypeOK, Upsert
  <2>2. lastId' \in Nat
    BY DEF Inductive, TypeOK, Upsert
  <2>3. batch' \in [Writers -> SUBSET DOMAIN row']
    BY <1>2 DEF Inductive, TypeOK
  <2>4. hold' \in [Writers -> [key : DOMAIN row', payload : Deliveries]
                                \cup {None}]
    BY <1>2 DEF Inductive, TypeOK
  <2> QED
    BY <1>1, <1>2, <1>4, <2>1, <2>2, <2>3, <2>4 DEF Inductive, TypeOK
<1>7. KeysGiven'
  BY <1>1, <1>4 DEF Inductive, KeysGiven
<1>8. RowsHaveOwners'
  BY <1>2, <1>4 DEF Inductive, TypeOK, Rows, RowsHaveOwners
<1>9. AcceptedIsStored'
  BY <1>2, <1>4, <1>8 DEF Inductive, AcceptedIsStored, RowsHaveOwners
<1>10. ClaimsAreAccepted' /\ HoldsAreClaims'
  BY <1>4, <1>5 DEF Inductive, TypeOK, ClaimsAreAccepted, HoldsAreClaims
<1>11. QueuedIsUnclaimed' /\ AttemptsCountClaims'
  BY <1>2, <1>5 DEF Inductive, QueuedIsUnclaimed, AttemptsCountClaims
<1>12. NoDoubleClaim'
  BY DEF Inductive, NoDoubleClaim
<1> QED
  BY <1>6, <1>7, <1>8, <1>9, <1>10, <1>11, <1>12 DEF Inductive

\* What the lock UPDATE makes of a row.
LEMMA LockedRow ==
  ASSUME NEW r \in Rows
  PROVE  /\ Locked(r) \in Rows
         /\ Locked(r).status = "processing"
         /\ Locked(r).attempts = r.attempts + 1
         /\ Locked(r).payload = r.payload
<1>1. r.attempts + 1 \in Nat
  BY DEF Rows
<1> QED
  BY <1>1, Zenon DEF Rows, Locked

\* The successful lock UPDATE on a queued row, whether or not the writer is
\* told of it: the writer goes on with the row, or forgets it.
LEMMA ClaimInductive ==
  ASSUME Inductive,
         NEW k \in DOMAIN row, row[k].status = "queued", Claim(k),
         NEW w \in Writers,
         \/ UNCHANGED hold
         \/ hold' = [hold EXCEPT ![w] = Holding(k)],
         batch' \in [Writers -> SUBSET DOMAIN row],
         faults' \in Nat,
         UNCHANGED <<now, req, lastId>>
  PROVE  Inductive'
<1> DEFINE p == row[k].payload
<1>1. /\ row \in [DOMAIN row -> Rows]
      /\ k \in Keys
      /\ p \in Deliveries
      /\ req[p].phase \in Accepted
      /\ req[p].key = k
      /\ p \notin claimed
      /\ row[k].attempts = 0
  BY DEF Inductive, TypeOK, Rows, RowsHaveOwners, QueuedIsUnclaimed,
         AttemptsCountClaims
<1>2. /\ row' \in [DOMAIN row -> Rows]
      /\ DOMAIN row' = DOMAIN row
      /\ \A j \in DOMAIN row : j # k => row'[j] = row[j]
      /\ row'[k].payload = p
      /\ row'[k].status = "processing"
      /\ row'[k].attempts = 1
  <2>1. row' = [row EXCEPT ![k] = Locked(row[k])]
    BY DEF Claim
  <2>2. /\ Locked(row[k]) \in Rows
        /\ Locked(row[k]).payload = p
        /\ Locked(row[k]).status = "processing"
        /\ Locked(row[k]).attempts = 1
    BY <1>1, LockedRow
  <2> QED
    BY <1>1, <2>1, <2>2
<1>3. claimed' = claimed \cup {p}
  BY DEF Claim
<1>4. \A v \in Writers : hold[v] # None => hold[v].payload # p
  BY <1>1 DEF Inductive, HoldsAreClaims
<1>5. /\ hold' \in [Writers -> [key : DOMAIN row, payload : Deliveries] \cup {None}]
      /\ \A v \in Writers : v # w => hold'[v] = hold[v]
      /\ hold'[w] = hold[w] \/ hold'[w] = [key |-> k, payload |-> p]
  BY <1>1 DEF Inductive, TypeOK, Holding
<1>6. TypeOK'
  BY <1>1, <1>2, <1>3, <1>5 DEF Inductive, TypeOK
<1>7. KeysGiven' /\ RowsHaveOwners' /\ AcceptedIsStored'
  <2>1. \A j \in DOMAIN row : row'[j].payload = row[j].payload
    BY <1>2
  <2> QED
    BY <1>2, <2>1 DEF Inductive, KeysGiven, RowsHaveOwners, AcceptedIsStored
<1>8. ClaimsAreAccepted'
  BY <1>1, <1>3 DEF Inductive, ClaimsAreAccepted
<1>9. HoldsAreClaims'
  BY <1>1, <1>3, <1>5 DEF Inductive, HoldsAreClaims
<1>10. QueuedIsUnclaimed' /\ AttemptsCountClaims'
  <2>1. \A j \in DOMAIN row : j # k => row[j].payload # p
    BY <1>1 DEF Inductive, RowsHaveOwners
  <2> QED
    BY <1>2, <1>3, <2>1 DEF Inductive, QueuedIsUnclaimed, AttemptsCountClaims
<1>11. NoDoubleClaim'
  BY <1>4, <1>5 DEF Inductive, NoDoubleClaim
<1> QED
  BY <1>6, <1>7, <1>8, <1>9, <1>10, <1>11 DEF Inductive

\* The end of processOneEvent: the row is marked done, or an error left it as
\* it was, and the writer lets go of it.
LEMMA ReleaseInductive ==
  ASSUME Inductive,
         NEW w \in Writers,
         \/ UNCHANGED row
         \/ hold[w] # None /\ SetDone(hold[w].key),
         hold' = [hold EXCEPT ![w] = None],
         batch' \in [Writers -> SUBSET DOMAIN row],
         faults' \in Nat,
         UNCHANGED <<now, req, lastId, claimed>>
  PROVE  Inductive'
<1>1. row \in [DOMAIN row -> Rows]
  BY DEF Inductive, TypeOK
<1>2. /\ row' \in [DOMAIN row -> Rows]
      /\ DOMAIN row' = DOMAIN row
      /\ \A k \in DOMAIN row : /\ row'[k].payload = row[k].payload
                               /\ row'[k].attempts = row[k].attempts
                               /\ row'[k].status \in {row[k].status, "done"}
  <2>1. CASE UNCHANGED row
    BY <1>1, <2>1
  <2>2. CASE hold[w] # None /\ SetDone(hold[w].key)
    <3>1. hold[w].key \in DOMAIN row
      BY <2>2 DEF Inductive, TypeOK
    <3> QED
      BY <1>1, <2>2, <3>1 DEF SetDone, Rows
  <2> QED
    BY <2>1, <2>2
<1>3. /\ hold' \in [Writers -> [key : DOMAIN row, payload : Deliveries] \cup {None}]
      /\ hold'[w] = None
      /\ \A v \in Writers : v # w => hold'[v] = hold[v]
  BY DEF Inductive, TypeOK
<1>4. TypeOK'
  BY <1>1, <1>2, <1>3 DEF Inductive, TypeOK
<1>5. KeysGiven' /\ RowsHaveOwners' /\ AcceptedIsStored' /\ ClaimsAreAccepted'
  BY <1>2 DEF Inductive, KeysGiven, RowsHaveOwners, AcceptedIsStored,
              ClaimsAreAccepted
<1>6. HoldsAreClaims' /\ NoDoubleClaim'
  BY <1>3 DEF Inductive, HoldsAreClaims, NoDoubleClaim
<1>7. QueuedIsUnclaimed' /\ AttemptsCountClaims'
  BY <1>2 DEF Inductive, QueuedIsUnclaimed, AttemptsCountClaims
<1> QED
  BY <1>4, <1>5, <1>6, <1>7 DEF Inductive

\* A step that touches neither the table nor the claims.
LEMMA QuietInductive ==
  ASSUME Inductive,
         batch' \in [Writers -> SUBSET DOMAIN row],
         now' \in Nat, faults' \in Nat,
         UNCHANGED <<req, row, lastId, hold, claimed>>
  PROVE  Inductive'
BY DEF Inductive, TypeOK, KeysGiven, RowsHaveOwners, AcceptedIsStored,
       ClaimsAreAccepted, HoldsAreClaims, QueuedIsUnclaimed, NoDoubleClaim,
       AttemptsCountClaims

\* A step in which only the request of d changes, and d is not accepted by it.
LEMMA RequestInductive ==
  ASSUME Inductive,
         NEW d \in Deliveries, req[d].phase \notin Accepted,
         NEW r \in [phase : Phases \ Accepted, key : Keys \cup {None}, at : Nat],
         r.phase = "handling" => r.key \in Keys,
         req' = [req EXCEPT ![d] = r],
         faults' \in Nat,
         UNCHANGED <<now, row, lastId, batch, hold, claimed>>
  PROVE  Inductive'
<1>1. /\ req' \in [Deliveries -> [phase : Phases, key : Keys \cup {None}, at : Nat]]
      /\ req'[d] = r
      /\ \A e \in Deliveries : e # d => req'[e] = req[e]
  BY DEF Inductive, TypeOK
<1>2. /\ d \notin claimed
      /\ \A k \in DOMAIN row : row[k].payload # d /\ row[k].payload \in Deliveries
      /\ \A w \in Writers : hold[w] # None => hold[w].payload # d
  BY DEF Inductive, TypeOK, Rows, ClaimsAreAccepted, RowsHaveOwners, HoldsAreClaims
<1>3. TypeOK' /\ KeysGiven'
  BY <1>1 DEF Inductive, TypeOK, KeysGiven
<1>4. RowsHaveOwners' /\ AcceptedIsStored'
  BY <1>1, <1>2 DEF Inductive, RowsHaveOwners, AcceptedIsStored
<1>5. ClaimsAreAccepted' /\ HoldsAreClaims'
  BY <1>1, <1>2 DEF Inductive, TypeOK, ClaimsAreAccepted, HoldsAreClaims
<1>6. QueuedIsUnclaimed' /\ NoDoubleClaim' /\ AttemptsCountClaims'
  BY DEF Inductive, QueuedIsUnclaimed, NoDoubleClaim, AttemptsCountClaims
<1> QED
  BY <1>3, <1>4, <1>5, <1>6 DEF Inductive

\* Every step of the system keeps the inductive invariant.
LEMMA NextInductive == Inductive /\ [Next]_vars => Inductive'
<1> SUFFICES ASSUME Inductive, [Next]_vars
             PROVE  Inductive'
  OBVIOUS
<1> USE DEF Ingest, Write
<1>1. /\ now \in Nat /\ faults \in Nat
      /\ batch \in [Writers -> SUBSET DOMAIN row]
      /\ \A d \in Deliveries : req[d].at \in Nat /\ req[d].phase \in Phases
  BY DEF Inductive, TypeOK
<1>2. ASSUME NEW kind, Fault(kind)
      PROVE  faults' \in Nat
  BY <1>1, <1>2 DEF Fault
<1>3. ASSUME NEW w \in Writers, NEW B \in SUBSET DOMAIN row,
             batch' = [batch EXCEPT ![w] = B]
      PROVE  batch' \in [Writers -> SUBSET DOMAIN row]
  BY <1>1, <1>3
<1>4. CASE Tick
  BY <1>1, <1>4, QuietInductive DEF Tick
<1>5. ASSUME NEW d \in Deliveries, Receive(d)
      PROVE  Inductive'
  <2>1. PICK p \in Posts :
          req' = [req EXCEPT ![d] =
                    [phase |-> Verdict(p),
                     key   |-> IF Verdict(p) = "handling" THEN KeyOf(p) ELSE None,
                     at    |-> now]]
    BY <1>5 DEF Receive
  <2> DEFINE r == [phase |-> Verdict(p),
                   key   |-> IF Verdict(p) = "handling" THEN KeyOf(p) ELSE None,
                   at    |-> now]
  <2>2. Verdict(p) \in Phases \ Accepted
    BY DEF Verdict, Phases, Answered, Accepted
  <2>3. ASSUME Verdict(p) = "handling"
        PROVE  KeyOf(p) \in Keys
    <3>1. p.sn \in SNs
      BY <2>3 DEF Verdict, Posts
    <3>2. p.ts # None => p.ts \in Int
      BY ConstantsAssumption DEF Posts
    <3> QED
      BY <1>1, <3>1, <3>2, RoundedIsInt DEF KeyOf, Keys
  <2>4. /\ r \in [phase : Phases \ Accepted, key : Keys \cup {None}, at : Nat]
        /\ r.phase = "handling" => r.key \in Keys
    BY <1>1, <2>2, <2>3
  <2>5. req[d].phase \notin Accepted
    BY <1>5 DEF Receive, Accepted
  <2>6. faults' \in Nat /\ UNCHANGED <<now, row, lastId, batch, hold, claimed>>
    BY <1>1, <1>5 DEF Receive
  <2> HIDE DEF r
  <2> QED
    BY <2>1, <2>4, <2>5, <2>6, RequestInductive DEF r
<1>6. ASSUME NEW d \in Deliveries, Enqueue(d)
      PROVE  Inductive'
  <2>1. PICK t \in req[d].at .. now : Upsert(d, t)
    BY <1>6 DEF Enqueue
  <2>2. t \in Int /\ "202" \in Accepted
    BY <1>1 DEF Accepted
  <2> QED
    BY <1>1, <1>6, <2>1, <2>2, UpsertInductive DEF Enqueue
<1>7. ASSUME NEW d \in Deliveries, EnqueueFails(d)
      PROVE  Inductive'
  <2>1. CASE UNCHANGED <<row, lastId>> /\ req' = [req EXCEPT ![d].phase = "500"]
    <3> DEFINE r == [req[d] EXCEPT !.phase = "500"]
    <3>1. req[d] \in [phase : Phases, key : Keys \cup {None}, at : Nat]
      BY DEF Inductive, TypeOK
    <3>2. "500" \in Phases \ Accepted
      BY DEF Phases, Answered, Accepted
    <3>3. /\ r \in [phase : Phases \ Accepted, key : Keys \cup {None}, at : Nat]
          /\ r.phase = "500"
      BY <3>1, <3>2, Zenon
    <3>4. req' = [req EXCEPT ![d] = r]
      BY <2>1, Zenon
    <3>5. req[d].phase \notin Accepted
      BY <1>7 DEF EnqueueFails, Accepted
    <3>6. faults' \in Nat /\ UNCHANGED <<now, batch, hold, claimed>>
      BY <1>2, <1>7 DEF EnqueueFails
    <3> HIDE DEF r
    <3> QED
      BY <2>1, <3>3, <3>4, <3>5, <3>6, RequestInductive
  <2>2. CASE /\ \E t \in req[d].at .. now : Upsert(d, t)
             /\ req' = [req EXCEPT ![d].phase = "unacked"]
    <3>1. PICK t \in req[d].at .. now : Upsert(d, t)
      BY <2>2
    <3>2. t \in Int /\ "unacked" \in Accepted
      BY <1>1 DEF Accepted
    <3> QED
      BY <1>1, <1>2, <1>7, <2>2, <3>1, <3>2, UpsertInductive DEF EnqueueFails
  <2> QED
    BY <1>7, <2>1, <2>2 DEF EnqueueFails
<1>8. ASSUME NEW w \in Writers, Select(w)
      PROVE  Inductive'
  <2> DEFINE S == {k \in Ready : Cardinality({j \in Ready : row[j].id < row[k].id})
                                   < BatchSize}
  <2>0. S \in SUBSET DOMAIN row
    BY Zenon DEF Ready
  <2>1. batch' \in [Writers -> SUBSET DOMAIN row]
    <3>1. batch' = [batch EXCEPT ![w] = S]
      BY <1>8 DEF Select
    <3> HIDE DEF S
    <3> QED
      BY <1>3, <2>0, <3>1
  <2> QED
    BY <1>1, <1>8, <2>1, QuietInductive DEF Select
<1>9. ASSUME NEW w \in Writers, NEW k \in DOMAIN row,
             batch' = [batch EXCEPT ![w] = @ \ {k}]
      PROVE  batch' \in [Writers -> SUBSET DOMAIN row]
  BY <1>1, <1>9
<1>10. ASSUME NEW w \in Writers, Lock(w)
       PROVE  Inductive'
  <2>1. PICK k \in DOMAIN row :
          /\ batch' = [batch EXCEPT ![w] = @ \ {k}]
          /\ \/ /\ row[k].status = "queued"
                /\ Claim(k)
                /\ hold' = [hold EXCEPT ![w] = Holding(k)]
             \/ UNCHANGED <<row, hold, claimed>>
    BY <1>10 DEF Lock
  <2>2. faults' \in Nat /\ UNCHANGED <<now, req, lastId>>
    BY <1>1, <1>10 DEF Lock
  <2> QED
    BY <1>1, <1>9, <2>1, <2>2, ClaimInductive, QuietInductive
<1>11. ASSUME NEW w \in Writers, LockFails(w)
       PROVE  Inductive'
  <2>1. PICK k \in DOMAIN row :
          /\ batch' = [batch EXCEPT ![w] = @ \ {k}]
          /\ \/ Fault("lock") /\ UNCHANGED <<row, claimed>>
             \/ Fault("lockLost") /\ row[k].status = "queued" /\ Claim(k)
    BY <1>11 DEF LockFails
  <2>2. faults' \in Nat /\ UNCHANGED <<now, req, lastId, hold>>
    BY <1>2, <1>11, <2>1 DEF LockFails
  <2> QED
    BY <1>1, <1>9, <2>1, <2>2, ClaimInductive, QuietInductive
<1>12. ASSUME NEW w \in Writers, MarkDone(w) \/ MarkDoneFails(w)
       PROVE  Inductive'
  <2>1. /\ UNCHANGED row \/ (hold[w] # None /\ SetDone(hold[w].key))
        /\ hold' = [hold EXCEPT ![w] = None]
        /\ faults' \in Nat
        /\ UNCHANGED <<now, req, lastId, batch, claimed>>
    BY <1>1, <1>2, <1>12 DEF MarkDone, MarkDoneFails
  <2> QED
    BY <1>1, <2>1, ReleaseInductive
<1>13. ASSUME NEW w \in Writers, Crash(w)
       PROVE  Inductive'
  <2>1. batch' \in [Writers -> SUBSET DOMAIN row]
    BY <1>1, <1>13 DEF Crash
  <2>2. /\ hold' = [hold EXCEPT ![w] = None]
        /\ faults' \in Nat
        /\ UNCHANGED <<now, req, row, lastId, claimed>>
    BY <1>2, <1>13 DEF Crash
  <2> QED
    BY <2>1, <2>2, ReleaseInductive
<1>14. CASE UNCHANGED vars
  BY <1>1, <1>14, QuietInductive DEF vars
<1> QED
  BY <1>4, <1>5, <1>6, <1>7, <1>8, <1>10, <1>11, <1>12, <1>13, <1>14 DEF Next

\* The invariant the safety properties follow from holds in every state.
THEOREM InductiveInvariant == Spec => []Inductive
<1>1. Init => Inductive
  BY InitInductive
<1>2. Inductive /\ [Next]_vars => Inductive'
  BY NextInductive
<1> QED
  BY <1>1, <1>2, PTL DEF Spec

\* Type correctness of the pipeline.
THEOREM TypeCorrect == Spec => []TypeOK
<1>1. Inductive => TypeOK
  BY DEF Inductive
<1> QED
  BY <1>1, InductiveInvariant, PTL

\* No accepted delivery is lost from the table, whatever fails.
THEOREM NothingAcceptedIsLost == Spec => []AcceptedIsStored
<1>1. Inductive => AcceptedIsStored
  BY DEF Inductive
<1> QED
  BY <1>1, InductiveInvariant, PTL

\* A delivery that waits in the queue has never been claimed, so the lock
\* succeeds at most once for each delivery.
THEOREM ClaimedAtMostOnce == Spec => []QueuedIsUnclaimed
<1>1. Inductive => QueuedIsUnclaimed
  BY DEF Inductive
<1> QED
  BY <1>1, InductiveInvariant, PTL

\* Any number of writers: no two of them work on the same delivery.
THEOREM WritersExcludeEachOther == Spec => []NoDoubleClaim
<1>1. Inductive => NoDoubleClaim
  BY DEF Inductive
<1> QED
  BY <1>1, InductiveInvariant, PTL

\* The attempts column tells whether the payload in the row was claimed.
THEOREM AttemptsAreClaims == Spec => []AttemptsCountClaims
<1>1. Inductive => AttemptsCountClaims
  BY DEF Inductive
<1> QED
  BY <1>1, InductiveInvariant, PTL

\* The status of a row with the same payload only moves forward.  It needs the
\* invariant: an upsert brings another payload because the delivery it stores
\* was not accepted before, and the lock meets queued rows only.
THEOREM StatusNeverMovesBack == Spec => StatusMovesForward
<1> DEFINE Forward ==
      \A k \in DOMAIN row :
        row'[k].payload = row[k].payload =>
          Rank(row[k].status) <= Rank(row'[k].status)
<1>1. ASSUME Inductive
      PROVE  /\ row \in [DOMAIN row -> Rows]
             /\ \A k \in DOMAIN row : Rank(row[k].status) \in {0, 1, 2}
  BY <1>1 DEF Inductive, TypeOK, Rows, Rank
<1>2. ASSUME Inductive, UNCHANGED row
      PROVE  Forward
  BY <1>1, <1>2
<1>3. ASSUME Inductive, NEW d \in Deliveries, req[d].phase = "handling",
             NEW t \in Int, Upsert(d, t)
      PROVE  Forward
  <2>1. \A k \in DOMAIN row : row[k].payload # d
    BY <1>3 DEF Inductive, RowsHaveOwners, Accepted
  <2>2. \A k \in DOMAIN row : row'[k] = row[k] \/ row'[k].payload = d
    BY <1>3 DEF Upsert
  <2> QED
    BY <1>1, <1>3, <2>1, <2>2
<1>4. ASSUME Inductive, NEW k \in DOMAIN row, row[k].status = "queued", Claim(k)
      PROVE  Forward
  <2>1. \A j \in DOMAIN row : j # k => row'[j] = row[j]
    BY <1>1, <1>4 DEF Claim
  <2>2. row'[k].status = "processing"
    BY <1>1, <1>4, LockedRow DEF Claim
  <2>3. Rank(row[k].status) <= Rank(row'[k].status)
    BY <1>4, <2>2 DEF Rank
  <2> QED
    BY <1>1, <1>4, <2>1, <2>3
<1>5. ASSUME Inductive, NEW k \in DOMAIN row, SetDone(k)
      PROVE  Forward
  <2>1. \A j \in DOMAIN row : row'[j] = row[j] \/ row'[j].status = "done"
    BY <1>1, <1>5 DEF SetDone, Rows
  <2>2. Rank("done") = 2
    BY DEF Rank
  <2> QED
    BY <1>1, <1>5, <2>1, <2>2
<1>6. ASSUME Inductive, [Next]_vars
      PROVE  Forward
  <2>1. ASSUME Inductive, NEW d \in Deliveries, Enqueue(d) \/ EnqueueFails(d)
        PROVE  Forward
    <3>1. \A t \in req[d].at .. now : t \in Int
      BY <2>1 DEF Inductive, TypeOK
    <3> QED
      BY <1>2, <1>3, <2>1, <3>1 DEF Enqueue, EnqueueFails
  <2>2. ASSUME Inductive, NEW w \in Writers, Lock(w) \/ LockFails(w)
        PROVE  Forward
    BY <1>2, <1>4, <2>2 DEF Lock, LockFails
  <2>3. ASSUME Inductive, NEW w \in Writers, MarkDone(w) \/ MarkDoneFails(w)
        PROVE  Forward
    <3>1. hold[w] # None /\ (UNCHANGED row \/ SetDone(hold[w].key))
      BY <2>3 DEF MarkDone, MarkDoneFails
    <3>2. hold[w].key \in DOMAIN row
      BY <2>3, <3>1 DEF Inductive, TypeOK
    <3> QED
      BY <1>2, <1>5, <2>3, <3>1, <3>2
  <2>4. CASE Tick \/ UNCHANGED vars
    BY <1>2, <1>6, <2>4 DEF Tick, vars
  <2>5. ASSUME NEW d \in Deliveries, Receive(d)
        PROVE  Forward
    BY <1>2, <1>6, <2>5 DEF Receive
  <2>6. ASSUME NEW w \in Writers, Select(w) \/ Crash(w)
        PROVE  Forward
    BY <1>2, <1>6, <2>6 DEF Select, Crash
  <2> HIDE DEF Forward
  <2> QED
    BY <1>6, <2>1, <2>2, <2>3, <2>4, <2>5, <2>6 DEF Next, Ingest, Write
<1>7. Inductive /\ [Next]_vars => [Forward]_row
  BY <1>6
<1> HIDE DEF Forward
<1> QED
  <2>1. Spec => [][Forward]_row
    BY <1>7, InductiveInvariant, PTL DEF Spec
  <2> QED
    BY <2>1 DEF StatusMovesForward, Forward

-----------------------------------------------------------------------------
(* The pipeline implements the life cycle of its deliveries.               *)

\* A row that is being processed holds a delivery that was claimed.
ProcessingIsClaimed ==
  \A k \in DOMAIN row : row[k].status = "processing" => row[k].payload \in claimed

\* What the stage of a delivery says of its request and its row.
LEMMA StageNow ==
  ASSUME NEW d \in Deliveries
  PROVE  /\ req[d].phase \in {"new", "handling"} => StageOf(d) = "new"
         /\ req[d].phase \in {"400", "401", "500"} => StageOf(d) = "refused"
         /\ req[d].phase \in Accepted =>
              LET r == row[req[d].key] IN
              /\ r.payload # d => StageOf(d) = "replaced"
              /\ r.payload = d /\ r.status = "queued" => StageOf(d) = "waiting"
              /\ r.payload = d /\ r.status = "processing" => StageOf(d) = "claimed"
              /\ r.payload = d /\ r.status = "done" =>
                   StageOf(d) = IF d \in claimed THEN "settled" ELSE "skipped"
BY DEF StageOf, Answered, Accepted

\* The same after a step.
LEMMA StageThen ==
  ASSUME NEW d \in Deliveries
  PROVE  /\ req'[d].phase \in {"new", "handling"} => StageOf(d)' = "new"
         /\ req'[d].phase \in {"400", "401", "500"} => StageOf(d)' = "refused"
         /\ req'[d].phase \in Accepted =>
              LET r == row'[req'[d].key] IN
              /\ r.payload # d => StageOf(d)' = "replaced"
              /\ r.payload = d /\ r.status = "queued" => StageOf(d)' = "waiting"
              /\ r.payload = d /\ r.status = "processing" => StageOf(d)' = "claimed"
              /\ r.payload = d /\ r.status = "done" =>
                   StageOf(d)' = IF d \in claimed' THEN "settled" ELSE "skipped"
BY DEF StageOf, Answered, Accepted

\* A step that changes the stage of no delivery is a stutter.
LEMMA NoMove ==
  ASSUME \A d \in Deliveries : StageOf(d)' = StageOf(d)
  PROVE  Stage' = Stage
BY DEF Stage

\* A step that changes the stage of one delivery.
LEMMA OneMove ==
  ASSUME NEW d \in Deliveries, NEW s, StageOf(d)' = s,
         \A e \in Deliveries : e # d => StageOf(e)' = StageOf(e)
  PROVE  /\ Stage[d] = StageOf(d)
         /\ Stage' = [Stage EXCEPT ![d] = s]
BY DEF Stage

\* A step that changes the stages of at most two deliveries.
LEMMA TwoMoves ==
  ASSUME NEW d \in Deliveries, NEW old \in Deliveries, NEW s, NEW r,
         StageOf(d)' = s, old # d => StageOf(old)' = r,
         \A e \in Deliveries : e # d /\ e # old => StageOf(e)' = StageOf(e)
  PROVE  /\ Stage[d] = StageOf(d) /\ Stage[old] = StageOf(old)
         /\ Stage' = [Stage EXCEPT ![old] = r, ![d] = s]
BY DEF Stage

\* Every phase is one of those the stages distinguish.
LEMMA PhaseCases ==
  ASSUME Inductive, NEW d \in Deliveries
  PROVE  \/ req[d].phase \in {"new", "handling"}
         \/ req[d].phase \in {"400", "401", "500"}
         \/ req[d].phase \in Accepted
BY DEF Inductive, TypeOK, Phases, Answered, Accepted

\* The owner of a row is in one of the stages of a stored delivery.
LEMMA OwnerStage ==
  ASSUME Inductive, ProcessingIsClaimed, NEW k \in DOMAIN row
  PROVE  LET p == row[k].payload IN
         /\ p \in Deliveries
         /\ req[p].phase \in Accepted
         /\ req[p].key = k
         /\ row[k].status = "queued" => p \notin claimed /\ StageOf(p) = "waiting"
         /\ row[k].status = "processing" => p \in claimed /\ StageOf(p) = "claimed"
         /\ row[k].status = "done" =>
              StageOf(p) = IF p \in claimed THEN "settled" ELSE "skipped"
         /\ row[k].status \in {"queued", "processing", "done"}
         /\ StageOf(p) \in Lifecycle!Stored
<1> DEFINE p == row[k].payload
<1>1. /\ p \in Deliveries
      /\ row[k].status \in {"queued", "processing", "done"}
  BY DEF Inductive, TypeOK, Rows
<1>2. /\ req[p].phase \in Accepted
      /\ req[p].key = k
  BY DEF Inductive, RowsHaveOwners
<1>3. row[k].status = "queued" => p \notin claimed
  BY DEF Inductive, QueuedIsUnclaimed
<1>4. row[k].status = "processing" => p \in claimed
  BY DEF ProcessingIsClaimed
<1> QED
  BY <1>1, <1>2, <1>3, <1>4, StageNow DEF Lifecycle!Stored

\* The upsert of a delivery puts it into the queue, in the place of the
\* delivery its row held before.
LEMMA UpsertOffers ==
  ASSUME Inductive, ProcessingIsClaimed,
         NEW d \in Deliveries, req[d].phase = "handling",
         NEW t \in Int, Upsert(d, t),
         NEW p \in Accepted, req' = [req EXCEPT ![d].phase = p],
         UNCHANGED claimed
  PROVE  Lifecycle!Offer(d)
<1>1. PICK key \in Keys : key = req[d].key
  BY DEF Inductive, KeysGiven
<1>2. PICK old \in Deliveries :
        old = IF key \in DOMAIN row THEN row[key].payload ELSE d
  BY OwnerStage
<1>3. /\ DOMAIN row' = DOMAIN row \cup {key}
      /\ \A k \in DOMAIN row : k # key => row'[k] = row[k]
      /\ row'[key].payload = d
      /\ row'[key].status = "queued"
  BY <1>1 DEF Upsert
<1>4. /\ req'[d].phase \in Accepted
      /\ \A e \in Deliveries : req'[e].key = req[e].key
      /\ \A e \in Deliveries : e # d => req'[e].phase = req[e].phase
  BY DEF Inductive, TypeOK
<1>5. StageOf(d) = "new" /\ StageOf(d)' = "waiting"
  BY <1>1, <1>3, <1>4, StageNow, StageThen
<1>6. /\ old # d => StageOf(old) \in Lifecycle!Stored /\ StageOf(old)' = "replaced"
  <2>1. CASE key \in DOMAIN row
    <3>1. /\ req[old].phase \in Accepted
          /\ req[old].key = key
          /\ StageOf(old) \in Lifecycle!Stored
      BY <1>2, <2>1, OwnerStage
    <3>2. ASSUME old # d
          PROVE  StageOf(old)' = "replaced"
      <4>1. req'[old].phase \in Accepted /\ req'[old].key = key
        BY <1>4, <3>1, <3>2
      <4>2. row'[req'[old].key].payload # old
        BY <1>3, <3>2, <4>1
      <4> QED
        BY <3>1, <4>1, <4>2, StageThen
    <3> QED
      BY <3>1, <3>2
  <2>2. CASE key \notin DOMAIN row
    BY <1>2, <2>2
  <2> QED
    BY <2>1, <2>2
<1>7. ASSUME NEW e \in Deliveries, e # d, e # old
      PROVE  StageOf(e)' = StageOf(e)
  <2>1. CASE req[e].phase \notin Accepted
    BY <1>4, <1>7, <2>1, PhaseCases, StageNow, StageThen
  <2>2. CASE req[e].phase \in Accepted /\ req[e].key # key
    <3>1. req[e].key \in DOMAIN row
      BY <2>2 DEF Inductive, AcceptedIsStored
    <3>2. row'[req'[e].key] = row[req[e].key] /\ req'[e].phase = req[e].phase
      BY <1>3, <1>4, <1>7, <2>2, <3>1
    <3> QED
      BY <3>2 DEF StageOf
  <2>3. CASE req[e].phase \in Accepted /\ req[e].key = key
    <3>1. key \in DOMAIN row
      BY <2>3 DEF Inductive, AcceptedIsStored
    <3>2. row[key].payload # e /\ row'[key].payload # e
      BY <1>2, <1>3, <1>7, <3>1
    <3> QED
      BY <1>4, <1>7, <2>3, <3>2, StageNow, StageThen
  <2> QED
    BY <2>1, <2>2, <2>3
<1>8. /\ Stage[d] = StageOf(d) /\ Stage[old] = StageOf(old)
      /\ Stage' = [Stage EXCEPT ![old] = "replaced", ![d] = "waiting"]
  <2>1. old # d => StageOf(old)' = "replaced"
    BY <1>6
  <2> QED
    BY <1>5, <1>7, <2>1, TwoMoves
<1> QED
  BY <1>5, <1>6, <1>8 DEF Lifecycle!Offer

\* A writer's statement on one row moves the owner of the row and nobody else.
LEMMA OwnerMoves ==
  ASSUME Inductive,
         NEW k \in DOMAIN row, NEW p \in Deliveries, NEW s,
         row[k].payload = p, row'[k].payload = p,
         DOMAIN row' = DOMAIN row,
         \A j \in DOMAIN row : j # k => row'[j] = row[j],
         UNCHANGED req,
         \A e \in Deliveries : e # p => (e \in claimed' <=> e \in claimed),
         StageOf(p)' = s
  PROVE  /\ Stage[p] = StageOf(p)
         /\ Stage' = [Stage EXCEPT ![p] = s]
<1>1. ASSUME NEW e \in Deliveries, e # p
      PROVE  StageOf(e)' = StageOf(e)
  <2>1. CASE req[e].phase \notin Accepted
    BY <1>1, <2>1, PhaseCases, StageNow, StageThen
  <2>2. CASE req[e].phase \in Accepted /\ req[e].key # k
    <3>1. req[e].key \in DOMAIN row
      BY <2>2 DEF Inductive, AcceptedIsStored
    <3>2. row'[req[e].key] = row[req[e].key]
      BY <2>2, <3>1
    <3>3. /\ row[req[e].key].status \in {"queued", "processing", "done"}
          /\ req'[e] = req[e]
      BY <3>1 DEF Inductive, TypeOK, Rows
    <3> QED
      BY <1>1, <2>2, <3>2, <3>3, StageNow, StageThen
  <2>3. CASE req[e].phase \in Accepted /\ req[e].key = k
    BY <1>1, <2>3, StageNow, StageThen
  <2> QED
    BY <2>1, <2>2, <2>3
<1> QED
  BY <1>1, OneMove

\* The lock UPDATE claims the delivery that waits in the row.
LEMMA LockClaims ==
  ASSUME Inductive, ProcessingIsClaimed,
         NEW k \in DOMAIN row, row[k].status = "queued", Claim(k), UNCHANGED req
  PROVE  \E p \in Deliveries : Lifecycle!Claim(p)
<1>1. PICK p \in Deliveries : p = row[k].payload
  BY OwnerStage
<1>2. /\ DOMAIN row' = DOMAIN row
      /\ \A j \in DOMAIN row : j # k => row'[j] = row[j]
      /\ row'[k].payload = p
      /\ row'[k].status = "processing"
  <2>1. row[k] \in Rows /\ row'[k] = Locked(row[k])
    BY DEF Inductive, TypeOK, Claim
  <2>2. /\ DOMAIN row' = DOMAIN row
        /\ \A j \in DOMAIN row : j # k => row'[j] = row[j]
    BY DEF Inductive, TypeOK, Claim
  <2> QED
    BY <1>1, <2>1, <2>2, LockedRow
<1>3. /\ req[p].phase \in Accepted /\ req[p].key = k
      /\ StageOf(p) = "waiting"
  BY <1>1, OwnerStage
<1>4. StageOf(p)' = "claimed"
  BY <1>2, <1>3, StageThen
<1>5. \A e \in Deliveries : e # p => (e \in claimed' <=> e \in claimed)
  BY <1>1 DEF Claim
<1>6. /\ Stage[p] = "waiting"
      /\ Stage' = [Stage EXCEPT ![p] = "claimed"]
  BY <1>1, <1>2, <1>3, <1>4, <1>5, OwnerMoves
<1> QED
  BY <1>6 DEF Lifecycle!Claim, Lifecycle!Move

\* The UPDATE of markDone settles a claimed delivery, skips one that waits in
\* the row by now, or changes nothing.
LEMMA DoneSettlesOrSkips ==
  ASSUME Inductive, ProcessingIsClaimed,
         NEW k \in DOMAIN row, SetDone(k), UNCHANGED <<req, claimed>>
  PROVE  \/ \E p \in Deliveries : Lifecycle!Settle(p) \/ Lifecycle!Skip(p)
         \/ UNCHANGED Stage
<1>1. PICK p \in Deliveries : p = row[k].payload
  BY OwnerStage
<1>2. /\ DOMAIN row' = DOMAIN row
      /\ \A j \in DOMAIN row : j # k => row'[j] = row[j]
      /\ row'[k].payload = p
      /\ row'[k].status = "done"
  BY <1>1 DEF Inductive, TypeOK, Rows, SetDone
<1>3. req[p].phase \in Accepted /\ req[p].key = k
  BY <1>1, OwnerStage
<1>4. StageOf(p)' = IF p \in claimed THEN "settled" ELSE "skipped"
  BY <1>2, <1>3, StageThen
<1>5. CASE row[k].status = "queued"
  <2>1. StageOf(p) = "waiting" /\ StageOf(p)' = "skipped"
    BY <1>1, <1>4, <1>5, OwnerStage
  <2>2. Stage[p] = "waiting" /\ Stage' = [Stage EXCEPT ![p] = "skipped"]
    BY <1>1, <1>2, <2>1, OwnerMoves
  <2> QED
    BY <2>2 DEF Lifecycle!Skip, Lifecycle!Move
<1>6. CASE row[k].status = "processing"
  <2>1. StageOf(p) = "claimed" /\ StageOf(p)' = "settled"
    BY <1>1, <1>4, <1>6, OwnerStage
  <2>2. Stage[p] = "claimed" /\ Stage' = [Stage EXCEPT ![p] = "settled"]
    BY <1>1, <1>2, <2>1, OwnerMoves
  <2> QED
    BY <2>2 DEF Lifecycle!Settle, Lifecycle!Move
<1>7. CASE row[k].status = "done"
  <2>1. row' = row
    BY <1>7 DEF Inductive, TypeOK, Rows, SetDone
  <2> QED
    BY <2>1, NoMove DEF StageOf
<1> QED
  BY <1>1, <1>5, <1>6, <1>7, OwnerStage

\* A handler that goes on without a row, or answers without one.
LEMMA RequestRefuses ==
  ASSUME Inductive,
         NEW d \in Deliveries, req[d].phase \in {"new", "handling"},
         req'[d].phase \in {"handling", "400", "401", "500"},
         \A e \in Deliveries : e # d => req'[e] = req[e],
         UNCHANGED <<row, claimed>>
  PROVE  Lifecycle!Refuse(d) \/ UNCHANGED Stage
<1>1. \A e \in Deliveries : e # d => StageOf(e)' = StageOf(e)
  BY DEF StageOf
<1>2. StageOf(d) = "new"
  BY StageNow
<1>3. CASE req'[d].phase = "handling"
  <2>1. StageOf(d)' = "new"
    BY <1>3, StageThen
  <2> QED
    BY <1>1, <1>2, <2>1, NoMove
<1>4. CASE req'[d].phase # "handling"
  <2>1. StageOf(d)' = "refused"
    BY <1>4, StageThen
  <2>2. Stage[d] = "new" /\ Stage' = [Stage EXCEPT ![d] = "refused"]
    BY <1>1, <1>2, <2>1, OneMove
  <2> QED
    BY <2>2 DEF Lifecycle!Refuse
<1> QED
  BY <1>3, <1>4

\* A step that leaves requests, rows and claims alone.
LEMMA QuietStages ==
  ASSUME UNCHANGED <<req, row, claimed>>
  PROVE  UNCHANGED Stage
BY NoMove DEF StageOf

\* Every step keeps the deliveries of the processing rows claimed.
LEMMA ProcessingStep ==
  Inductive /\ ProcessingIsClaimed /\ [Next]_vars => ProcessingIsClaimed'
<1> SUFFICES ASSUME Inductive, ProcessingIsClaimed, [Next]_vars
             PROVE  ProcessingIsClaimed'
  OBVIOUS
<1> USE DEF ProcessingIsClaimed
<1>1. ASSUME NEW d \in Deliveries, NEW t, Upsert(d, t), UNCHANGED claimed
      PROVE  ProcessingIsClaimed'
  BY <1>1 DEF Upsert
<1>2. ASSUME NEW k \in DOMAIN row, Claim(k)
      PROVE  ProcessingIsClaimed'
  <2>1. /\ row[k] \in Rows /\ row'[k] = Locked(row[k])
        /\ DOMAIN row' = DOMAIN row
        /\ \A j \in DOMAIN row : j # k => row'[j] = row[j]
    BY <1>2 DEF Inductive, TypeOK, Claim
  <2>2. row'[k].payload \in claimed' /\ claimed \subseteq claimed'
    BY <1>2, <2>1, LockedRow DEF Claim
  <2> QED
    BY <2>1, <2>2
<1>3. ASSUME NEW k \in DOMAIN row, SetDone(k), UNCHANGED claimed
      PROVE  ProcessingIsClaimed'
  BY <1>3 DEF Inductive, TypeOK, Rows, SetDone
<1>4. ASSUME UNCHANGED <<row, claimed>>
      PROVE  ProcessingIsClaimed'
  BY <1>4
<1>5. \A w \in Writers : hold[w] # None => hold[w].key \in DOMAIN row
  BY DEF Inductive, TypeOK
<1>6. ASSUME NEW d \in Deliveries, Receive(d) \/ Enqueue(d) \/ EnqueueFails(d)
      PROVE  ProcessingIsClaimed'
  BY <1>1, <1>4, <1>6 DEF Receive, Enqueue, EnqueueFails
<1>7. ASSUME NEW w \in Writers, Lock(w) \/ LockFails(w)
      PROVE  ProcessingIsClaimed'
  BY <1>2, <1>4, <1>7 DEF Lock, LockFails
<1>8. ASSUME NEW w \in Writers, MarkDone(w) \/ MarkDoneFails(w)
      PROVE  ProcessingIsClaimed'
  BY <1>3, <1>4, <1>5, <1>8 DEF MarkDone, MarkDoneFails
<1>9. ASSUME NEW w \in Writers, Select(w) \/ Crash(w)
      PROVE  ProcessingIsClaimed'
  BY <1>4, <1>9 DEF Select, Crash
<1>10. CASE Tick \/ UNCHANGED vars
  BY <1>4, <1>10 DEF Tick, vars
<1> QED
  BY <1>6, <1>7, <1>8, <1>9, <1>10 DEF Next, Ingest, Write

\* Every step of the pipeline is a step of the life cycle or a stutter.
LEMMA EveryStepIsAllowed ==
  Inductive /\ ProcessingIsClaimed /\ [Next]_vars => [Lifecycle!Next]_Stage
<1> SUFFICES ASSUME Inductive, ProcessingIsClaimed, [Next]_vars
             PROVE  Lifecycle!Next \/ UNCHANGED Stage
  OBVIOUS
<1> DEFINE Allowed == Lifecycle!Next \/ UNCHANGED Stage
<1>1. ASSUME NEW d \in Deliveries, Receive(d)
      PROVE  Allowed
  <2>1. PICK p \in Posts :
          req' = [req EXCEPT ![d] =
                    [phase |-> Verdict(p),
                     key   |-> IF Verdict(p) = "handling" THEN KeyOf(p) ELSE None,
                     at    |-> now]]
    BY <1>1 DEF Receive
  <2>2. req'[d].phase = Verdict(p) /\ \A e \in Deliveries : e # d => req'[e] = req[e]
    BY <2>1 DEF Inductive, TypeOK
  <2>3. Verdict(p) \in {"handling", "400", "401", "500"}
    BY DEF Verdict
  <2>4. /\ req[d].phase \in {"new", "handling"}
        /\ UNCHANGED <<row, claimed>>
    BY <1>1 DEF Receive
  <2>5. Lifecycle!Refuse(d) \/ UNCHANGED Stage
    BY <2>2, <2>3, <2>4, RequestRefuses
  <2> QED
    BY <2>5 DEF Lifecycle!Next
<1>2. ASSUME NEW d \in Deliveries, req[d].phase = "handling",
             NEW t \in req[d].at .. now, Upsert(d, t),
             NEW p \in Accepted, req' = [req EXCEPT ![d].phase = p],
             UNCHANGED claimed
      PROVE  Allowed
  <2>1. t \in Int
    BY DEF Inductive, TypeOK
  <2>2. Lifecycle!Offer(d)
    BY <1>2, <2>1, UpsertOffers
  <2> QED
    BY <2>2 DEF Lifecycle!Next
<1>3. ASSUME NEW d \in Deliveries, Enqueue(d)
      PROVE  Allowed
  BY <1>2, <1>3 DEF Enqueue, Accepted
<1>4. ASSUME NEW d \in Deliveries, EnqueueFails(d)
      PROVE  Allowed
  <2>1. CASE UNCHANGED row /\ req' = [req EXCEPT ![d].phase = "500"]
    <3>1. /\ req'[d].phase = "500"
          /\ \A e \in Deliveries : e # d => req'[e] = req[e]
      BY <2>1 DEF Inductive, TypeOK
    <3>2. req[d].phase \in {"new", "handling"} /\ UNCHANGED <<row, claimed>>
      BY <1>4, <2>1 DEF EnqueueFails
    <3>3. Lifecycle!Refuse(d) \/ UNCHANGED Stage
      BY <3>1, <3>2, RequestRefuses
    <3> QED
      BY <3>3 DEF Lifecycle!Next
  <2>2. CASE /\ \E t \in req[d].at .. now : Upsert(d, t)
             /\ req' = [req EXCEPT ![d].phase = "unacked"]
    BY <1>2, <1>4, <2>2 DEF EnqueueFails, Accepted
  <2> QED
    BY <1>4, <2>1, <2>2 DEF EnqueueFails
<1>5. ASSUME NEW k \in DOMAIN row, row[k].status = "queued", Claim(k), UNCHANGED req
      PROVE  Allowed
  BY <1>5, LockClaims DEF Lifecycle!Next
<1>6. ASSUME NEW k \in DOMAIN row, SetDone(k), UNCHANGED <<req, claimed>>
      PROVE  Allowed
  BY <1>6, DoneSettlesOrSkips DEF Lifecycle!Next
<1>7. ASSUME UNCHANGED <<req, row, claimed>>
      PROVE  Allowed
  BY <1>7, QuietStages
<1> HIDE DEF Allowed
<1>8. ASSUME NEW w \in Writers, Lock(w) \/ LockFails(w)
      PROVE  Allowed
  BY <1>5, <1>7, <1>8 DEF Lock, LockFails
<1>9. ASSUME NEW w \in Writers, MarkDone(w) \/ MarkDoneFails(w)
      PROVE  Allowed
  <2>1. hold[w].key \in DOMAIN row
    BY <1>9 DEF Inductive, TypeOK, MarkDone, MarkDoneFails
  <2> QED
    BY <1>6, <1>7, <1>9, <2>1 DEF MarkDone, MarkDoneFails
<1>10. ASSUME NEW w \in Writers, Select(w) \/ Crash(w)
       PROVE  Allowed
  BY <1>7, <1>10 DEF Select, Crash
<1>11. ASSUME Tick \/ UNCHANGED vars
       PROVE  Allowed
  BY <1>7, <1>11 DEF Tick, vars
<1>12. Allowed
  BY <1>1, <1>3, <1>4, <1>8, <1>9, <1>10, <1>11 DEF Next, Ingest, Write
<1> QED
  BY <1>12 DEF Allowed

\* The pipeline implements the life cycle: whatever fails and in whatever
\* order handlers and writers run, a delivery is refused or queued, claimed at
\* most once, and then settled, skipped or replaced.
THEOREM PipelineImplementsLifecycle == Spec => ImplementsLifecycle
<1>1. Init => ProcessingIsClaimed /\ Lifecycle!Init
  <2>1. Init => \A d \in Deliveries : StageOf(d) = "new"
    BY StageNow DEF Init
  <2> QED
    BY <2>1 DEF Init, ProcessingIsClaimed, Lifecycle!Init, Stage
<1>2. Spec => []ProcessingIsClaimed
  BY <1>1, ProcessingStep, InductiveInvariant, PTL DEF Spec
<1> QED
  BY <1>1, <1>2, EveryStepIsAllowed, InductiveInvariant, PTL
     DEF Spec, ImplementsLifecycle, Lifecycle!Spec

\* The abstract specification keeps to its stages and only moves on.
LEMMA LifecycleTypes == Lifecycle!Spec => []Lifecycle!LifecycleTypeOK
<1> USE DEF Lifecycle!LifecycleTypeOK, Lifecycle!Stages
<1>1. Lifecycle!Init => Lifecycle!LifecycleTypeOK
  BY DEF Lifecycle!Init
<1>2. Lifecycle!LifecycleTypeOK /\ [Lifecycle!Next]_Stage => Lifecycle!LifecycleTypeOK'
  BY DEF Lifecycle!Next, Lifecycle!Refuse, Lifecycle!Offer, Lifecycle!Claim,
         Lifecycle!Settle, Lifecycle!Skip, Lifecycle!Move, Lifecycle!Stored
<1> QED
  BY <1>1, <1>2, PTL DEF Lifecycle!Spec

LEMMA LifecycleStep ==
  Lifecycle!LifecycleTypeOK /\ [Lifecycle!Next]_Stage =>
    [\A d \in Deliveries : Stage'[d] \in Lifecycle!Later(Stage[d])]_Stage
<1> USE DEF Lifecycle!LifecycleTypeOK, Lifecycle!Stages, Lifecycle!Later,
            Lifecycle!Stored
<1> SUFFICES ASSUME Lifecycle!LifecycleTypeOK, Lifecycle!Next, NEW e \in Deliveries
             PROVE  Stage'[e] \in Lifecycle!Later(Stage[e])
  OBVIOUS
<1>1. PICK d \in Deliveries :
        \/ Lifecycle!Refuse(d) \/ Lifecycle!Offer(d) \/ Lifecycle!Claim(d)
        \/ Lifecycle!Settle(d) \/ Lifecycle!Skip(d)
  BY DEF Lifecycle!Next
<1>2. CASE Lifecycle!Offer(d)
  BY <1>2 DEF Lifecycle!Offer
<1>3. CASE ~Lifecycle!Offer(d)
  BY <1>1, <1>3 DEF Lifecycle!Refuse, Lifecycle!Claim, Lifecycle!Settle,
                    Lifecycle!Skip, Lifecycle!Move
<1> QED
  BY <1>2, <1>3

\* So a delivery never moves back: whatever crashes, is repeated or gets lost,
\* what a writer has claimed never waits again, and what it has settled can only
\* be replaced by another delivery of the event.
THEOREM DeliveriesMoveOn == Spec => Lifecycle!MovesOn
BY PipelineImplementsLifecycle, LifecycleTypes, LifecycleStep, PTL
   DEF ImplementsLifecycle, Lifecycle!Spec, Lifecycle!MovesOn

-----------------------------------------------------------------------------
(* Stuck rows are paid for with faults.                                    *)

\* The bound, with the finiteness it needs.
OrphansCounted == IsFiniteSet(Orphans) /\ Cardinality(Orphans) <= faults

\* No new orphan, or one for a fault.
LEMMA OrphansAfter ==
  ASSUME OrphansCounted, faults \in Nat, faults' \in Nat,
         \/ Orphans' \subseteq Orphans /\ faults <= faults'
         \/ /\ faults' = faults + 1
            /\ \E k : Orphans' \subseteq Orphans \cup {k}
  PROVE  OrphansCounted'
<1>1. Cardinality(Orphans) \in Nat
  BY FS_CardinalityType DEF OrphansCounted
<1>2. CASE Orphans' \subseteq Orphans /\ faults <= faults'
  <2>1. IsFiniteSet(Orphans') /\ Cardinality(Orphans') <= Cardinality(Orphans)
    BY <1>2, FS_Subset DEF OrphansCounted
  <2>2. Cardinality(Orphans') \in Nat
    BY <2>1, FS_CardinalityType
  <2> QED
    BY <1>1, <1>2, <2>1, <2>2 DEF OrphansCounted
<1>3. ASSUME faults' = faults + 1, NEW k, Orphans' \subseteq Orphans \cup {k}
      PROVE  OrphansCounted'
  <2>1. /\ IsFiniteSet(Orphans \cup {k})
        /\ Cardinality(Orphans \cup {k}) <= Cardinality(Orphans) + 1
    BY <1>1, FS_AddElement DEF OrphansCounted
  <2>2. /\ IsFiniteSet(Orphans')
        /\ Cardinality(Orphans') <= Cardinality(Orphans \cup {k})
    BY <1>3, <2>1, FS_Subset
  <2>3. Cardinality(Orphans') \in Nat /\ Cardinality(Orphans \cup {k}) \in Nat
    BY <2>1, <2>2, FS_CardinalityType
  <2> QED
    BY <1>1, <1>3, <2>1, <2>2, <2>3 DEF OrphansCounted
<1> QED
  BY <1>2, <1>3

\* The lock UPDATE on row k makes no other row an orphan, and not k if the
\* writer goes on with it.
LEMMA ClaimOrphans ==
  ASSUME Inductive, NEW k \in DOMAIN row, Claim(k), NEW w \in Writers
  PROVE  /\ UNCHANGED hold => Orphans' \subseteq Orphans \cup {k}
         /\ hold[w] = None /\ hold' = [hold EXCEPT ![w] = Holding(k)] =>
              Orphans' \subseteq Orphans
<1>1. /\ row[k] \in Rows /\ row'[k] = Locked(row[k])
      /\ DOMAIN row' = DOMAIN row
      /\ \A j \in DOMAIN row : j # k => row'[j] = row[j]
  BY DEF Inductive, TypeOK, Claim
<1>2. row'[k].payload = row[k].payload
  BY <1>1, LockedRow
<1>3. \A j \in DOMAIN row : Holding(j)' = Holding(j)
  BY <1>1, <1>2 DEF Holding
<1>4. ASSUME NEW j \in Orphans', j # k, NEW v \in Writers, hold[v] = Holding(j)
      PROVE  hold[v] # None /\ (hold[w] = None => v # w)
  <2>1. j \in DOMAIN row /\ row[j].payload \in Deliveries
    BY <1>1 DEF Orphans, Inductive, TypeOK, Rows
  <2> QED
    BY <1>4, <2>1, NoneAssumption DEF Inductive, TypeOK, Keys, Holding
<1>5. ASSUME UNCHANGED hold
      PROVE  Orphans' \subseteq Orphans \cup {k}
  BY <1>1, <1>3, <1>5 DEF Orphans
<1>6. ASSUME hold[w] = None, hold' = [hold EXCEPT ![w] = Holding(k)]
      PROVE  Orphans' \subseteq Orphans
  <2>1. hold'[w] = Holding(k) /\ \A v \in Writers : v # w => hold'[v] = hold[v]
    BY <1>6 DEF Inductive, TypeOK
  <2>2. k \notin Orphans'
    BY <1>1, <1>3, <2>1 DEF Orphans
  <2>3. ASSUME NEW j \in Orphans'
        PROVE  j \in Orphans
    <3>1. j \in DOMAIN row /\ j # k /\ row[j].status = "processing"
      BY <1>1, <2>2, <2>3 DEF Orphans
    <3>2. \A v \in Writers : hold'[v] # Holding(j)
      BY <1>1, <1>3, <2>3, <3>1 DEF Orphans
    <3>3. \A v \in Writers : hold[v] # Holding(j)
      BY <1>4, <1>6, <2>1, <2>3, <3>1, <3>2
    <3> QED
      BY <3>1, <3>3 DEF Orphans
  <2> QED
    BY <2>3
<1> QED
  BY <1>5, <1>6

\* A writer that lets go of its row leaves at most this one behind; if it marked
\* the row done, none.
LEMMA ReleaseOrphans ==
  ASSUME Inductive, NEW w \in Writers, hold' = [hold EXCEPT ![w] = None]
  PROVE  /\ UNCHANGED row => \E k : Orphans' \subseteq Orphans \cup {k}
         /\ hold[w] # None /\ SetDone(hold[w].key) => Orphans' \subseteq Orphans
<1>1. hold'[w] = None /\ \A v \in Writers : v # w => hold'[v] = hold[v]
  BY DEF Inductive, TypeOK
<1>2. \A k \in DOMAIN row : hold[w] = Holding(k) => k = hold[w].key
  BY DEF Holding
<1>3. ASSUME UNCHANGED row
      PROVE  \E k : Orphans' \subseteq Orphans \cup {k}
  <2>1. \A k \in DOMAIN row : Holding(k)' = Holding(k)
    BY <1>3 DEF Holding
  <2>2. Orphans' \subseteq Orphans \cup {hold[w].key}
    BY <1>1, <1>2, <1>3, <2>1 DEF Orphans
  <2> QED
    BY <2>2
<1>4. ASSUME hold[w] # None, SetDone(hold[w].key)
      PROVE  Orphans' \subseteq Orphans
  <2>1. PICK k \in DOMAIN row : k = hold[w].key
    BY <1>4 DEF Inductive, TypeOK
  <2>2. /\ DOMAIN row' = DOMAIN row
        /\ row'[k].status = "done"
        /\ \A j \in DOMAIN row : j # k => row'[j] = row[j]
    BY <1>4, <2>1 DEF Inductive, TypeOK, Rows, SetDone
  <2>3. \A j \in DOMAIN row : j # k => Holding(j)' = Holding(j)
    BY <2>2 DEF Holding
  <2> QED
    BY <1>1, <1>2, <1>4, <2>1, <2>2, <2>3 DEF Orphans
<1> QED
  BY <1>3, <1>4

\* An upsert queues its row, so it makes no orphan.
LEMMA UpsertOrphans ==
  ASSUME NEW d \in Deliveries, NEW t, Upsert(d, t), UNCHANGED hold
  PROVE  Orphans' \subseteq Orphans
<1>1. PICK key : key = req[d].key
  OBVIOUS
<1>2. /\ DOMAIN row' = DOMAIN row \cup {key}
      /\ \A k \in DOMAIN row : k # key => row'[k] = row[k]
      /\ row'[key].status = "queued"
  BY <1>1 DEF Upsert
<1>3. \A k \in DOMAIN row : k # key => Holding(k)' = Holding(k)
  BY <1>2 DEF Holding
<1> QED
  BY <1>2, <1>3 DEF Orphans

\* A step that leaves the table and the writers' rows alone.
LEMMA QuietOrphans ==
  ASSUME UNCHANGED <<row, hold>>
  PROVE  Orphans' = Orphans
BY DEF Orphans, Holding

\* Rows that nobody works on come from faults alone: no more of them are stuck
\* in processing than answers were lost, markDone calls failed and writers died.
THEOREM StuckRowsComeFromFaults == Spec => []OrphanBound
<1>1. Init => OrphansCounted
  <2>1. Init => Orphans = {} /\ faults = 0
    BY DEF Init, Orphans
  <2> QED
    BY <2>1, FS_EmptySet DEF OrphansCounted
<1>2. Inductive /\ Inductive' /\ OrphansCounted /\ [Next]_vars => OrphansCounted'
  <2> SUFFICES ASSUME Inductive, Inductive', OrphansCounted, [Next]_vars
               PROVE  OrphansCounted'
    OBVIOUS
  <2> DEFINE OneMore == /\ faults' = faults + 1
                        /\ \E k : Orphans' \subseteq Orphans \cup {k}
             NoneMore == Orphans' \subseteq Orphans /\ faults <= faults'
  <2>1. faults \in Nat /\ faults' \in Nat
    BY DEF Inductive, TypeOK
  <2>2. ASSUME NEW kind, Fault(kind)
        PROVE  faults' = faults + 1 /\ faults <= faults'
    BY <2>1, <2>2 DEF Fault
  <2>3. faults <= faults
    BY <2>1
  <2>4. ASSUME NEW d \in Deliveries, Receive(d) \/ Enqueue(d) \/ EnqueueFails(d)
        PROVE  NoneMore
    BY <2>2, <2>3, <2>4, UpsertOrphans, QuietOrphans
       DEF Receive, Enqueue, EnqueueFails
  <2>5. ASSUME NEW w \in Writers, Lock(w)
        PROVE  NoneMore
    BY <2>3, <2>5, ClaimOrphans, QuietOrphans DEF Lock, NextOf
  <2>6. ASSUME NEW w \in Writers, LockFails(w)
        PROVE  NoneMore \/ OneMore
    BY <2>2, <2>6, ClaimOrphans, QuietOrphans DEF LockFails
  <2>7. ASSUME NEW w \in Writers, MarkDone(w)
        PROVE  NoneMore
    BY <2>3, <2>7, ReleaseOrphans DEF MarkDone
  <2>8. ASSUME NEW w \in Writers, MarkDoneFails(w)
        PROVE  NoneMore \/ OneMore
    BY <2>2, <2>8, ReleaseOrphans DEF MarkDoneFails
  <2>9. ASSUME NEW w \in Writers, Crash(w)
        PROVE  OneMore
    BY <2>2, <2>9, ReleaseOrphans DEF Crash
  <2>10. ASSUME NEW w \in Writers, Select(w)
         PROVE  NoneMore
    BY <2>3, <2>10, QuietOrphans DEF Select
  <2>11. ASSUME Tick \/ UNCHANGED vars
         PROVE  NoneMore
    BY <2>3, <2>11, QuietOrphans DEF Tick, vars
  <2>12. NoneMore \/ OneMore
    BY <2>4, <2>5, <2>6, <2>7, <2>8, <2>9, <2>10, <2>11 DEF Next, Ingest, Write
  <2> QED
    BY <2>1, <2>12, OrphansAfter
<1>3. OrphansCounted => OrphanBound
  BY DEF OrphansCounted, OrphanBound
<1> QED
  BY <1>1, <1>2, <1>3, InductiveInvariant, PTL DEF Spec

-----------------------------------------------------------------------------
(* The batches of the writers.                                             *)

\* Finitely many rows, with ids of their own, and batches within the limit.
OrderKept ==
  /\ IsFiniteSet(DOMAIN row)
  /\ IdsAreUnique
  /\ \A w \in Writers : IsFiniteSet(batch[w]) /\ Cardinality(batch[w]) <= BatchSize

\* A step that keeps the ids of all rows and adds none.
LEMMA SameIds ==
  ASSUME OrderKept, DOMAIN row' = DOMAIN row, lastId' = lastId,
         \A k \in DOMAIN row : row'[k].id = row[k].id
  PROVE  (IsFiniteSet(DOMAIN row) /\ IdsAreUnique)'
BY DEF OrderKept, IdsAreUnique

\* The upsert gives a fresh row an id that no row has yet.
LEMMA UpsertIds ==
  ASSUME Inductive, OrderKept, NEW d \in Deliveries, NEW t, Upsert(d, t)
  PROVE  (IsFiniteSet(DOMAIN row) /\ IdsAreUnique)'
<1> DEFINE key == req[d].key
<1>1. DOMAIN row' = DOMAIN row \cup {key} /\ lastId' = lastId + 1
  BY DEF Upsert
<1>2. IsFiniteSet(DOMAIN row')
  BY <1>1, FS_AddElement DEF OrderKept
<1>3. \A k \in DOMAIN row : row'[k].id = row[k].id
  BY DEF Upsert
<1>4. key \notin DOMAIN row => row'[key].id = lastId + 1
  BY DEF Upsert
<1>5. lastId \in Nat /\ \A k \in DOMAIN row : row[k].id \in Nat
  BY DEF Inductive, TypeOK, Rows
<1> QED
  BY <1>1, <1>2, <1>3, <1>4, <1>5 DEF OrderKept, IdsAreUnique

\* The table keeps its ids in every step.
LEMMA IdsStep ==
  ASSUME Inductive, OrderKept, [Next]_vars
  PROVE  (IsFiniteSet(DOMAIN row) /\ IdsAreUnique)'
<1> DEFINE Goal == (IsFiniteSet(DOMAIN row) /\ IdsAreUnique)'
<1>1. row \in [DOMAIN row -> Rows]
  BY DEF Inductive, TypeOK
<1>2. ASSUME UNCHANGED <<row, lastId>> PROVE Goal
  BY <1>2, SameIds
<1>3. ASSUME NEW k \in DOMAIN row, Claim(k), UNCHANGED lastId PROVE Goal
  <2>1. Locked(row[k]).id = row[k].id
    BY <1>1, Zenon DEF Locked, Rows
  <2> QED
    BY <1>1, <1>3, <2>1, SameIds DEF Claim
<1>4. ASSUME NEW k \in DOMAIN row, SetDone(k), UNCHANGED lastId PROVE Goal
  <2>1. \A j \in DOMAIN row : row'[j].id = row[j].id
    BY <1>1, <1>4 DEF SetDone, Rows
  <2> QED
    BY <1>4, <2>1, SameIds DEF SetDone
<1>5. ASSUME NEW d \in Deliveries, Receive(d) \/ Enqueue(d) \/ EnqueueFails(d)
      PROVE  Goal
  BY <1>2, <1>5, UpsertIds DEF Receive, Enqueue, EnqueueFails
<1>6. ASSUME NEW w \in Writers, Lock(w) \/ LockFails(w)
      PROVE  Goal
  BY <1>2, <1>3, <1>6 DEF Lock, LockFails
<1>7. ASSUME NEW w \in Writers, MarkDone(w) \/ MarkDoneFails(w)
      PROVE  Goal
  <2>1. hold[w].key \in DOMAIN row
    BY <1>7 DEF Inductive, TypeOK, MarkDone, MarkDoneFails
  <2> QED
    BY <1>2, <1>4, <1>7, <2>1 DEF MarkDone, MarkDoneFails
<1>8. ASSUME NEW w \in Writers, Select(w) \/ Crash(w)
      PROVE  Goal
  BY <1>2, <1>8 DEF Select, Crash
<1>9. ASSUME Tick \/ UNCHANGED vars
      PROVE  Goal
  BY <1>2, <1>9 DEF Tick, vars
<1> HIDE DEF Goal
<1>10. Goal
  BY <1>5, <1>6, <1>7, <1>8, <1>9 DEF Next, Ingest, Write
<1> QED
  BY <1>10 DEF Goal

\* What the poll of runOnce selects.
LEMMA SelectTakesOldest ==
  ASSUME Inductive, OrderKept, NEW w \in Writers, Select(w)
  PROVE  /\ IsFiniteSet(batch'[w]) /\ Cardinality(batch'[w]) \in 0 .. BatchSize
         /\ batch'[w] # Ready => Cardinality(batch'[w]) = BatchSize
         /\ \A k \in batch'[w], j \in Ready \ batch'[w] : row[k].id < row[j].id
<1> DEFINE id == [k \in DOMAIN row |-> row[k].id]
<1>1. Ready \in SUBSET DOMAIN row
  BY DEF Ready
<1>2. batch'[w] = FirstRows(Ready, id, BatchSize)
  <2> DEFINE S == {k \in Ready : Cardinality({j \in Ready : row[j].id < row[k].id})
                                   < BatchSize}
  <2>1. batch' = [batch EXCEPT ![w] = S]
    BY DEF Select
  <2>2. ASSUME NEW k \in Ready
        PROVE  {j \in Ready : row[j].id < row[k].id} = {j \in Ready : id[j] < id[k]}
    BY <1>1
  <2>3. S = FirstRows(Ready, id, BatchSize)
    BY <2>2 DEF FirstRows
  <2> HIDE DEF S
  <2> QED
    BY <2>1, <2>3 DEF Inductive, TypeOK
<1>3. /\ IsFiniteSet(Ready) /\ BatchSize \in Nat
      /\ \A k \in Ready : id[k] \in Int
      /\ \A j, k \in Ready : id[j] = id[k] => j = k
  <2>1. IsFiniteSet(Ready)
    BY <1>1, FS_Subset DEF OrderKept
  <2>2. \A k \in DOMAIN row : row[k].id \in Nat
    BY DEF Inductive, TypeOK, Rows
  <2>3. \A j, k \in DOMAIN row : row[j].id = row[k].id => j = k
    BY DEF OrderKept, IdsAreUnique
  <2> QED
    BY <1>1, <2>1, <2>2, <2>3, ConstantsAssumption
<1> HIDE DEF id
<1>4. /\ IsFiniteSet(batch'[w])
      /\ Cardinality(batch'[w]) \in 0 .. BatchSize
      /\ batch'[w] # Ready => Cardinality(batch'[w]) = BatchSize
      /\ \A k \in batch'[w], j \in Ready \ batch'[w] : id[k] < id[j]
  BY <1>2, <1>3, FirstOfMany
<1>5. batch'[w] \in SUBSET Ready
  BY <1>2 DEF FirstRows
<1> QED
  BY <1>1, <1>4, <1>5 DEF id

\* A step takes rows out of the batches, but for the poll.
LEMMA BatchesShrink ==
  ASSUME Inductive, [Next]_vars, NEW w \in Writers
  PROVE  batch'[w] \in SUBSET batch[w] \/ Select(w)
<1> DEFINE Goal == batch'[w] \in SUBSET batch[w] \/ Select(w)
<1>1. batch \in [Writers -> SUBSET DOMAIN row]
  BY DEF Inductive, TypeOK
<1>2. ASSUME UNCHANGED batch PROVE Goal
  BY <1>2
<1>3. ASSUME NEW v \in Writers, Select(v) PROVE Goal
  BY <1>1, <1>3 DEF Select
<1>4. ASSUME NEW v \in Writers, Lock(v) \/ LockFails(v) PROVE Goal
  <2>1. PICK k : batch' = [batch EXCEPT ![v] = @ \ {k}]
    BY <1>4 DEF Lock, LockFails
  <2> QED
    BY <1>1, <2>1
<1>5. ASSUME NEW v \in Writers, Crash(v) PROVE Goal
  BY <1>1, <1>5 DEF Crash
<1>6. ASSUME NEW v \in Writers, MarkDone(v) \/ MarkDoneFails(v) PROVE Goal
  BY <1>2, <1>6 DEF MarkDone, MarkDoneFails
<1>7. ASSUME Tick \/ Ingest \/ UNCHANGED vars PROVE Goal
  BY <1>2, <1>7 DEF Tick, Ingest, Receive, Enqueue, EnqueueFails, vars
<1> HIDE DEF Goal
<1>8. Goal
  BY <1>3, <1>4, <1>5, <1>6, <1>7 DEF Next, Write
<1> QED
  BY <1>8 DEF Goal

\* Ids and batches stay in order.
LEMMA OrderStep == Inductive /\ OrderKept /\ [Next]_vars => OrderKept'
<1> SUFFICES ASSUME Inductive, OrderKept, [Next]_vars PROVE OrderKept'
  OBVIOUS
<1>1. ASSUME NEW w \in Writers
      PROVE  IsFiniteSet(batch'[w]) /\ Cardinality(batch'[w]) <= BatchSize
  <2>1. CASE Select(w)
    BY <2>1, SelectTakesOldest, ConstantsAssumption
  <2>2. CASE batch'[w] \in SUBSET batch[w]
    <3>1. /\ IsFiniteSet(batch'[w]) /\ IsFiniteSet(batch[w])
          /\ Cardinality(batch'[w]) <= Cardinality(batch[w])
          /\ Cardinality(batch[w]) <= BatchSize
      BY <2>2, FS_Subset DEF OrderKept
    <3>2. Cardinality(batch'[w]) \in Nat /\ Cardinality(batch[w]) \in Nat
      BY <3>1, FS_CardinalityType
    <3> QED
      BY <3>1, <3>2, ConstantsAssumption
  <2> QED
    BY <2>1, <2>2, BatchesShrink
<1> QED
  BY <1>1, IdsStep DEF OrderKept

LEMMA OrderInvariant == Spec => []OrderKept
<1>1. Init => OrderKept
  BY FS_EmptySet, ConstantsAssumption DEF Init, OrderKept, IdsAreUnique
<1> QED
  BY <1>1, OrderStep, InductiveInvariant, PTL DEF Spec

\* The database never has two rows with one id, redelivered rows included, and
\* no poll of runOnce gives a writer more rows than BATCH_SIZE.
THEOREM BatchesAreBounded == Spec => [](IdsAreUnique /\ BatchesFit)
<1>1. OrderKept => IdsAreUnique /\ BatchesFit
  BY DEF OrderKept, BatchesFit
<1> QED
  BY <1>1, OrderInvariant, PTL

\* ORDER BY id LIMIT BATCH_SIZE in runOnce gives a writer the oldest ready rows,
\* as many as fit: a ready row that is left out is younger than every row of a
\* full batch.
THEOREM OldestAreFirst == Spec => OldestFirst
<1>1. Inductive /\ OrderKept /\ [Next]_vars =>
        \A w \in Writers : Select(w) =>
          /\ \A k \in batch'[w], j \in Ready \ batch'[w] : row[k].id < row[j].id
          /\ batch'[w] # Ready => Cardinality(batch'[w]) = BatchSize
  BY SelectTakesOldest
<1> QED
  BY <1>1, InductiveInvariant, OrderInvariant, PTL DEF Spec, OldestFirst
=============================================================================
