------------------------ MODULE HeartbeatStoreProofs ------------------------
(***************************************************************************)
(* Proofs about HeartbeatStore, for every number of heartbeats, replicas,  *)
(* serial numbers and faults.                                              *)
(***************************************************************************)
EXTENDS HeartbeatStore, RankTheorems, FiniteSetTheorems, TLAPS

\* The start of the system satisfies the inductive invariant.
LEMMA InitInductive == Init => Inductive
<1> SUFFICES ASSUME Init PROVE Inductive
  OBVIOUS
<1>1. DOMAIN history = {}
  BY DEF Init
<1>2. TypeOK
  <2>1. beat \in [Beats -> BeatRecords]
    BY DEF Init, BeatRecords, Phases, Givens
  <2>2. page \in [phase : PagePhases, sn : SNs \cup {None},
                  current : Beats \cup {None}, rows : SUBSET Beats,
                  settled : SUBSET Beats]
    BY DEF Init, EmptyPage, PagePhases
  <2>3. /\ status \in [SNs -> Beats \cup {None}]
        /\ gauge \in [Pods -> [SNs -> Beats \cup {None}]]
        /\ counter \in [Pods -> [SNs -> Nat]]
    BY DEF Init
  <2>4. /\ now \in Nat /\ faults \in Nat /\ forgotten \subseteq Beats
        /\ before \in [Beats -> SUBSET Beats]
        /\ DOMAIN history \subseteq Keys
        /\ history \in [DOMAIN history -> Beats]
    BY <1>1 DEF Init
  <2> QED
    BY <2>1, <2>2, <2>3, <2>4 DEF TypeOK
<1>3. \A b \in Beats : beat[b].phase = "new" /\ before[b] = {}
  BY DEF Init
<1>4. ReceivedHavePlace /\ UpsertedHasStatus /\ BeforeIsAnswered /\ RealTimeOrder
      /\ GaugeRealTimeOrder /\ AcknowledgedIsRecorded
  BY <1>3 DEF ReceivedHavePlace, UpsertedHasStatus, BeforeIsAnswered, InFlight,
              RealTimeOrder, GaugeRealTimeOrder, AcknowledgedIsRecorded
<1>5. HistoryHasStatus
  BY <1>1 DEF HistoryHasStatus
<1> QED
  BY <1>2, <1>4, <1>5 DEF Inductive

\* What a handler's progress does to the beats.
LEMMA AdvanceFacts ==
  ASSUME beat \in [Beats -> BeatRecords],
         NEW b \in Beats, NEW phase \in Phases, Advance(b, phase)
  PROVE  /\ beat' \in [Beats -> BeatRecords]
         /\ beat'[b].phase = phase
         /\ \A c \in Beats : c # b => beat'[c] = beat[c]
         /\ \A c \in Beats : /\ beat'[c].sn = beat[c].sn
                             /\ beat'[c].pod = beat[c].pod
                             /\ beat'[c].given = beat[c].given
                             /\ beat'[c].at = beat[c].at
<1> DEFINE r == [beat[b] EXCEPT !.phase = phase]
<1>1. beat' = [beat EXCEPT ![b] = r]
  BY Zenon DEF Advance
<1>2. beat[b] \in BeatRecords
  OBVIOUS
<1>3. /\ r \in BeatRecords
      /\ r.phase = phase
      /\ r.sn = beat[b].sn
      /\ r.pod = beat[b].pod
      /\ r.given = beat[b].given
      /\ r.at = beat[b].at
  BY <1>2, Zenon DEF BeatRecords
<1> HIDE DEF r
<1> QED
  BY <1>1, <1>3

\* A handler writes the snapshot and goes on or gives up.
LEMMA StatusInductive ==
  ASSUME Inductive,
         NEW b \in Beats, beat[b].phase = "metered",
         NEW phase \in {"upserted", "500"}, Advance(b, phase),
         WriteStatus(b) \/ (phase = "500" /\ UNCHANGED status),
         faults' \in Nat,
         UNCHANGED <<now, history, gauge, counter, page, before, forgotten>>
  PROVE  Inductive'
<1>1. /\ beat \in [Beats -> BeatRecords]
      /\ before \in [Beats -> SUBSET Beats]
      /\ beat[b].sn \in SNs
      /\ status \in [SNs -> Beats \cup {None}]
      /\ phase \in Phases
  BY DEF Inductive, TypeOK, ReceivedHavePlace, InFlight, Phases, Answered
<1>2. /\ beat' \in [Beats -> BeatRecords]
      /\ beat'[b].phase = phase
      /\ \A c \in Beats : c # b => beat'[c] = beat[c]
      /\ \A c \in Beats : /\ beat'[c].sn = beat[c].sn
                          /\ beat'[c].pod = beat[c].pod
                          /\ beat'[c].given = beat[c].given
                          /\ beat'[c].at = beat[c].at
  BY <1>1, AdvanceFacts
<1>3. /\ status' \in [SNs -> Beats \cup {None}]
      /\ \A s \in SNs : status'[s] \in {status[s], b}
      /\ phase = "upserted" => status'[beat[b].sn] = b
  BY <1>1 DEF WriteStatus
<1>4. \A c \in Beats : b \notin before[c]
  BY DEF Inductive, BeforeIsAnswered, Answered
<1>5. TypeOK'
  BY <1>2, <1>3 DEF Inductive, TypeOK
<1>6. ReceivedHavePlace' /\ BeforeIsAnswered'
  BY <1>1, <1>2, <1>4
  DEF Inductive, ReceivedHavePlace, BeforeIsAnswered, InFlight
<1>7. RealTimeOrder'
  <2>1. \A c \in Beats : beat'[c].phase \in {"upserted", "202"} =>
          beat'[c].sn \in SNs
    BY <1>6 DEF ReceivedHavePlace, InFlight
  <2> QED
    BY <1>2, <1>3, <1>4, <2>1 DEF Inductive, RealTimeOrder
<1>8. GaugeRealTimeOrder' /\ AcknowledgedIsRecorded'
  BY <1>2
  DEF Inductive, GaugeRealTimeOrder, AcknowledgedIsRecorded, HistoryKey
<1>9. HistoryHasStatus' /\ UpsertedHasStatus'
  <2>1. \A k \in DOMAIN history : k[1] \in SNs
    BY DEF Inductive, TypeOK, Keys
  <2>2. b # None
    BY HeartbeatAssumption
  <2>3. HistoryHasStatus'
    BY <1>3, <2>1, <2>2 DEF Inductive, HistoryHasStatus
  <2>4. \A c \in Beats : beat'[c].phase \in {"upserted", "202"} =>
          beat'[c].sn \in SNs
    BY <1>6 DEF ReceivedHavePlace, InFlight
  <2> QED
    BY <1>2, <1>3, <2>2, <2>3, <2>4 DEF Inductive, UpsertedHasStatus
<1> QED
  BY <1>5, <1>6, <1>7, <1>8, <1>9 DEF Inductive

\* A handler appends to the history or finds that it cannot, and answers.
LEMMA HistoryInductive ==
  ASSUME Inductive,
         NEW b \in Beats, beat[b].phase = "upserted",
         NEW phase \in {"202", "500"}, Advance(b, phase),
         \/ HistoryKey(b) \notin DOMAIN history /\ Append(b)
         \/ phase = "500" /\ UNCHANGED history,
         faults' \in Nat,
         UNCHANGED <<now, status, gauge, counter, page, before, forgotten>>
  PROVE  Inductive'
<1> DEFINE key == HistoryKey(b)
<1>1. /\ beat \in [Beats -> BeatRecords]
      /\ beat[b].sn \in SNs
      /\ beat[b].at \in Nat
      /\ history \in [DOMAIN history -> Beats]
      /\ DOMAIN history \subseteq Keys
      /\ phase \in Phases
  BY DEF Inductive, TypeOK, BeatRecords, ReceivedHavePlace, InFlight, Phases,
         Answered
<1>2. /\ beat' \in [Beats -> BeatRecords]
      /\ beat'[b].phase = phase
      /\ \A c \in Beats : c # b => beat'[c] = beat[c]
      /\ \A c \in Beats : /\ beat'[c].sn = beat[c].sn
                          /\ beat'[c].pod = beat[c].pod
                          /\ beat'[c].given = beat[c].given
                          /\ beat'[c].at = beat[c].at
  BY <1>1, AdvanceFacts
<1>3. key \in Keys /\ key[1] = beat[b].sn
  BY <1>1 DEF HistoryKey, Keys
<1>4. /\ history' \in [DOMAIN history' -> Beats]
      /\ DOMAIN history \subseteq DOMAIN history'
      /\ DOMAIN history' \subseteq DOMAIN history \cup {key}
      /\ \A k \in DOMAIN history : history'[k] = history[k]
      /\ phase = "202" => key \in DOMAIN history' /\ history'[key] = b
  BY <1>1 DEF Append
<1>5. TypeOK'
  BY <1>1, <1>2, <1>3, <1>4 DEF Inductive, TypeOK
<1>6. ReceivedHavePlace' /\ BeforeIsAnswered'
  BY <1>2 DEF Inductive, TypeOK, ReceivedHavePlace, BeforeIsAnswered, InFlight,
              Answered
<1>7. RealTimeOrder' /\ GaugeRealTimeOrder'
  BY <1>2 DEF Inductive, RealTimeOrder, GaugeRealTimeOrder
<1>8. AcknowledgedIsRecorded'
  BY <1>2, <1>4 DEF Inductive, AcknowledgedIsRecorded, HistoryKey
<1>9. UpsertedHasStatus' /\ HistoryHasStatus'
  <2>1. UpsertedHasStatus'
    BY <1>2 DEF Inductive, UpsertedHasStatus
  <2>2. status[beat[b].sn] # None
    BY DEF Inductive, UpsertedHasStatus
  <2> QED
    BY <1>3, <1>4, <2>1, <2>2 DEF Inductive, HistoryHasStatus
<1> QED
  BY <1>5, <1>6, <1>7, <1>8, <1>9 DEF Inductive

\* A beat is received: it is refused, or stamped with the beats before it.
LEMMA ReceiveInductive ==
  ASSUME Inductive, NEW b \in Beats, Receive(b)
  PROVE  Inductive'
<1>1. /\ beat \in [Beats -> BeatRecords]
      /\ before \in [Beats -> SUBSET Beats]
      /\ beat[b].phase = "new"
      /\ now \in Nat
  BY DEF Inductive, TypeOK, Receive
<1>2. UNCHANGED <<now, status, history, gauge, counter, page, faults, forgotten>>
  BY DEF Receive
<1>3. \A c \in Beats : b \notin before[c]
  BY <1>1 DEF Inductive, BeforeIsAnswered, Answered
<1>4. CASE Advance(b, "400") /\ UNCHANGED before
  <2>1. "400" \in Phases
    BY DEF Phases, Answered
  <2>2. /\ beat' \in [Beats -> BeatRecords]
        /\ beat'[b].phase = "400"
        /\ \A c \in Beats : c # b => beat'[c] = beat[c]
    BY <1>1, <1>4, <2>1, AdvanceFacts
  <2>3. TypeOK'
    BY <1>2, <1>4, <2>2 DEF Inductive, TypeOK
  <2>4. ReceivedHavePlace' /\ UpsertedHasStatus' /\ BeforeIsAnswered'
    BY <1>1, <1>2, <1>4, <2>2
    DEF Inductive, ReceivedHavePlace, UpsertedHasStatus, BeforeIsAnswered,
        InFlight, Answered
  <2>5. RealTimeOrder' /\ GaugeRealTimeOrder' /\ AcknowledgedIsRecorded'
    BY <1>2, <1>4, <2>2
    DEF Inductive, RealTimeOrder, GaugeRealTimeOrder, AcknowledgedIsRecorded,
        HistoryKey
  <2>6. HistoryHasStatus'
    BY <1>2 DEF Inductive, HistoryHasStatus
  <2> QED
    BY <2>3, <2>4, <2>5, <2>6 DEF Inductive
<1>5. ASSUME NEW s \in SNs, NEW p \in Pods, NEW c \in Contents,
             beat' = [beat EXCEPT ![b] =
                        [phase |-> "stamped", sn |-> s, pod |-> p,
                         given |-> c.given, fits |-> c.fits, at |-> now]],
             before' = [before EXCEPT ![b] = AnsweredOf(s)]
      PROVE  Inductive'
  <2> DEFINE r == [phase |-> "stamped", sn |-> s, pod |-> p,
                   given |-> c.given, fits |-> c.fits, at |-> now]
  <2>1. r \in BeatRecords
    <3>1. c.given \in Givens /\ c.fits \in BOOLEAN
      BY HeartbeatAssumption
    <3>2. "stamped" \in Phases
      BY DEF Phases, InFlight
    <3> QED
      BY <1>1, <3>1, <3>2 DEF BeatRecords
  <2>2. r.phase = "stamped" /\ r.sn = s /\ r.pod = p
    OBVIOUS
  <2> HIDE DEF r
  <2>3. /\ beat' \in [Beats -> BeatRecords]
        /\ beat'[b] = r
        /\ \A d \in Beats : d # b => beat'[d] = beat[d]
    BY <1>1, <1>5, <2>1 DEF r
  <2>4. /\ before' \in [Beats -> SUBSET Beats]
        /\ before'[b] = AnsweredOf(s)
        /\ \A d \in Beats : d # b => before'[d] = before[d]
    BY <1>1, <1>5 DEF AnsweredOf
  <2>5. TypeOK'
    BY <1>2, <2>3, <2>4 DEF Inductive, TypeOK
  <2>6. ReceivedHavePlace' /\ UpsertedHasStatus'
    BY <1>2, <2>2, <2>3
    DEF Inductive, ReceivedHavePlace, UpsertedHasStatus, InFlight
  <2>7. BeforeIsAnswered'
    <3>1. \A d \in AnsweredOf(s) : d # b /\ beat[d].phase \in Answered
      BY <1>1 DEF AnsweredOf, Answered
    <3> QED
      BY <1>3, <2>3, <2>4, <3>1 DEF Inductive, BeforeIsAnswered, TypeOK, AnsweredOf
  <2>8. RealTimeOrder' /\ GaugeRealTimeOrder' /\ AcknowledgedIsRecorded'
    BY <1>2, <2>2, <2>3, <2>4
    DEF Inductive, RealTimeOrder, GaugeRealTimeOrder, AcknowledgedIsRecorded,
        HistoryKey
  <2>9. HistoryHasStatus'
    BY <1>2 DEF Inductive, HistoryHasStatus
  <2> QED
    BY <2>5, <2>6, <2>7, <2>8, <2>9 DEF Inductive
<1> QED
  BY <1>4, <1>5 DEF Receive

\* The metrics of a pod are set.
LEMMA ObserveInductive ==
  ASSUME Inductive, NEW b \in Beats, Observe(b)
  PROVE  Inductive'
<1> DEFINE p == beat[b].pod
           s == beat[b].sn
<1>1. /\ beat \in [Beats -> BeatRecords]
      /\ gauge \in [Pods -> [SNs -> Beats \cup {None}]]
      /\ counter \in [Pods -> [SNs -> Nat]]
      /\ beat[b].phase = "stamped"
      /\ p \in Pods /\ s \in SNs
      /\ "metered" \in Phases
  BY DEF Inductive, TypeOK, Observe, ReceivedHavePlace, InFlight, Phases
<1>2. UNCHANGED <<now, status, history, page, before, faults, forgotten>>
  BY DEF Observe
<1>3. /\ beat' \in [Beats -> BeatRecords]
      /\ beat'[b].phase = "metered"
      /\ \A c \in Beats : c # b => beat'[c] = beat[c]
      /\ \A c \in Beats : /\ beat'[c].sn = beat[c].sn
                          /\ beat'[c].pod = beat[c].pod
                          /\ beat'[c].given = beat[c].given
                          /\ beat'[c].at = beat[c].at
  <2>1. Advance(b, "metered")
    BY DEF Observe
  <2> QED
    BY <1>1, <2>1, AdvanceFacts
<1>4. /\ \A c \in Beats : b \notin before[c]
      /\ before \in [Beats -> SUBSET Beats]
  BY <1>1 DEF Inductive, TypeOK, BeforeIsAnswered, Answered
<1>5. /\ gauge' \in [Pods -> [SNs -> Beats \cup {None}]]
      /\ \A q \in Pods, t \in SNs : gauge'[q][t] \in {gauge[q][t], b}
      /\ beat[b].given # "none" => gauge'[p][s] = b
  BY <1>1 DEF Observe
<1>6. counter' \in [Pods -> [SNs -> Nat]]
  <2>1. counter' = [counter EXCEPT ![p] = [counter[p] EXCEPT ![s] = counter[p][s] + 1]]
    BY Zenon DEF Observe
  <2>2. counter[p] \in [SNs -> Nat]
    BY <1>1
  <2>3. [counter[p] EXCEPT ![s] = counter[p][s] + 1] \in [SNs -> Nat]
    BY <1>1, <2>2
  <2> QED
    BY <1>1, <2>1, <2>3, Zenon
<1>7. TypeOK'
  BY <1>2, <1>3, <1>5, <1>6 DEF Inductive, TypeOK
<1>8. ReceivedHavePlace' /\ UpsertedHasStatus' /\ BeforeIsAnswered'
  BY <1>1, <1>2, <1>3, <1>4
  DEF Inductive, ReceivedHavePlace, UpsertedHasStatus, BeforeIsAnswered, InFlight
<1>9. RealTimeOrder' /\ AcknowledgedIsRecorded' /\ HistoryHasStatus'
  BY <1>2, <1>3
  DEF Inductive, RealTimeOrder, AcknowledgedIsRecorded, HistoryHasStatus,
      HistoryKey
<1>10. GaugeRealTimeOrder'
  <2>1. ASSUME NEW c \in Beats,
               beat'[c].phase \in {"metered", "upserted", "202", "500"},
               beat'[c].given # "none"
        PROVE  gauge'[beat'[c].pod][beat'[c].sn] \notin before'[c]
    <3>1. beat[c].pod \in Pods /\ beat[c].sn \in SNs
      BY <1>3, <1>8, <2>1 DEF ReceivedHavePlace, InFlight
    <3>2. CASE c = b
      BY <1>2, <1>3, <1>4, <1>5, <2>1, <3>2
    <3>3. CASE c # b
      BY <1>2, <1>3, <1>4, <1>5, <2>1, <3>1, <3>3 DEF Inductive, GaugeRealTimeOrder
    <3> QED
      BY <3>2, <3>3
  <2> QED
    BY <2>1 DEF GaugeRealTimeOrder
<1> QED
  BY <1>7, <1>8, <1>9, <1>10 DEF Inductive

\* A pod starts again.
LEMMA RestartInductive ==
  ASSUME Inductive, NEW p \in Pods, Restart(p)
  PROVE  Inductive'
<1>1. /\ beat \in [Beats -> BeatRecords]
      /\ before \in [Beats -> SUBSET Beats]
      /\ gauge \in [Pods -> [SNs -> Beats \cup {None}]]
      /\ counter \in [Pods -> [SNs -> Nat]]
      /\ faults \in Nat /\ forgotten \subseteq Beats
  BY DEF Inductive, TypeOK
<1>2. /\ faults' \in Nat /\ forgotten' \subseteq Beats
      /\ UNCHANGED <<now, status, history, page, before>>
  BY <1>1 DEF Restart, Fault, AnsweredBy
<1>3. \A b \in Beats :
        /\ [beat[b] EXCEPT !.phase = "lost"] \in BeatRecords
        /\ [beat[b] EXCEPT !.phase = "lost"].phase = "lost"
        /\ [beat[b] EXCEPT !.phase = "lost"].sn = beat[b].sn
        /\ [beat[b] EXCEPT !.phase = "lost"].pod = beat[b].pod
  <2>1. "lost" \in Phases
    BY DEF Phases
  <2>2. \A b \in Beats : beat[b] \in BeatRecords
    BY <1>1
  <2> QED
    BY <2>1, <2>2, Zenon DEF BeatRecords
<1>4. /\ beat' \in [Beats -> BeatRecords]
      /\ \A b \in Beats :
           \/ beat'[b] = beat[b]
           \/ /\ beat[b].phase \in InFlight
              /\ beat'[b].phase = "lost"
              /\ beat'[b].sn = beat[b].sn
              /\ beat'[b].pod = beat[b].pod
  BY <1>1, <1>3, Zenon DEF Restart
<1>5. /\ gauge' \in [Pods -> [SNs -> Beats \cup {None}]]
      /\ \A q \in Pods, t \in SNs : gauge'[q][t] \in {gauge[q][t], None}
      /\ counter' \in [Pods -> [SNs -> Nat]]
  BY <1>1 DEF Restart
<1>6. TypeOK'
  BY <1>2, <1>4, <1>5 DEF Inductive, TypeOK
<1>7. ReceivedHavePlace' /\ UpsertedHasStatus' /\ BeforeIsAnswered'
  BY <1>1, <1>2, <1>4
  DEF Inductive, ReceivedHavePlace, UpsertedHasStatus, BeforeIsAnswered,
      InFlight, Answered
<1>8. RealTimeOrder' /\ AcknowledgedIsRecorded' /\ HistoryHasStatus'
  BY <1>2, <1>4
  DEF Inductive, RealTimeOrder, AcknowledgedIsRecorded, HistoryHasStatus,
      HistoryKey
<1>9. GaugeRealTimeOrder'
  <2>1. ASSUME NEW b \in Beats,
               beat'[b].phase \in {"metered", "upserted", "202", "500"},
               beat'[b].given # "none"
        PROVE  gauge'[beat'[b].pod][beat'[b].sn] \notin before'[b]
    <3>1. beat'[b] = beat[b] /\ beat[b].pod \in Pods /\ beat[b].sn \in SNs
      BY <1>4, <2>1 DEF Inductive, ReceivedHavePlace, InFlight
    <3>2. None \notin before[b]
      BY <1>1, HeartbeatAssumption
    <3>3. gauge[beat[b].pod][beat[b].sn] \notin before[b]
      BY <2>1, <3>1 DEF Inductive, GaugeRealTimeOrder
    <3>4. gauge'[beat[b].pod][beat[b].sn] \in {gauge[beat[b].pod][beat[b].sn], None}
      BY <1>5, <3>1
    <3>5. before' = before
      BY <1>2
    <3> QED
      BY <3>1, <3>2, <3>3, <3>4, <3>5
  <2> QED
    BY <2>1 DEF GaugeRealTimeOrder
<1> QED
  BY <1>6, <1>7, <1>8, <1>9 DEF Inductive

\* Steps that leave the beats and the tables alone.
LEMMA QuietInductive ==
  ASSUME Inductive,
         now' \in Nat,
         page' \in [phase : PagePhases, sn : SNs \cup {None},
                    current : Beats \cup {None}, rows : SUBSET Beats,
                    settled : SUBSET Beats],
         UNCHANGED <<beat, status, history, gauge, counter, before, faults,
                     forgotten>>
  PROVE  Inductive'
BY DEF Inductive, TypeOK, ReceivedHavePlace, UpsertedHasStatus,
       BeforeIsAnswered, RealTimeOrder, GaugeRealTimeOrder,
       AcknowledgedIsRecorded, HistoryHasStatus, HistoryKey

\* What the two queries of the admin page show is a page.
LEMMA PageTypes ==
  ASSUME Inductive, ReadHistory \/ \E s \in SNs : ReadCurrent(s)
  PROVE  page' \in [phase : PagePhases, sn : SNs \cup {None},
                    current : Beats \cup {None}, rows : SUBSET Beats,
                    settled : SUBSET Beats]
<1> DEFINE Pages == [phase : PagePhases, sn : SNs \cup {None},
                     current : Beats \cup {None}, rows : SUBSET Beats,
                     settled : SUBSET Beats]
<1>1. /\ EmptyPage \in Pages /\ page \in Pages
      /\ status \in [SNs -> Beats \cup {None}]
      /\ history \in [DOMAIN history -> Beats]
      /\ {"current", "shown", "500"} \subseteq PagePhases
  BY DEF Inductive, TypeOK, EmptyPage, PagePhases
<1>2. ASSUME NEW s \in SNs \cup {None}
      PROVE  [EmptyPage EXCEPT !.phase = "500", !.sn = s] \in Pages
  BY <1>1, <1>2 DEF EmptyPage
<1>3. ASSUME NEW s \in SNs, ReadCurrent(s)
      PROVE  page' \in Pages
  <2> DEFINE settled == {b \in Beats : beat[b].sn = s /\ beat[b].phase = "202"}
  <2>1. [EmptyPage EXCEPT !.phase = "current", !.sn = s,
                          !.current = status[s], !.settled = settled] \in Pages
    BY <1>1 DEF EmptyPage
  <2> HIDE DEF Pages
  <2> QED
    BY <1>2, <1>3, <2>1 DEF ReadCurrent
<1>4. ASSUME ReadHistory
      PROVE  page' \in Pages
  <2> DEFINE shown == {history[k] : k \in NewestRows(page.sn)}
  <2>1. shown \subseteq Beats
    BY <1>1, Zenon DEF NewestRows, RowsOf
  <2>2. page.sn \in SNs \cup {None}
    BY <1>1
  <2>3. [page EXCEPT !.phase = "shown", !.rows = shown] \in Pages
    <3> HIDE DEF shown
    <3> QED
      BY <1>1, <2>1, Zenon
  <2>4. page' = [EmptyPage EXCEPT !.phase = "500", !.sn = page.sn]
        \/ page' = [page EXCEPT !.phase = "shown", !.rows = shown]
    BY <1>4, Zenon DEF ReadHistory
  <2> HIDE DEF Pages, shown
  <2> QED
    BY <1>2, <2>2, <2>3, <2>4
<1> QED
  BY <1>3, <1>4

\* Every step keeps the inductive invariant.
LEMMA NextInductive == Inductive /\ [Next]_vars => Inductive'
<1> SUFFICES ASSUME Inductive, [Next]_vars
             PROVE  Inductive'
  OBVIOUS
<1>1. now \in Nat /\ faults \in Nat
  BY DEF Inductive, TypeOK
<1>2. CASE Tick \/ UNCHANGED vars
  <2>1. now' \in Nat
    BY <1>1, <1>2 DEF Tick, vars
  <2>2. UNCHANGED <<beat, status, history, gauge, counter, page, before,
                    faults, forgotten>>
    BY <1>2 DEF Tick, vars
  <2>3. page' \in [phase : PagePhases, sn : SNs \cup {None},
                   current : Beats \cup {None}, rows : SUBSET Beats,
                   settled : SUBSET Beats]
    BY <2>2 DEF Inductive, TypeOK
  <2> QED
    BY <2>1, <2>2, <2>3, QuietInductive
<1>3. ASSUME NEW b \in Beats, UpsertStatus(b) \/ UpsertFails(b)
      PROVE  Inductive'
  <2>1. /\ beat[b].phase = "metered"
        /\ faults' \in Nat
        /\ UNCHANGED <<now, history, gauge, counter, page, before, forgotten>>
    BY <1>1, <1>3 DEF UpsertStatus, UpsertFails, Fault
  <2>2. \/ Advance(b, "upserted") /\ WriteStatus(b)
        \/ Advance(b, "500") /\ (WriteStatus(b) \/ UNCHANGED status)
    BY <1>3 DEF UpsertStatus, UpsertFails
  <2> QED
    BY <2>1, <2>2, StatusInductive
<1>4. ASSUME NEW b \in Beats, InsertHistory(b) \/ InsertFails(b)
      PROVE  Inductive'
  <2>1. /\ beat[b].phase = "upserted"
        /\ faults' \in Nat
        /\ UNCHANGED <<now, status, gauge, counter, page, before, forgotten>>
    BY <1>1, <1>4 DEF InsertHistory, InsertFails, Fault
  <2>2. \/ /\ Advance(b, "202") \/ Advance(b, "500")
           /\ HistoryKey(b) \notin DOMAIN history /\ Append(b)
        \/ Advance(b, "500") /\ UNCHANGED history
    BY <1>4 DEF InsertHistory, InsertFails
  <2> QED
    BY <2>1, <2>2, HistoryInductive
<1>5. CASE Show
  <2>1. UNCHANGED <<now, beat, status, history, gauge, counter, before, faults,
                    forgotten>>
    BY <1>5 DEF Show, ReadCurrent, ReadHistory
  <2> QED
    BY <1>1, <1>5, <2>1, PageTypes, QuietInductive DEF Show
<1> QED
  BY <1>2, <1>3, <1>4, <1>5, ReceiveInductive, ObserveInductive,
     RestartInductive
  DEF Next, Handle

\* The invariant behind the order of snapshot, gauges and history.
THEOREM InductiveInvariant == Spec => []Inductive
<1>1. Init => Inductive
  BY InitInductive
<1>2. Inductive /\ [Next]_vars => Inductive'
  BY NextInductive
<1> QED
  BY <1>1, <1>2, PTL DEF Spec

\* Type correctness of the heartbeat path.
THEOREM TypeCorrect == Spec => []TypeOK
<1>1. Inductive => TypeOK
  BY DEF Inductive
<1> QED
  BY <1>1, InductiveInvariant, PTL

\* A heartbeat answered before another was received never replaces it.
THEOREM SnapshotKeepsRealTimeOrder == Spec => []RealTimeOrder
<1>1. Inductive => RealTimeOrder
  BY DEF Inductive
<1> QED
  BY <1>1, InductiveInvariant, PTL

\* The same for the gauges of each replica.
THEOREM GaugesKeepRealTimeOrder == Spec => []GaugeRealTimeOrder
<1>1. Inductive => GaugeRealTimeOrder
  BY DEF Inductive
<1> QED
  BY <1>1, InductiveInvariant, PTL

\* An acknowledged heartbeat keeps its own history row.
THEOREM AcknowledgedStaysRecorded == Spec => []AcknowledgedIsRecorded
<1>1. Inductive => AcknowledgedIsRecorded
  BY DEF Inductive
<1> QED
  BY <1>1, InductiveInvariant, PTL

\* A CPE with a history always has a current status.
THEOREM HistoryImpliesStatus == Spec => []HistoryHasStatus
<1>1. Inductive => HistoryHasStatus
  BY DEF Inductive
<1> QED
  BY <1>1, InductiveInvariant, PTL

-----------------------------------------------------------------------------
(* The admin page.                                                         *)

\* Of more than L rows of one SN that are newer than row b, ORDER BY event_ts
\* DESC LIMIT L shows L, and they all are newer than b.
LEMMA NewestOfMany ==
  ASSUME NEW s, NEW K \in SUBSET ({s} \X Nat), IsFiniteSet(K),
         NEW L \in Nat \ {0}, NEW b \in K,
         ~(Cardinality({j \in K : j[2] > b[2]}) < L)
  PROVE  LET N == {k \in K : Cardinality({j \in K : j[2] > k[2]}) < L} IN
         /\ IsFiniteSet(N) /\ Cardinality(N) = L
         /\ \A k \in N : k[2] > b[2]
<1> DEFINE f == [k \in K |-> 0 - k[2]]
           N == {k \in K : Cardinality({j \in K : j[2] > k[2]}) < L}
           First == FirstRows(K, f, L)
<1>1. ASSUME NEW k \in K
      PROVE  k[2] \in Nat /\ k = <<s, k[2]>> /\ f[k] = 0 - k[2]
  OBVIOUS
<1>2. /\ L \in Nat
      /\ \A k \in K : f[k] \in Int
      /\ \A j, k \in K : f[j] = f[k] => j = k
  BY <1>1
<1>3. First = N
  <2>1. ASSUME NEW k \in K
        PROVE  {j \in K : f[j] < f[k]} = {j \in K : j[2] > k[2]}
    BY <1>1
  <2> QED
    BY <2>1 DEF FirstRows
<1> HIDE DEF f
<1>4. /\ IsFiniteSet(First)
      /\ First # K => Cardinality(First) = L
      /\ \A k \in First, j \in K \ First : f[k] < f[j]
  BY <1>2, FirstOfMany
<1>5. b \in K \ N
  OBVIOUS
<1> HIDE DEF N, First
<1>6. ASSUME NEW k \in N
      PROVE  k[2] > b[2]
  <2>1. k \in K /\ f[k] < f[b]
    BY <1>3, <1>4, <1>5 DEF N
  <2> QED
    BY <1>1, <1>5, <2>1
<1> QED
  BY <1>3, <1>4, <1>5, <1>6 DEF N

\* A beat that was received keeps its SN and its time, and an acknowledged one
\* stays acknowledged.
BeatsStay ==
  \A b \in Beats :
    beat[b].phase # "new" =>
      /\ beat'[b].phase # "new"
      /\ beat'[b].sn = beat[b].sn
      /\ beat'[b].at = beat[b].at
      /\ beat[b].phase = "202" => beat'[b].phase = "202"

\* A history of finitely many rows, each written by the beat it belongs to.
RowsAreOwn ==
  /\ IsFiniteSet(DOMAIN history)
  /\ \A k \in DOMAIN history :
       beat[history[k]].phase # "new" /\ HistoryKey(history[k]) = k

\* What a page under way relies on, and what it shows in the end.
PageIsTrue ==
  /\ page.phase \in {"current", "shown"} =>
       \A b \in page.settled : /\ beat[b].sn = page.sn
                               /\ beat[b].phase = "202"
                               /\ page.current # None
  /\ page.phase = "shown" => \A c \in page.rows : beat[c].phase # "new"
  /\ PageShowsAcknowledged

\* The page is all that its queries change.
LEMMA ShowOnlyReads ==
  Show => UNCHANGED <<now, beat, status, history, gauge, counter, before, faults,
                      forgotten>>
BY Zenon DEF Show, ReadHistory, ReadCurrent

LEMMA AdvanceStays ==
  ASSUME Inductive, NEW b \in Beats, beat[b].phase # "202",
         NEW phase \in Phases \ {"new"}, Advance(b, phase)
  PROVE  BeatsStay
<1>1. beat \in [Beats -> BeatRecords]
  BY DEF Inductive, TypeOK
<1>2. /\ beat'[b].phase = phase
      /\ \A c \in Beats : c # b => beat'[c] = beat[c]
      /\ \A c \in Beats : beat'[c].sn = beat[c].sn /\ beat'[c].at = beat[c].at
  BY <1>1, AdvanceFacts
<1> QED
  BY <1>2 DEF BeatsStay

LEMMA EveryBeatStays == Inductive /\ [Next]_vars => BeatsStay
<1> SUFFICES ASSUME Inductive, [Next]_vars PROVE BeatsStay
  OBVIOUS
<1>1. beat \in [Beats -> BeatRecords]
  BY DEF Inductive, TypeOK
<1>2. {"400", "metered", "upserted", "202", "500"} \subseteq Phases \ {"new"}
  BY DEF Phases, InFlight, Answered
<1>3. ASSUME NEW b \in Beats, Receive(b)
      PROVE  BeatsStay
  <2>1. \A c \in Beats : c # b => beat'[c] = beat[c]
    BY <1>1, <1>3 DEF Receive, Advance
  <2> QED
    BY <1>3, <2>1 DEF BeatsStay, Receive
<1>4. ASSUME NEW b \in Beats, Observe(b) \/ UpsertStatus(b) \/ UpsertFails(b)
      PROVE  BeatsStay
  <2>1. /\ beat[b].phase # "202"
        /\ Advance(b, "metered") \/ Advance(b, "upserted") \/ Advance(b, "500")
    BY <1>4 DEF Observe, UpsertStatus, UpsertFails
  <2> QED
    BY <1>2, <2>1, AdvanceStays
<1>5. ASSUME NEW b \in Beats, InsertHistory(b) \/ InsertFails(b)
      PROVE  BeatsStay
  <2>1. beat[b].phase # "202" /\ (Advance(b, "202") \/ Advance(b, "500"))
    BY <1>5 DEF InsertHistory, InsertFails
  <2> QED
    BY <1>2, <2>1, AdvanceStays
<1>6. ASSUME NEW p \in Pods, Restart(p)
      PROVE  BeatsStay
  <2>1. ASSUME NEW b \in Beats
        PROVE  LET r == [beat[b] EXCEPT !.phase = "lost"] IN
               r.phase = "lost" /\ r.sn = beat[b].sn /\ r.at = beat[b].at
    <3>1. beat[b] \in BeatRecords
      BY <1>1
    <3> QED
      BY <3>1, Zenon DEF BeatRecords
  <2>2. \A b \in Beats :
          \/ beat'[b] = beat[b]
          \/ /\ beat[b].phase \in InFlight
             /\ beat'[b].phase = "lost"
             /\ beat'[b].sn = beat[b].sn
             /\ beat'[b].at = beat[b].at
    BY <1>6, <2>1, Zenon DEF Restart
  <2> QED
    BY <2>2 DEF BeatsStay, InFlight
<1>7. CASE UNCHANGED beat
  BY <1>7 DEF BeatsStay
<1>8. Tick \/ Show \/ UNCHANGED vars => UNCHANGED beat
  BY ShowOnlyReads DEF Tick, vars
<1> QED
  BY <1>3, <1>4, <1>5, <1>6, <1>7, <1>8 DEF Next, Handle

\* Rows are only added, by the beat they belong to.
LEMMA RowsStep == Inductive /\ RowsAreOwn /\ [Next]_vars => RowsAreOwn'
<1> SUFFICES ASSUME Inductive, RowsAreOwn, [Next]_vars PROVE RowsAreOwn'
  OBVIOUS
<1>1. /\ BeatsStay
      /\ \A k \in DOMAIN history : history[k] \in Beats
  BY EveryBeatStays DEF Inductive, TypeOK
<1>2. CASE UNCHANGED history
  BY <1>1, <1>2 DEF RowsAreOwn, BeatsStay, HistoryKey
<1>3. ASSUME NEW b \in Beats, beat[b].phase = "upserted", Append(b)
      PROVE  RowsAreOwn'
  <2>1. PICK key : key = HistoryKey(b)
    OBVIOUS
  <2>2. /\ DOMAIN history' = DOMAIN history \cup {key}
        /\ history'[key] = b
        /\ \A k \in DOMAIN history : k # key => history'[k] = history[k]
    BY <1>3, <2>1 DEF Append
  <2>3. IsFiniteSet(DOMAIN history')
    BY <2>2, FS_AddElement DEF RowsAreOwn
  <2>4. ASSUME NEW k \in DOMAIN history'
        PROVE  /\ beat'[history'[k]].phase # "new"
               /\ <<beat'[history'[k]].sn, beat'[history'[k]].at>> = k
    <3>1. CASE k = key
      BY <1>1, <1>3, <2>1, <2>2, <3>1 DEF BeatsStay, HistoryKey
    <3>2. CASE k # key
      BY <1>1, <2>2, <2>4, <3>2 DEF RowsAreOwn, BeatsStay, HistoryKey
    <3> QED
      BY <3>1, <3>2
  <2> QED
    BY <2>3, <2>4 DEF RowsAreOwn, HistoryKey
<1>4. \/ UNCHANGED history
      \/ \E b \in Beats : beat[b].phase = "upserted" /\ Append(b)
  BY ShowOnlyReads DEF Next, Handle, Tick, vars, Receive, Observe, UpsertStatus,
         UpsertFails, InsertHistory, InsertFails, Restart
<1> QED
  BY <1>2, <1>3, <1>4

\* The rows of a page: an acknowledged beat is one of them, or PageLimit newer
\* ones are.
LEMMA RowsOfPage ==
  ASSUME Inductive, RowsAreOwn, NEW b \in Beats, beat[b].phase = "202",
         NEW rows, rows = {history[k] : k \in NewestRows(beat[b].sn)}
  PROVE  /\ \A c \in rows : beat[c].phase # "new"
         /\ \/ b \in rows
            \/ /\ Cardinality(rows) = PageLimit
               /\ \A c \in rows : beat[c].at > beat[b].at
<1>1. PICK s \in SNs : s = beat[b].sn
  BY DEF Inductive, ReceivedHavePlace
<1>2. PICK K : K = RowsOf(s)
  OBVIOUS
<1>3. PICK N : N = NewestRows(s)
  OBVIOUS
<1>4. PICK kb : kb = HistoryKey(b)
  OBVIOUS
<1>5. /\ kb \in K /\ history[kb] = b /\ kb[2] = beat[b].at
      /\ K \in SUBSET ({s} \X Nat) /\ K \subseteq DOMAIN history
      /\ IsFiniteSet(K)
  <2>1. kb \in DOMAIN history /\ history[kb] = b
    BY <1>4 DEF Inductive, AcknowledgedIsRecorded
  <2>2. kb[1] = s /\ kb[2] = beat[b].at
    BY <1>1, <1>4 DEF HistoryKey
  <2>3. K \in SUBSET ({s} \X Nat) /\ K \in SUBSET DOMAIN history
    BY <1>2 DEF RowsOf, Inductive, TypeOK, Keys
  <2> QED
    BY <1>2, <2>1, <2>2, <2>3, FS_Subset DEF RowsOf, RowsAreOwn
<1>6. N = {k \in K : Cardinality({j \in K : j[2] > k[2]}) < PageLimit}
  BY <1>2, <1>3 DEF NewestRows
<1>7. /\ rows = {history[k] : k \in N}
      /\ N \subseteq DOMAIN history
      /\ \A k \in N : /\ history[k] \in Beats
                      /\ beat[history[k]].phase # "new"
                      /\ k = <<beat[history[k]].sn, beat[history[k]].at>>
  BY <1>1, <1>3, <1>5, <1>6 DEF RowsAreOwn, HistoryKey, Inductive, TypeOK
<1>8. CASE kb \in N
  BY <1>5, <1>7, <1>8
<1>9. CASE kb \notin N
  <2>1. ~(Cardinality({j \in K : j[2] > kb[2]}) < PageLimit)
    BY <1>5, <1>6, <1>9
  <2>2. PageLimit \in Nat \ {0}
    BY HeartbeatAssumption
  <2>3. /\ IsFiniteSet(N) /\ Cardinality(N) = PageLimit
        /\ \A k \in N : k[2] > kb[2]
    <3> DEFINE NN == {k \in K : Cardinality({j \in K : j[2] > k[2]}) < PageLimit}
    <3>1. IsFiniteSet(NN) /\ Cardinality(NN) = PageLimit /\ \A k \in NN : k[2] > kb[2]
      BY <1>5, <2>1, <2>2, NewestOfMany
    <3> HIDE DEF NN
    <3>2. N = NN
      BY <1>6 DEF NN
    <3> QED
      BY <3>1, <3>2
  <2>4. ExistsBijection(N, rows)
    <3> DEFINE f == [k \in N |-> history[k]]
    <3>1. f \in [N -> rows]
      BY <1>7
    <3>2. \A k \in N, j \in N : f[k] = f[j] => k = j
      BY <1>7
    <3>3. \A c \in rows : \E k \in N : f[k] = c
      BY <1>7
    <3> HIDE DEF f
    <3> QED
      BY <3>1, <3>2, <3>3
      DEF ExistsBijection, Bijection, Injection, Surjection, IsInjective
  <2>5. Cardinality(rows) = PageLimit
    BY <2>3, <2>4, FS_Bijection
  <2>6. \A c \in rows : beat[c].at > beat[b].at
    BY <1>5, <1>7, <2>3
  <2> QED
    BY <1>7, <2>5, <2>6
<1> QED
  BY <1>8, <1>9

\* The two queries see different states of the tables; what the first one
\* settled still holds when the second one is made.
LEMMA PageStep ==
  Inductive /\ RowsAreOwn /\ PageIsTrue /\ [Next]_vars => PageIsTrue'
<1> SUFFICES ASSUME Inductive, RowsAreOwn, PageIsTrue, [Next]_vars
             PROVE  PageIsTrue'
  OBVIOUS
<1>1. /\ BeatsStay
      /\ page.settled \subseteq Beats /\ page.rows \subseteq Beats
  BY EveryBeatStays DEF Inductive, TypeOK
<1>2. CASE UNCHANGED page
  <2>1. /\ \A b \in page.rows : beat[b].phase # "new" => beat'[b].at = beat[b].at
        /\ \A b \in page.settled :
             beat[b].phase = "202" => /\ beat'[b].at = beat[b].at
                                      /\ beat'[b].sn = beat[b].sn
                                      /\ beat'[b].phase = "202"
    BY <1>1 DEF BeatsStay
  <2>2. PageShowsAcknowledged'
    BY <1>2, <2>1 DEF PageIsTrue, PageShowsAcknowledged
  <2>3. page.phase = "shown" => \A c \in page.rows : beat'[c].phase # "new"
    BY <1>1 DEF PageIsTrue, BeatsStay
  <2> QED
    BY <1>2, <2>1, <2>2, <2>3 DEF PageIsTrue
<1>3. ASSUME NEW s \in SNs, ReadCurrent(s)
      PROVE  PageIsTrue'
  <2> DEFINE settled == {b \in Beats : beat[b].sn = s /\ beat[b].phase = "202"}
  <2>1. UNCHANGED beat
    BY <1>3, Zenon DEF ReadCurrent
  <2>2. ASSUME page'.phase \in {"current", "shown"}
        PROVE  /\ page'.phase = "current" /\ page'.sn = s
               /\ page'.current = status[s] /\ page'.settled = settled
    <3>1. \/ page' = [EmptyPage EXCEPT !.phase = "500", !.sn = s]
          \/ page' = [EmptyPage EXCEPT !.phase = "current", !.sn = s,
                                     !.current = status[s], !.settled = settled]
      BY <1>3, Zenon DEF ReadCurrent
    <3> HIDE DEF settled
    <3> QED
      BY <2>2, <3>1 DEF EmptyPage
  <2>3. \A b \in settled : status[s] # None
    BY DEF Inductive, UpsertedHasStatus
  <2> QED
    BY <2>1, <2>2, <2>3 DEF PageIsTrue, PageShowsAcknowledged
<1>4. ASSUME ReadHistory
      PROVE  PageIsTrue'
  <2>1. PICK shown \in SUBSET Beats : shown = {history[k] : k \in NewestRows(page.sn)}
    <3>1. NewestRows(page.sn) \subseteq DOMAIN history
      BY DEF NewestRows, RowsOf
    <3>2. \A k \in DOMAIN history : history[k] \in Beats
      BY DEF Inductive, TypeOK
    <3> QED
      BY <3>1, <3>2
  <2>2. UNCHANGED beat /\ page.phase = "current"
    BY <1>4, Zenon DEF ReadHistory
  <2>3. CASE page' = [EmptyPage EXCEPT !.phase = "500", !.sn = page.sn]
    <3>1. page'.phase = "500"
      BY <2>3 DEF EmptyPage
    <3> QED
      BY <3>1 DEF PageIsTrue, PageShowsAcknowledged
  <2>4. CASE page' = [page EXCEPT !.phase = "shown", !.rows = shown]
    <3>1. /\ page'.rows = shown /\ page'.settled = page.settled
          /\ page'.sn = page.sn /\ page'.current = page.current
      <4>1. page \in [phase : PagePhases, sn : SNs \cup {None},
                     current : Beats \cup {None}, rows : SUBSET Beats,
                     settled : SUBSET Beats]
        BY DEF Inductive, TypeOK
      <4> QED
        BY <2>4, <4>1
    <3>2. \A b \in page.settled : /\ b \in Beats /\ beat[b].phase = "202"
                                  /\ beat[b].sn = page.sn /\ page.current # None
      BY <1>1, <2>2 DEF PageIsTrue
    <3>3. \A c \in shown : beat[c].phase # "new"
      BY <2>1 DEF NewestRows, RowsOf, RowsAreOwn
    <3>4. ASSUME NEW b \in page.settled
          PROVE  \/ b \in shown
                 \/ /\ Cardinality(shown) = PageLimit
                    /\ \A c \in shown : beat[c].at > beat[b].at
      BY <2>1, <3>2, RowsOfPage
    <3> QED
      BY <2>2, <3>1, <3>2, <3>3, <3>4 DEF PageIsTrue, PageShowsAcknowledged
  <2> QED
    BY <1>4, <2>1, <2>3, <2>4, Zenon DEF ReadHistory
<1>5. Tick \/ Handle \/ (\E p \in Pods : Restart(p)) \/ UNCHANGED vars => UNCHANGED page
  BY DEF Tick, Handle, vars, Receive, Observe, UpsertStatus, UpsertFails,
         InsertHistory, InsertFails, Restart
<1> QED
  BY <1>2, <1>3, <1>4, <1>5 DEF Next, Show

\* The admin page shows every heartbeat that was acknowledged when it was asked
\* for, or as many newer ones as fit on it, for any limit and any history.
THEOREM PageIsComplete == Spec => []PageShowsAcknowledged
<1>1. Init => RowsAreOwn /\ PageIsTrue
  <2>1. ASSUME Init
        PROVE  DOMAIN history = {} /\ page.phase = "idle"
    BY <2>1 DEF Init, EmptyPage
  <2> QED
    BY <2>1, FS_EmptySet DEF RowsAreOwn, PageIsTrue, PageShowsAcknowledged
<1>2. PageIsTrue => PageShowsAcknowledged
  BY DEF PageIsTrue
<1> QED
  BY <1>1, <1>2, RowsStep, PageStep, InductiveInvariant, PTL DEF Spec

-----------------------------------------------------------------------------
(* Counters *)

\* What a counter counts is finite, and only what was answered is forgotten.
CountersTrue ==
  /\ \A p \in Pods, s \in SNs :
       /\ IsFiniteSet(Counted(p, s))
       /\ counter[p][s] = Cardinality(Counted(p, s))
  /\ \A b \in forgotten : b \in Beats /\ beat[b].phase \in {"202", "500"}

\* Steps that neither count nor start a replica again.
LEMMA CountersStay ==
  ASSUME CountersTrue, counter' = counter, forgotten' = forgotten,
         \A b \in forgotten : beat'[b] = beat[b],
         \A p \in Pods, s \in SNs : Counted(p, s)' = Counted(p, s)
  PROVE  CountersTrue'
<1> SUFFICES ASSUME NEW p \in Pods, NEW s \in SNs
             PROVE  /\ IsFiniteSet(Counted(p, s)')
                    /\ counter'[p][s] = Cardinality(Counted(p, s)')
  BY DEF CountersTrue
<1> QED
  BY DEF CountersTrue

\* A heartbeat that is counted stays so whatever the database says.
LEMMA AdvanceCounts ==
  ASSUME Inductive, CountersTrue, counter' = counter, forgotten' = forgotten,
         NEW b \in Beats, beat[b].phase \in {"metered", "upserted"},
         NEW phase \in {"upserted", "202", "500"}, Advance(b, phase)
  PROVE  CountersTrue'
<1>1. beat \in [Beats -> BeatRecords] /\ phase \in Phases
  BY DEF Inductive, TypeOK, Phases, InFlight, Answered
<1>2. /\ beat'[b].phase = phase
      /\ \A c \in Beats : c # b => beat'[c] = beat[c]
      /\ \A c \in Beats : beat'[c].sn = beat[c].sn /\ beat'[c].pod = beat[c].pod
  BY <1>1, AdvanceFacts
<1>3. b \notin forgotten
  BY DEF CountersTrue
<1>4. \A p \in Pods, s \in SNs : Counted(p, s)' = Counted(p, s)
  BY <1>2, <1>3 DEF Counted
<1>5. \A c \in forgotten : beat'[c] = beat[c]
  BY <1>2, <1>3 DEF CountersTrue
<1> QED
  BY <1>4, <1>5, CountersStay

LEMMA ReceiveCounts ==
  ASSUME Inductive, CountersTrue, NEW b \in Beats, Receive(b)
  PROVE  CountersTrue'
<1>1. beat \in [Beats -> BeatRecords] /\ beat[b].phase = "new"
  BY DEF Inductive, TypeOK, Receive
<1>2. /\ beat'[b].phase \in {"400", "stamped"}
      /\ \A c \in Beats : c # b => beat'[c] = beat[c]
  <2>1. CASE Advance(b, "400")
    <3>1. "400" \in Phases
      BY DEF Phases, Answered
    <3> QED
      BY <1>1, <2>1, <3>1, AdvanceFacts
  <2>2. CASE ~Advance(b, "400")
    BY <1>1, <2>2 DEF Receive
  <2> QED
    BY <2>1, <2>2
<1>3. b \notin forgotten /\ forgotten' = forgotten
  BY <1>1 DEF CountersTrue, Receive
<1>4. \A p \in Pods, s \in SNs : Counted(p, s)' = Counted(p, s)
  BY <1>1, <1>2, <1>3 DEF Counted
<1>5. \A c \in forgotten : beat'[c] = beat[c]
  BY <1>2, <1>3 DEF CountersTrue
<1> QED
  BY <1>3, <1>4, <1>5, CountersStay DEF Receive

\* The one step that counts, and what it counts.
LEMMA ObserveCounts ==
  ASSUME Inductive, CountersTrue, NEW b \in Beats, Observe(b)
  PROVE  CountersTrue'
<1> DEFINE q == beat[b].pod
           t == beat[b].sn
<1>1. /\ beat \in [Beats -> BeatRecords]
      /\ counter \in [Pods -> [SNs -> Nat]]
      /\ beat[b].phase = "stamped"
      /\ q \in Pods /\ t \in SNs
      /\ "metered" \in Phases
  BY DEF Inductive, TypeOK, Observe, ReceivedHavePlace, InFlight, Phases
<1>2. forgotten' = forgotten /\ b \notin forgotten /\ Advance(b, "metered")
  BY <1>1 DEF Observe, CountersTrue
<1>3. /\ beat'[b].phase = "metered"
      /\ \A c \in Beats : c # b => beat'[c] = beat[c]
      /\ \A c \in Beats : beat'[c].sn = beat[c].sn /\ beat'[c].pod = beat[c].pod
  BY <1>1, <1>2, AdvanceFacts
<1>4. \A p \in Pods, s \in SNs :
        counter'[p][s] = IF p = q /\ s = t THEN counter[p][s] + 1 ELSE counter[p][s]
  <2>1. counter' = [counter EXCEPT ![q] = [counter[q] EXCEPT ![t] = counter[q][t] + 1]]
    BY Zenon DEF Observe
  <2> HIDE DEF q, t
  <2> QED
    BY <1>1, <2>1
<1>5. ASSUME NEW p \in Pods, NEW s \in SNs
      PROVE  /\ IsFiniteSet(Counted(p, s)')
             /\ counter'[p][s] = Cardinality(Counted(p, s)')
  <2>1. IsFiniteSet(Counted(p, s)) /\ counter[p][s] = Cardinality(Counted(p, s))
    BY <1>5 DEF CountersTrue
  <2>2. CASE p = q /\ s = t
    <3>1. Counted(p, s)' = Counted(p, s) \cup {b} /\ b \notin Counted(p, s)
      BY <1>1, <1>2, <1>3, <2>2 DEF Counted
    <3>2. /\ IsFiniteSet(Counted(p, s) \cup {b})
          /\ Cardinality(Counted(p, s) \cup {b}) = Cardinality(Counted(p, s)) + 1
      BY <2>1, <3>1, FS_AddElement
    <3>3. counter'[p][s] = counter[p][s] + 1
      BY <1>4, <2>2
    <3> QED
      BY <2>1, <3>1, <3>2, <3>3
  <2>3. CASE ~(p = q /\ s = t)
    <3>1. Counted(p, s)' = Counted(p, s)
      BY <1>1, <1>2, <1>3, <2>3 DEF Counted
    <3>2. counter'[p][s] = counter[p][s]
      BY <1>4, <2>3
    <3> QED
      BY <2>1, <3>1, <3>2
  <2> QED
    BY <2>2, <2>3
<1>6. \A c \in forgotten' : c \in Beats /\ beat'[c].phase \in {"202", "500"}
  BY <1>2, <1>3 DEF CountersTrue
<1> QED
  BY <1>5, <1>6 DEF CountersTrue

\* A replica that starts again forgets what it counted, and takes nothing from
\* the others.
LEMMA RestartCounts ==
  ASSUME Inductive, CountersTrue, NEW q \in Pods, Restart(q)
  PROVE  CountersTrue'
<1>1. /\ beat \in [Beats -> BeatRecords]
      /\ counter \in [Pods -> [SNs -> Nat]]
  BY DEF Inductive, TypeOK
<1>2. /\ forgotten' = forgotten \cup AnsweredBy(q)
      /\ \A s \in SNs : counter'[q][s] = 0
      /\ \A p \in Pods : p # q => counter'[p] = counter[p]
  BY <1>1 DEF Restart
<1>3. ASSUME NEW b \in Beats
      PROVE  /\ beat'[b].pod = beat[b].pod /\ beat'[b].sn = beat[b].sn
             /\ beat'[b].phase = IF beat[b].pod = q /\ beat[b].phase \in InFlight
                                THEN "lost" ELSE beat[b].phase
  <2>1. /\ [beat[b] EXCEPT !.phase = "lost"].pod = beat[b].pod
        /\ [beat[b] EXCEPT !.phase = "lost"].sn = beat[b].sn
        /\ [beat[b] EXCEPT !.phase = "lost"].phase = "lost"
    <3>1. beat[b] \in BeatRecords
      BY <1>1
    <3> QED
      BY <3>1, Zenon DEF BeatRecords
  <2>2. beat'[b] = IF beat[b].pod = q /\ beat[b].phase \in InFlight
                   THEN [beat[b] EXCEPT !.phase = "lost"] ELSE beat[b]
    BY DEF Restart
  <2>3. CASE beat[b].pod = q /\ beat[b].phase \in InFlight
    BY <2>1, <2>2, <2>3
  <2>4. CASE ~(beat[b].pod = q /\ beat[b].phase \in InFlight)
    BY <2>2, <2>4
  <2> QED
    BY <2>3, <2>4
<1>4. ASSUME NEW s \in SNs
      PROVE  Counted(q, s)' = {}
  BY <1>2, <1>3 DEF Counted, AnsweredBy, InFlight
<1>5. ASSUME NEW p \in Pods, p # q, NEW s \in SNs
      PROVE  Counted(p, s)' = Counted(p, s)
  <2>1. ASSUME NEW b \in Beats, beat[b].pod = p
        PROVE  beat'[b].phase = beat[b].phase /\ (b \in forgotten' <=> b \in forgotten)
    BY <1>2, <1>3, <1>5, <2>1 DEF AnsweredBy
  <2> QED
    BY <1>3, <2>1 DEF Counted
<1>6. ASSUME NEW p \in Pods, NEW s \in SNs
      PROVE  /\ IsFiniteSet(Counted(p, s)')
             /\ counter'[p][s] = Cardinality(Counted(p, s)')
  <2>1. CASE p = q
    <3>1. Counted(p, s)' = {} /\ counter'[p][s] = 0
      BY <1>2, <1>4, <2>1
    <3> QED
      BY <3>1, FS_EmptySet
  <2>2. CASE p # q
    <3>1. Counted(p, s)' = Counted(p, s) /\ counter'[p] = counter[p]
      BY <1>2, <1>5, <2>2
    <3> QED
      BY <3>1 DEF CountersTrue
  <2> QED
    BY <2>1, <2>2
<1>7. \A c \in forgotten' : c \in Beats /\ beat'[c].phase \in {"202", "500"}
  BY <1>2, <1>3 DEF CountersTrue, AnsweredBy, InFlight
<1> QED
  BY <1>6, <1>7 DEF CountersTrue

LEMMA NextCounters == Inductive /\ CountersTrue /\ [Next]_vars => CountersTrue'
<1> SUFFICES ASSUME Inductive, CountersTrue, [Next]_vars PROVE CountersTrue'
  OBVIOUS
<1>1. ASSUME NEW b \in Beats, UpsertStatus(b) \/ UpsertFails(b)
      PROVE  CountersTrue'
  <2>1. /\ beat[b].phase = "metered" /\ UNCHANGED <<counter, forgotten>>
        /\ Advance(b, "upserted") \/ Advance(b, "500")
    BY <1>1 DEF UpsertStatus, UpsertFails
  <2> QED
    BY <2>1, AdvanceCounts
<1>2. ASSUME NEW b \in Beats, InsertHistory(b) \/ InsertFails(b)
      PROVE  CountersTrue'
  <2>1. /\ beat[b].phase = "upserted" /\ UNCHANGED <<counter, forgotten>>
        /\ Advance(b, "202") \/ Advance(b, "500")
    BY <1>2 DEF InsertHistory, InsertFails
  <2> QED
    BY <2>1, AdvanceCounts
<1>3. CASE Tick \/ Show \/ UNCHANGED vars
  <2>1. UNCHANGED <<beat, counter, forgotten>>
    BY <1>3, ShowOnlyReads DEF Tick, vars
  <2>2. \A p \in Pods, s \in SNs : Counted(p, s)' = Counted(p, s)
    BY <2>1 DEF Counted
  <2>3. \A c \in forgotten : beat'[c] = beat[c]
    BY <2>1
  <2> QED
    BY <2>1, <2>2, <2>3, CountersStay
<1> QED
  BY <1>1, <1>2, <1>3, ReceiveCounts, ObserveCounts, RestartCounts DEF Next, Handle

\* The counter of a replica (Observe, the prometheus counter of
\* handleHeartbeat) is the number of the heartbeats it accepted since it was
\* last started, for any number of them, of replicas and of restarts.
THEOREM CountersCountRequests == Spec => []CounterMatchesRequests
<1>1. Init => CountersTrue
  <2> SUFFICES ASSUME Init, NEW p \in Pods, NEW s \in SNs
               PROVE  /\ IsFiniteSet(Counted(p, s))
                      /\ counter[p][s] = Cardinality(Counted(p, s))
    BY DEF CountersTrue, Init
  <2>1. Counted(p, s) = {}
    BY DEF Init, Counted
  <2>2. counter[p][s] = 0
    BY DEF Init
  <2> QED
    BY <2>1, <2>2, FS_EmptySet
<1>2. CountersTrue => CounterMatchesRequests
  BY DEF CountersTrue, CounterMatchesRequests
<1> QED
  BY <1>1, <1>2, NextCounters, InductiveInvariant, PTL DEF Spec

-----------------------------------------------------------------------------
(* Snapshot and history implement HeartbeatRegister. *)

\* Handlers move one stage at a time.
LEMMA StageNow ==
  ASSUME NEW b \in Beats
  PROVE  /\ beat[b].phase = "new" => StageOf(b) = "new"
         /\ beat[b].phase \in {"stamped", "metered"} => StageOf(b) = "open"
         /\ beat[b].phase = "upserted" => StageOf(b) = "written"
         /\ beat[b].phase = "202" => StageOf(b) = "acknowledged"
         /\ beat[b].phase \in {"400", "500", "lost"} => StageOf(b) = "failed"
BY DEF StageOf

LEMMA StageNext ==
  ASSUME NEW b \in Beats
  PROVE  /\ beat'[b].phase = "new" => StageOf(b)' = "new"
         /\ beat'[b].phase \in {"stamped", "metered"} => StageOf(b)' = "open"
         /\ beat'[b].phase = "upserted" => StageOf(b)' = "written"
         /\ beat'[b].phase = "202" => StageOf(b)' = "acknowledged"
         /\ beat'[b].phase \in {"400", "500", "lost"} => StageOf(b)' = "failed"
BY DEF StageOf

\* One beat goes on: the mapped variables in the state after the step.
LEMMA AdvanceMoves ==
  ASSUME Inductive, NEW b \in Beats, NEW phase \in Phases, Advance(b, phase)
  PROVE  /\ Stage[b] = StageOf(b) /\ beat'[b].phase = phase
         /\ Stage' = [Stage EXCEPT ![b] = StageOf(b)']
         /\ Cpe' = Cpe /\ Cpe[b] = beat[b].sn
<1>1. beat \in [Beats -> BeatRecords]
  BY DEF Inductive, TypeOK
<1>2. /\ beat'[b].phase = phase
      /\ \A c \in Beats : c # b => beat'[c] = beat[c]
      /\ \A c \in Beats : beat'[c].sn = beat[c].sn
  BY <1>1, AdvanceFacts
<1>3. \A c \in Beats : c # b => StageOf(c)' = StageOf(c)
  BY <1>2 DEF StageOf
<1>4. Stage' = [Stage EXCEPT ![b] = StageOf(b)']
  BY <1>3, Zenon DEF Stage
<1> QED
  BY <1>2, <1>4 DEF Cpe, Stage

\* Beats are refused, or opened for a CPE.
LEMMA ReceiveOpens ==
  ASSUME Inductive, NEW b \in Beats, Receive(b)
  PROVE  Register!Next
<1>1. beat \in [Beats -> BeatRecords] /\ beat[b].phase = "new"
  BY DEF Inductive, TypeOK, Receive
<1>2. UNCHANGED <<status, history>>
  BY DEF Receive
<1>3. Recorded' = Recorded
  BY <1>2 DEF Recorded
<1>4. CASE Advance(b, "400")
  <2>1. "400" \in Phases
    BY DEF Phases, Answered
  <2>2. /\ Stage[b] = StageOf(b) /\ Stage' = [Stage EXCEPT ![b] = StageOf(b)']
        /\ Cpe' = Cpe /\ beat'[b].phase = "400"
    BY <1>4, <2>1, AdvanceMoves
  <2>3. StageOf(b) = "new" /\ StageOf(b)' = "failed"
    BY <1>1, <2>2, StageNow, StageNext
  <2>4. Register!Refuse(b)
    BY <1>2, <1>3, <2>2, <2>3 DEF Register!Refuse, Register!Move
  <2> QED
    BY <2>4 DEF Register!Next
<1>5. ASSUME NEW s \in SNs, NEW r, r.phase = "stamped", r.sn = s,
             beat' = [beat EXCEPT ![b] = r]
      PROVE  Register!Next
  <2>1. beat'[b] = r /\ \A c \in Beats : c # b => beat'[c] = beat[c]
    BY <1>1, <1>5
  <2>2. StageOf(b) = "new" /\ StageOf(b)' = "open"
    BY <1>1, <1>5, <2>1, StageNow, StageNext
  <2>3. \A c \in Beats : c # b => StageOf(c)' = StageOf(c)
    BY <2>1 DEF StageOf
  <2>4. Stage[b] = "new" /\ Stage' = [Stage EXCEPT ![b] = "open"]
    BY <2>2, <2>3, Zenon DEF Stage
  <2>5. Cpe' = [Cpe EXCEPT ![b] = s]
    <3>1. beat'[b].sn = s /\ \A c \in Beats : c # b => beat'[c].sn = beat[c].sn
      BY <1>5, <2>1
    <3> QED
      BY <3>1, Zenon DEF Cpe
  <2>6. Register!Open(b, s)
    BY <1>2, <1>3, <2>4, <2>5 DEF Register!Open, Register!Move
  <2> QED
    BY <2>6 DEF Register!Next
<1>6. ASSUME ~Advance(b, "400")
      PROVE  \E s \in SNs : \E r : /\ r.phase = "stamped" /\ r.sn = s
                                   /\ beat' = [beat EXCEPT ![b] = r]
  BY <1>6 DEF Receive
<1> QED
  BY <1>4, <1>5, <1>6

\* Metrics are no business of the register.
LEMMA ObserveStutters ==
  ASSUME Inductive, NEW b \in Beats, Observe(b)
  PROVE  UNCHANGED <<Stage, Cpe, status, Recorded>>
<1>1. "metered" \in Phases /\ Advance(b, "metered") /\ beat[b].phase = "stamped"
  BY DEF Phases, InFlight, Observe
<1>2. /\ Stage[b] = StageOf(b) /\ Stage' = [Stage EXCEPT ![b] = StageOf(b)']
      /\ Cpe' = Cpe /\ beat'[b].phase = "metered"
  BY <1>1, AdvanceMoves
<1>3. StageOf(b) = "open" /\ StageOf(b)' = "open"
  BY <1>1, <1>2, StageNow, StageNext
<1>4. Stage' = Stage
  BY <1>2, <1>3, Zenon DEF Stage
<1>5. UNCHANGED <<status, history>>
  BY DEF Observe
<1> QED
  BY <1>2, <1>4, <1>5 DEF Recorded

\* A beat that ends where it is.
LEMMA EndGivesUp ==
  ASSUME Inductive, NEW b \in Beats, beat[b].phase \in {"metered", "upserted"},
         Advance(b, "500"), UNCHANGED <<status, history>>
  PROVE  Register!Next
<1>1. "500" \in Phases
  BY DEF Phases, Answered
<1>2. /\ Stage[b] = StageOf(b) /\ Stage' = [Stage EXCEPT ![b] = StageOf(b)']
      /\ Cpe' = Cpe /\ beat'[b].phase = "500"
  BY <1>1, AdvanceMoves
<1>3. StageOf(b) \in {"open", "written"} /\ StageOf(b)' = "failed"
  BY <1>2, StageNow, StageNext
<1>4. {b} \in SUBSET Register!Pending
  BY <1>2, <1>3 DEF Register!Pending
<1>5. Stage' = [c \in Beats |-> IF c \in {b} THEN "failed" ELSE Stage[c]]
  BY <1>2, <1>3 DEF Stage
<1>6. Register!GiveUp({b})
  BY <1>2, <1>5 DEF Register!GiveUp, Recorded
<1> QED
  BY <1>4, <1>6 DEF Register!Next

\* The upsert is the instant at which a beat takes effect, answered or not.
LEMMA UpsertWrites ==
  ASSUME Inductive, NEW b \in Beats, beat[b].phase = "metered",
         NEW phase \in {"upserted", "500"}, Advance(b, phase), WriteStatus(b),
         UNCHANGED history
  PROVE  Register!Next
<1>1. phase \in Phases
  BY DEF Phases, InFlight, Answered
<1>2. /\ Stage[b] = StageOf(b) /\ Stage' = [Stage EXCEPT ![b] = StageOf(b)']
      /\ Cpe' = Cpe /\ Cpe[b] = beat[b].sn /\ beat'[b].phase = phase
  BY <1>1, AdvanceMoves
<1>3. StageOf(b) = "open" /\ StageOf(b)' \in {"written", "failed"}
  BY <1>2, StageNow, StageNext
<1>4. Register!Move(b, "open", "written") \/ Register!Move(b, "open", "failed")
  BY <1>2, <1>3 DEF Register!Move
<1>5. status' = [status EXCEPT ![Cpe[b]] = b] /\ Recorded' = Recorded
  BY <1>2 DEF WriteStatus, Recorded
<1>6. Register!Write(b)
  BY <1>2, <1>4, <1>5 DEF Register!Write
<1> QED
  BY <1>6 DEF Register!Next

\* The insert puts a beat on record, answered or not.
LEMMA InsertRecords ==
  ASSUME Inductive, NEW b \in Beats, beat[b].phase = "upserted",
         NEW phase \in {"202", "500"}, Advance(b, phase),
         HistoryKey(b) \notin DOMAIN history, Append(b), UNCHANGED status
  PROVE  Register!Next
<1>1. phase \in Phases
  BY DEF Phases, Answered
<1>2. /\ Stage[b] = StageOf(b) /\ Stage' = [Stage EXCEPT ![b] = StageOf(b)']
      /\ Cpe' = Cpe /\ beat'[b].phase = phase
  BY <1>1, AdvanceMoves
<1>3. StageOf(b) = "written" /\ StageOf(b)' \in {"acknowledged", "failed"}
  BY <1>2, StageNow, StageNext
<1>4. \/ Register!Move(b, "written", "acknowledged")
      \/ Register!Move(b, "written", "failed")
  BY <1>2, <1>3 DEF Register!Move
<1>5. Recorded' = Recorded \cup {b}
  <2>1. PICK key : key = HistoryKey(b)
    OBVIOUS
  <2>2. /\ DOMAIN history' = DOMAIN history \cup {key} /\ history'[key] = b
        /\ \A k \in DOMAIN history : history'[k] = history[k]
    BY <2>1 DEF Append
  <2> QED
    BY <2>2 DEF Recorded
<1>6. Register!Record(b)
  BY <1>2, <1>4, <1>5 DEF Register!Record
<1> QED
  BY <1>6 DEF Register!Next

\* A replica that dies gives up whatever it was at.
LEMMA RestartGivesUp ==
  ASSUME Inductive, NEW p \in Pods, Restart(p)
  PROVE  Register!Next
<1> DEFINE lost == {b \in Beats : beat[b].pod = p /\ beat[b].phase \in InFlight}
<1>1. beat \in [Beats -> BeatRecords]
  BY DEF Inductive, TypeOK
<1>2. ASSUME NEW b \in Beats
      PROVE  /\ [beat[b] EXCEPT !.phase = "lost"].phase = "lost"
             /\ [beat[b] EXCEPT !.phase = "lost"].sn = beat[b].sn
  <2>1. beat[b] \in BeatRecords
    BY <1>1
  <2> QED
    BY <2>1, Zenon DEF BeatRecords
<1>3. \A b \in Beats :
        /\ b \in lost => beat'[b].phase = "lost" /\ beat'[b].sn = beat[b].sn
        /\ b \notin lost => beat'[b] = beat[b]
  BY <1>2, Zenon DEF Restart
<1>4. lost \in SUBSET Register!Pending
  BY StageNow DEF Register!Pending, Stage, InFlight
<1>5. Stage' = [b \in Beats |-> IF b \in lost THEN "failed" ELSE Stage[b]]
  <2>1. \A b \in Beats : StageOf(b)' = IF b \in lost THEN "failed" ELSE Stage[b]
    <3>1. ASSUME NEW b \in lost PROVE StageOf(b)' = "failed"
      BY <1>3, StageNext
    <3>2. ASSUME NEW b \in Beats, b \notin lost PROVE StageOf(b)' = Stage[b]
      <4>1. beat'[b] = beat[b]
        BY <1>3, <3>2
      <4>2. StageOf(b)' = StageOf(b)
        BY <4>1 DEF StageOf
      <4> QED
        BY <3>2, <4>2 DEF Stage
    <3> HIDE DEF lost
    <3> QED
      BY <3>1, <3>2
  <2> HIDE DEF lost
  <2> QED
    BY <2>1 DEF Stage
<1>6. Cpe' = Cpe
  BY <1>3 DEF Cpe
<1>7. UNCHANGED <<status, Recorded>>
  BY DEF Restart, Recorded
<1> HIDE DEF lost
<1>8. Register!GiveUp(lost)
  BY <1>5, <1>6, <1>7 DEF Register!GiveUp
<1> QED
  BY <1>4, <1>8 DEF Register!Next

\* Every step of the heartbeat path is a step of the register or a stutter.
LEMMA EveryStepIsAllowed ==
  Inductive /\ [Next]_vars => [Register!Next]_<<Stage, Cpe, status, Recorded>>
<1> SUFFICES ASSUME Inductive, [Next]_vars
             PROVE  Register!Next \/ UNCHANGED <<Stage, Cpe, status, Recorded>>
  OBVIOUS
<1>1. ASSUME NEW b \in Beats, UpsertStatus(b) \/ UpsertFails(b)
      PROVE  Register!Next
  <2>1. beat[b].phase = "metered" /\ UNCHANGED history
    BY <1>1 DEF UpsertStatus, UpsertFails
  <2>2. \/ Advance(b, "upserted") /\ WriteStatus(b)
        \/ Advance(b, "500") /\ WriteStatus(b)
        \/ Advance(b, "500") /\ UNCHANGED status
    BY <1>1 DEF UpsertStatus, UpsertFails
  <2> QED
    BY <2>1, <2>2, UpsertWrites, EndGivesUp
<1>2. ASSUME NEW b \in Beats, InsertHistory(b) \/ InsertFails(b)
      PROVE  Register!Next
  <2>1. beat[b].phase = "upserted" /\ UNCHANGED status
    BY <1>2 DEF InsertHistory, InsertFails
  <2>2. \/ /\ HistoryKey(b) \notin DOMAIN history /\ Append(b)
           /\ Advance(b, "202") \/ Advance(b, "500")
        \/ Advance(b, "500") /\ UNCHANGED history
    BY <1>2 DEF InsertHistory, InsertFails
  <2> QED
    BY <2>1, <2>2, InsertRecords, EndGivesUp
<1>3. CASE Tick \/ Show \/ UNCHANGED vars
  <2>1. UNCHANGED <<beat, status, history>>
    BY <1>3, ShowOnlyReads DEF Tick, vars
  <2> QED
    BY <2>1 DEF Stage, StageOf, Cpe, Recorded
<1> QED
  BY <1>1, <1>2, <1>3, ReceiveOpens, ObserveStutters, RestartGivesUp
     DEF Next, Handle

\* The heartbeat path implements the register and its record: a heartbeat takes
\* effect at most once, between its receipt and its answer, is on record only
\* after that, for ever, and is acknowledged only after both.
THEOREM HeartbeatsImplementRegister == Spec => ImplementsRegister
<1>1. Init => Register!Init
  <2> SUFFICES ASSUME Init PROVE Register!Init
    OBVIOUS
  <2>1. \A b \in Beats : StageOf(b) = "new" /\ beat[b].sn = None
    BY StageNow DEF Init
  <2>2. Recorded = {} /\ status = [s \in SNs |-> None]
    BY DEF Init, Recorded
  <2> QED
    BY <2>1, <2>2 DEF Register!Init, Stage, Cpe
<1> QED
  BY <1>1, EveryStepIsAllowed, InductiveInvariant, PTL
     DEF Spec, ImplementsRegister, Register!Spec

\* The abstract specification alone gives types and soundness of the records.
LEMMA RegisterStart ==
  Register!Init => Register!RegisterTypeOK /\ Register!Sound
BY DEF Register!Init, Register!RegisterTypeOK, Register!Sound, Register!Stages, Register!Pending

LEMMA RegisterStep ==
  /\ Register!RegisterTypeOK /\ Register!Sound
  /\ [Register!Next]_<<Stage, Cpe, status, Recorded>>
  => Register!RegisterTypeOK' /\ Register!Sound'
<1> SUFFICES ASSUME Register!RegisterTypeOK, Register!Sound,
                    [Register!Next]_<<Stage, Cpe, status, Recorded>>
             PROVE  Register!RegisterTypeOK' /\ Register!Sound'
  OBVIOUS
<1> USE DEF Register!RegisterTypeOK, Register!Sound, Register!Stages, Register!Pending
<1>1. ASSUME NEW b \in Beats, Register!Refuse(b)
      PROVE  Register!RegisterTypeOK' /\ Register!Sound'
  BY <1>1, HeartbeatAssumption DEF Register!Refuse, Register!Move
<1>2. ASSUME NEW b \in Beats, NEW s \in SNs, Register!Open(b, s)
      PROVE  Register!RegisterTypeOK' /\ Register!Sound'
  BY <1>2, HeartbeatAssumption DEF Register!Open, Register!Move
<1>3. ASSUME NEW b \in Beats, Register!Write(b)
      PROVE  Register!RegisterTypeOK' /\ Register!Sound'
  BY <1>3, HeartbeatAssumption DEF Register!Write, Register!Move
<1>4. ASSUME NEW b \in Beats, Register!Record(b)
      PROVE  Register!RegisterTypeOK' /\ Register!Sound'
  BY <1>4, HeartbeatAssumption DEF Register!Record, Register!Move
<1>5. ASSUME NEW lost \in SUBSET Register!Pending, Register!GiveUp(lost)
      PROVE  Register!RegisterTypeOK' /\ Register!Sound'
  BY <1>5, HeartbeatAssumption DEF Register!GiveUp
<1>6. CASE UNCHANGED <<Stage, Cpe, status, Recorded>>
  BY <1>6
<1> QED
  BY <1>1, <1>2, <1>3, <1>4, <1>5, <1>6 DEF Register!Next

\* So the status of a CPE comes from a heartbeat about it that took effect, and
\* nothing is on record that did not: what follows from the abstract
\* specification holds of the tables.
THEOREM RecordsAreSound == Spec => []Register!Sound
BY HeartbeatsImplementRegister, RegisterStart, RegisterStep, PTL
   DEF ImplementsRegister, Register!Spec
=============================================================================
