------------------------- MODULE StatusListingProofs -------------------------
(* Theorems about StatusListing, for any serial numbers and any limits. *)
EXTENDS StatusListing, FiniteSetTheorems, TLAPS

\* The rows of the table and what the client has noted are of their types.
Types ==
  /\ registered \subseteq SNs
  /\ \A s \in registered : row[s] \in Contents
  /\ walk \in [phase : {"idle", "walking", "done", "failed"},
               limit : Asked \cup {None}, offset : Int \cup {None},
               seen : SUBSET registered, known : SUBSET registered,
               dbError : BOOLEAN]
  /\ lookup \in [listed : BOOLEAN, dbError : BOOLEAN, code : {0, 200, 404, 500}]

\* A client under way has seen what it knew of before its offset.
SeenBehind ==
  walk.phase = "walking" =>
    \A s \in walk.known : Rank(s) < NormalOffset(walk.offset) => s \in walk.seen

ListInv == Types /\ SeenBehind /\ NothingSkipped /\ ListedIsFetched

-----------------------------------------------------------------------------
(* Ranks *)

\* The rows before one row are finitely many.
LEMMA RanksAreNumbers ==
  ASSUME Types
  PROVE  /\ registered \subseteq Int /\ IsFiniteSet(registered)
         /\ \A s \in registered : /\ IsFiniteSet({t \in registered : t < s})
                                  /\ Rank(s) \in Nat
<1>1. registered \subseteq Int /\ IsFiniteSet(registered)
  BY ListingAssumption, FS_Subset DEF Types
<1>2. ASSUME NEW s \in registered
      PROVE  IsFiniteSet({t \in registered : t < s}) /\ Rank(s) \in Nat
  <2>1. IsFiniteSet({t \in registered : t < s})
    BY <1>1, FS_Subset
  <2> QED BY <2>1, FS_CardinalityType DEF Rank
<1> QED BY <1>1, <1>2

LEMMA RankType ==
  ASSUME Types, NEW s \in registered
  PROVE  Rank(s) \in Nat
  BY RanksAreNumbers

\* Ranks grow with the serial numbers.
LEMMA RankIncreases ==
  ASSUME Types, NEW s \in registered, NEW t \in registered, s < t
  PROVE  Rank(s) < Rank(t)
<1> DEFINE Before(x) == {u \in registered : u < x}
<1>1. Before(s) \subseteq Before(t) /\ s \in Before(t) \ Before(s)
  BY RanksAreNumbers
<1>2. IsFiniteSet(Before(t)) /\ Rank(s) \in Nat /\ Rank(t) \in Nat
  BY RanksAreNumbers
<1>3. /\ Cardinality(Before(s)) <= Cardinality(Before(t))
      /\ Cardinality(Before(s)) # Cardinality(Before(t))
  BY <1>1, <1>2, FS_Subset
<1> QED
  BY <1>2, <1>3 DEF Rank

\* No rank below that of a row is left out.
LEMMA RanksHaveNoGap ==
  ASSUME Types, NEW x \in registered, NEW i \in 0 .. Rank(x) - 1
  PROVE  \E t \in registered : Rank(t) = i
<1> DEFINE A == {t \in registered : t < x}
           n == Rank(x)
           f == [t \in A |-> Rank(t)]
<1>1. n \in Nat /\ IsFiniteSet(A) /\ Cardinality(A) = n
  BY RanksAreNumbers DEF Rank
<1>2. f \in [A -> 0 .. n - 1]
  <2>1. ASSUME NEW t \in A PROVE Rank(t) \in 0 .. n - 1
    <3>1. Rank(t) \in Nat /\ Rank(t) < n
      BY RankType, RankIncreases
    <3> QED BY <1>1, <3>1
  <2> QED BY <2>1
<1>3. ASSUME NEW s \in A, NEW t \in A, s # t PROVE f[s] # f[t]
  <2>1. s \in Int /\ t \in Int /\ (s < t \/ t < s)
    BY <1>3, RanksAreNumbers
  <2>2. Rank(s) \in Nat /\ Rank(t) \in Nat
    BY RanksAreNumbers
  <2> QED BY <2>1, <2>2, RankIncreases
<1>4. f \in Injection(A, 0 .. n - 1)
  BY <1>2, <1>3 DEF Injection, IsInjective
<1>5. IsFiniteSet(0 .. n - 1) /\ Cardinality(0 .. n - 1) = n
  BY <1>1, FS_Interval
<1>6. f \in Surjection(A, 0 .. n - 1)
  BY <1>1, <1>4, <1>5, FS_Injection
<1>7. PICK t \in A : f[t] = i
  BY <1>6 DEF Surjection
<1> QED
  BY <1>7

\* Behind a page that comes back short there is nothing.
LEMMA ShortPageIsLast ==
  ASSUME Types, NEW limit \in Nat \ {0}, NEW offset \in Nat,
         Cardinality(PageOf(limit, offset)) < limit, NEW x \in registered
  PROVE  Rank(x) < offset + limit
<1> SUFFICES ASSUME Rank(x) >= offset + limit PROVE FALSE
  <2>1. Rank(x) \in Nat
    BY RankType
  <2> QED BY <2>1
<1> DEFINE I == offset .. offset + limit - 1
           g == [i \in I |-> CHOOSE t \in registered : Rank(t) = i]
<1>1. ASSUME NEW i \in I PROVE g[i] \in PageOf(limit, offset) /\ Rank(g[i]) = i
  <2>1. i \in 0 .. Rank(x) - 1
    <3>1. Rank(x) \in Nat
      BY RankType
    <3> QED BY <3>1
  <2>2. \E t \in registered : Rank(t) = i
    BY <2>1, RanksHaveNoGap
  <2> QED BY <2>2 DEF PageOf
<1>2. g \in Injection(I, PageOf(limit, offset))
  <2>1. g \in [I -> PageOf(limit, offset)]
    BY <1>1
  <2>2. ASSUME NEW i \in I, NEW j \in I, g[i] = g[j] PROVE i = j
    BY <1>1, <2>2
  <2> HIDE DEF g
  <2> QED BY <2>1, <2>2 DEF Injection, IsInjective
<1>3. IsFiniteSet(PageOf(limit, offset))
  BY RanksAreNumbers, FS_Subset DEF PageOf
<1>4. Cardinality(I) = limit
  BY FS_Interval
<1>5. limit <= Cardinality(PageOf(limit, offset))
  BY <1>2, <1>3, <1>4, FS_Injection
<1> QED
  BY <1>3, <1>5, FS_CardinalityType

-----------------------------------------------------------------------------
(* The steps *)

\* What handleListCPE makes of its parameters.
LEMMA NormalTypes ==
  ASSUME NEW limit \in Int \cup {None}, NEW offset \in Int \cup {None}
  PROVE  NormalLimit(limit) \in Nat \ {0} /\ NormalOffset(offset) \in Nat
<1>1. NormalLimit(limit) \in Nat \ {0}
  <2>1. CASE limit = None
    BY <2>1, ListingAssumption DEF NormalLimit
  <2>2. CASE limit \in Int
    BY <2>2, ListingAssumption DEF NormalLimit
  <2> QED BY <2>1, <2>2
<1>2. NormalOffset(offset) \in Nat
  <2>1. CASE offset = None
    BY <2>1 DEF NormalOffset
  <2>2. CASE offset \in Int
    BY <2>2, ListingAssumption DEF NormalOffset
  <2> QED BY <2>1, <2>2
<1> QED
  BY <1>1, <1>2

LEMMA ListInit == Init => ListInv
<1> SUFFICES ASSUME Init PROVE ListInv
  OBVIOUS
<1>1. registered \subseteq SNs /\ \A s \in registered : row[s] \in Contents
  BY DEF Init, registered
<1> QED
  BY <1>1 DEF Init, ListInv, Types, SeenBehind, NothingSkipped, ListedIsFetched

\* A row that is inserted only moves others to higher offsets.
LEMMA HeartbeatStep ==
  ASSUME ListInv, NEW s \in SNs, Heartbeat(s)
  PROVE  ListInv'
<1>1. PICK nulls \in Contents :
        row' = [t \in registered \cup {s} |-> IF t = s THEN nulls ELSE row[t]]
  BY DEF Heartbeat
<1>2. registered' = registered \cup {s} /\ \A t \in registered' : row'[t] \in Contents
  BY <1>1 DEF registered, ListInv, Types
<1>3. UNCHANGED <<walk, lookup>>
  BY DEF Heartbeat
<1>4. Types'
  BY <1>2, <1>3 DEF ListInv, Types
<1>5. SeenBehind'
  <2> SUFFICES ASSUME walk.phase = "walking", NEW t \in walk.known,
                      Rank(t)' < NormalOffset(walk.offset)
               PROVE  t \in walk.seen
    BY <1>3 DEF SeenBehind, NormalOffset
  <2>1. t \in registered /\ t \in registered'
    BY <1>2 DEF ListInv, Types
  <2>2. {u \in registered : u < t} \subseteq {u \in registered' : u < t}
    BY <1>2
  <2>3. IsFiniteSet({u \in registered' : u < t})
    <3>1. s \in SNs /\ registered \subseteq SNs
      BY DEF ListInv, Types
    <3>2. registered' \subseteq SNs
      BY <1>2, <3>1
    <3>3. {u \in registered' : u < t} \subseteq SNs
      BY <3>2
    <3> QED BY <3>3, ListingAssumption, FS_Subset
  <2>4. Rank(t) <= Rank(t)' /\ Rank(t)' \in Nat
    BY <2>2, <2>3, FS_Subset, FS_CardinalityType DEF Rank
  <2>5. Rank(t) \in Nat
    BY <2>1, RankType DEF ListInv
  <2>6. NormalOffset(walk.offset) \in Nat
    BY NormalTypes DEF ListInv, Types
  <2>7. Rank(t) < NormalOffset(walk.offset)
    BY <2>4, <2>5, <2>6
  <2> QED BY <2>7 DEF ListInv, SeenBehind
<1> QED
  BY <1>3, <1>4, <1>5 DEF ListInv, NothingSkipped, ListedIsFetched

\* A walk begins before everything it knows of.
LEMMA StartStep ==
  ASSUME ListInv, Start
  PROVE  ListInv'
<1>1. PICK limit \in Asked \cup {None}, offset \in {n \in Asked : n <= 0} \cup {None} :
        walk' = [phase |-> "walking", limit |-> limit, offset |-> offset,
                 seen |-> {}, known |-> registered, dbError |-> FALSE]
  BY DEF Start
<1>2. UNCHANGED <<row, lookup>> /\ registered' = registered
  BY DEF Start, registered
<1>3. Types'
  BY <1>1, <1>2, ListingAssumption DEF ListInv, Types
<1>4. NormalOffset(offset) = 0
  <2>1. CASE offset = None BY <2>1 DEF NormalOffset
  <2>2. CASE offset \in Int /\ offset <= 0
    BY <2>2, ListingAssumption DEF NormalOffset
  <2> QED BY <2>1, <2>2, ListingAssumption
<1>5. SeenBehind'
  <2> SUFFICES ASSUME NEW t \in registered, Rank(t)' < 0 PROVE FALSE
    BY <1>1, <1>4 DEF SeenBehind, NormalOffset
  <2>1. Rank(t)' = Rank(t) /\ Rank(t) \in Nat
    BY <1>2, RankType DEF ListInv, Rank
  <2> QED BY <2>1
<1> QED
  BY <1>1, <1>2, <1>3, <1>5 DEF ListInv, NothingSkipped, ListedIsFetched

\* Every row can be read into a CPEStatus.
LEMMA EveryRowScans ==
  ASSUME Types, NEW s \in registered
  PROVE  Scans(s)
  BY DEF Types, Contents, Optional, Pointers, Scans

\* A page takes the walk on by what handleListCPE really used.
LEMMA WalkStep ==
  ASSUME ListInv, Step
  PROVE  ListInv'
<1> DEFINE L == NormalLimit(walk.limit)
           O == NormalOffset(walk.offset)
           items == PageOf(L, O)
<1>1. L \in Nat \ {0} /\ O \in Nat
  <2>1. walk.limit \in Int \cup {None} /\ walk.offset \in Int \cup {None}
    <3>1. walk.limit \in Asked \cup {None} /\ walk.offset \in Int \cup {None}
      BY DEF ListInv, Types
    <3> QED BY <3>1, ListingAssumption
  <2> QED BY <2>1, NormalTypes
<1> DEFINE phase == IF Cardinality(items) < L THEN "done" ELSE "walking"
<1>2. /\ walk.phase = "walking"
      /\ walk' = [walk EXCEPT !.seen = walk.seen \cup items,
                              !.offset = O + L, !.phase = phase]
  BY EveryRowScans DEF Step, Reply, PageOf, ListInv
<1>3. UNCHANGED <<row, lookup>> /\ registered' = registered
  BY DEF Step, registered
<1>4. /\ walk'.phase = phase /\ walk'.seen = walk.seen \cup items
      /\ walk'.offset = O + L /\ walk'.known = walk.known
  BY <1>2 DEF ListInv, Types
<1> HIDE DEF L, O
<1>5. Types'
  <2>1. items \subseteq registered
    BY DEF PageOf
  <2>2. phase \in {"idle", "walking", "done", "failed"}
    OBVIOUS
  <2>3. O + L \in Int
    BY <1>1
  <2>4. walk' \in [phase : {"idle", "walking", "done", "failed"},
                   limit : Asked \cup {None}, offset : Int \cup {None},
                   seen : SUBSET registered, known : SUBSET registered,
                   dbError : BOOLEAN]
    <3> HIDE DEF items, phase
    <3> QED BY <1>2, <2>1, <2>2, <2>3 DEF ListInv, Types
  <2> QED BY <1>3, <2>4 DEF ListInv, Types
<1>6. ASSUME NEW t \in walk.known, Rank(t) < O + L
      PROVE  t \in walk'.seen
  <2>1. t \in registered /\ Rank(t) \in Nat
    BY RankType DEF ListInv, Types
  <2>2. CASE Rank(t) < O
    BY <1>2, <1>4, <2>2 DEF ListInv, SeenBehind, O
  <2>3. CASE ~(Rank(t) < O)
    <3>1. Rank(t) \in O .. O + L - 1
      BY <1>1, <1>6, <2>1, <2>3
    <3> QED BY <1>4, <2>1, <3>1 DEF PageOf
  <2> QED BY <2>2, <2>3
<1>7. SeenBehind'
  <2> SUFFICES ASSUME NEW t \in walk.known, Rank(t) < NormalOffset(O + L)
               PROVE  t \in walk'.seen
    BY <1>3, <1>4 DEF SeenBehind, NormalOffset, Rank
  <2>1. NormalOffset(O + L) = O + L
    BY <1>1, ListingAssumption DEF NormalOffset
  <2> QED BY <1>6, <2>1
<1>8. NothingSkipped'
  <2> SUFFICES ASSUME phase = "done", NEW t \in walk.known
               PROVE  t \in walk'.seen
    BY <1>4 DEF NothingSkipped
  <2>1. Cardinality(PageOf(L, O)) < L
    OBVIOUS
  <2>2. t \in registered
    BY DEF ListInv, Types
  <2>3. Rank(t) < O + L
    BY <1>1, <2>1, <2>2, ShortPageIsLast DEF ListInv
  <2> QED BY <1>6, <2>3
<1> QED
  BY <1>3, <1>5, <1>7, <1>8 DEF ListInv, ListedIsFetched

\* A walk that fails is over and has seen what it saw.
LEMMA FailStep ==
  ASSUME ListInv, StepFails
  PROVE  ListInv'
<1>1. walk' = [walk EXCEPT !.phase = "failed", !.dbError = TRUE]
  BY DEF StepFails
<1>2. UNCHANGED <<row, lookup>> /\ registered' = registered
  BY DEF StepFails, registered
<1>3. "failed" \in {"idle", "walking", "done", "failed"} /\ TRUE \in BOOLEAN
  OBVIOUS
<1>4. walk \in [phase : {"idle", "walking", "done", "failed"},
               limit : Asked \cup {None}, offset : Int \cup {None},
               seen : SUBSET registered, known : SUBSET registered,
               dbError : BOOLEAN]
  BY DEF ListInv, Types
<1>5. /\ walk'.phase = "failed"
      /\ walk' \in [phase : {"idle", "walking", "done", "failed"},
                   limit : Asked \cup {None}, offset : Int \cup {None},
                   seen : SUBSET registered, known : SUBSET registered,
                   dbError : BOOLEAN]
  BY <1>1, <1>3, <1>4, Zenon
<1>6. Types' /\ SeenBehind' /\ NothingSkipped' /\ ListedIsFetched'
  BY <1>2, <1>5 DEF ListInv, Types, SeenBehind, NothingSkipped, ListedIsFetched
<1> QED BY <1>6 DEF ListInv

\* What has been listed is still there and can be read.
LEMMA GetStep ==
  ASSUME ListInv, NEW s \in SNs, Get(s)
  PROVE  ListInv'
<1>1. UNCHANGED <<row, walk>> /\ registered' = registered
  BY DEF Get, registered
<1>2. s \in walk.seen => s \in registered
  BY DEF ListInv, Types
<1>3. /\ CodeOfGet(s, TRUE) = 500
      /\ s \in registered => CodeOfGet(s, FALSE) = 200
      /\ s \notin registered => CodeOfGet(s, FALSE) = 404
  BY EveryRowScans DEF CodeOfGet, ListInv
<1>4. ASSUME NEW e \in BOOLEAN, NEW code \in {200, 404, 500},
             lookup' = [listed |-> s \in walk.seen, dbError |-> e, code |-> code],
             \/ e = TRUE /\ code = 500
             \/ e = FALSE /\ code = 200
             \/ e = FALSE /\ code = 404 /\ s \notin walk.seen
      PROVE  /\ lookup' \in [listed : BOOLEAN, dbError : BOOLEAN,
                            code : {0, 200, 404, 500}]
             /\ ListedIsFetched'
  <2>1. lookup' \in [listed : BOOLEAN, dbError : BOOLEAN,
                     code : {0, 200, 404, 500}]
    BY <1>4
  <2>2. /\ lookup'.listed = (s \in walk.seen) /\ lookup'.dbError = e
        /\ lookup'.code = code
    BY <1>4
  <2>3. CASE e = TRUE /\ code = 500
    <3>1. lookup'.code = 500 /\ lookup'.dbError
      BY <2>2, <2>3, Zenon
    <3> QED BY <2>1, <3>1, Zenon DEF ListedIsFetched
  <2>4. CASE e = FALSE /\ code = 200
    <3>1. lookup'.code = 200 /\ ~lookup'.dbError
      BY <2>2, <2>4, Zenon
    <3> QED BY <2>1, <3>1, Zenon DEF ListedIsFetched
  <2>5. CASE e = FALSE /\ code = 404 /\ s \notin walk.seen
    <3>1. lookup'.code = 404 /\ ~lookup'.dbError /\ ~lookup'.listed
      BY <2>2, <2>5, Zenon
    <3> QED BY <2>1, <3>1, Zenon DEF ListedIsFetched
  <2> QED BY <1>4, <2>1, <2>3, <2>4, <2>5
<1>5. /\ lookup' \in [listed : BOOLEAN, dbError : BOOLEAN,
                      code : {0, 200, 404, 500}]
      /\ ListedIsFetched'
  <2>1. PICK e \in BOOLEAN :
          lookup' = [listed |-> s \in walk.seen, dbError |-> e,
                     code |-> CodeOfGet(s, e)]
    BY DEF Get
  <2>2. CASE e = TRUE
    <3>1. CodeOfGet(s, e) = 500
      BY <1>3, <2>2, Zenon
    <3> QED BY <1>4, <2>1, <2>2, <3>1
  <2>3. CASE e = FALSE
    <3>1. CASE s \in registered
      <4>1. CodeOfGet(s, e) = 200
        BY <1>3, <2>3, <3>1, Zenon
      <4> QED BY <1>4, <2>1, <2>3, <4>1
    <3>2. CASE s \notin registered
      <4>1. CodeOfGet(s, e) = 404 /\ s \notin walk.seen
        BY <1>2, <1>3, <2>3, <3>2, Zenon
      <4> QED BY <1>4, <2>1, <2>3, <4>1
    <3> QED BY <3>1, <3>2
  <2> QED BY <2>2, <2>3
<1> QED
  BY <1>1, <1>5 DEF ListInv, Types, SeenBehind, NothingSkipped, NormalOffset, Rank

\* Every step preserves the invariant.
LEMMA ListNext == ListInv /\ [Next]_vars => ListInv'
<1> SUFFICES ASSUME ListInv, [Next]_vars PROVE ListInv'
  OBVIOUS
<1>1. CASE Next
  BY <1>1, StartStep, WalkStep, FailStep, HeartbeatStep, GetStep DEF Next
<1>2. CASE UNCHANGED vars
  BY <1>2 DEF vars, ListInv, Types, SeenBehind, NothingSkipped, ListedIsFetched,
              NormalOffset, Rank, registered
<1> QED
  BY <1>1, <1>2

LEMMA ListInvariant == Spec => []ListInv
<1> QED BY ListInit, ListNext, PTL DEF Spec

\* Type correctness of the listing: above all, what the client has seen and
\* what it knew of are rows that are still in the table.
THEOREM TypeCorrect == Spec => []TypeOK
<1>1. ListInv => TypeOK
  BY DEF ListInv, Types, TypeOK
<1> QED BY <1>1, ListInvariant, PTL

\* A walk through all pages of GET /api/cpe misses no CPE that was registered
\* when it began, for any limits and any number of CPEs that register
\* meanwhile (handleListCPE).
THEOREM WalkSeesEverything == Spec => []NothingSkipped
<1> QED BY ListInvariant, PTL DEF ListInv

\* GET /api/cpe/:sn answers 200 for every CPE the list has shown, and 500 for
\* an error of the database only, never for a missing value (handleGetCPE and
\* CPEStatus).
THEOREM ListedCanBeFetched == Spec => []ListedIsFetched
<1> QED BY ListInvariant, PTL DEF ListInv
=============================================================================
