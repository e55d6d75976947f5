--------------------------- MODULE StatusListing ---------------------------
(***************************************************************************)
(* The queries of the API, GET /api/cpe and GET /api/cpe/:sn, while CPEs   *)
(* send heartbeats: a client walks through the pages of cpe_status, each   *)
(* of them a query of its own, and looks up CPEs, while first heartbeats   *)
(* insert rows before, behind and inside the part it has read and later    *)
(* ones change which columns are NULL.                                     *)
(***************************************************************************)
EXTENDS Integers, FiniteSets

CONSTANTS
  SNs,           \* serial numbers, as their ranks in the order of the column
  DefaultLimit,  \* 50
  MaxLimit,      \* 500
  Asked,         \* the limits and offsets clients ask for
  None           \* a query parameter that is no integer

ASSUME ListingAssumption ==
  /\ SNs \subseteq Int
  /\ IsFiniteSet(SNs)
  /\ DefaultLimit \in Nat \ {0}
  /\ MaxLimit \in Nat
  /\ DefaultLimit <= MaxLimit
  /\ Asked \subseteq Int
  /\ None \notin Int

VARIABLES
  row,    \* cpe_status: the columns that are NULL in each row
  walk,   \* the client that lists: what it asks for next, what it has seen,
          \* and whether its last page met an error of the database
  lookup  \* its last GET of one CPE: was it listed before, did the query meet
          \* an error of the database, and the answer

vars == <<row, walk, lookup>>

\* Nothing deletes a row.
registered == DOMAIN row

\* The columns a heartbeat may leave out.
Optional == {"wan_ip", "sw_version", "cpu_pct", "mem_pct"}

\* Bound of the model: a heartbeat has all of them or none.
Contents == {{}, Optional}

TypeOK ==
  /\ registered \subseteq SNs
  /\ \A s \in registered : row[s] \in Contents
  /\ walk.phase \in {"idle", "walking", "done", "failed"}
  /\ walk.limit \in Asked \cup {None}
  /\ walk.offset \in Int \cup {None}
  /\ walk.seen \subseteq registered
  /\ walk.known \subseteq registered
  /\ walk.dbError \in BOOLEAN
  /\ lookup \in [listed : BOOLEAN, dbError : BOOLEAN, code : {0, 200, 404, 500}]

Init ==
  /\ row \in UNION {[S -> Contents] : S \in SUBSET SNs}
  /\ walk = [phase |-> "idle", limit |-> None, offset |-> None,
             seen |-> {}, known |-> {}, dbError |-> FALSE]
  /\ lookup = [listed |-> FALSE, dbError |-> FALSE, code |-> 0]

\* BUG: a heartbeat without a time is stored without one.
HeartbeatUntimed(s) ==
  /\ \E nulls \in Contents :
       row' = [t \in registered \cup {s} |->
                 IF t = s /\ nulls # {} THEN nulls \cup {"last_seen"}
                 ELSE IF t = s THEN nulls ELSE row[t]]
  /\ UNCHANGED <<walk, lookup>>

\* The upsert of a heartbeat: a first one inserts the row of its CPE, a later
\* one sets every column; last_seen is the time of the request by default.
Heartbeat(s) ==
  /\ \E nulls \in Contents :
       row' = [t \in registered \cup {s} |-> IF t = s THEN nulls ELSE row[t]]
  /\ UNCHANGED <<walk, lookup>>

-----------------------------------------------------------------------------
\* BUG: the percentages are plain integers.
PointersOfText == {"last_seen", "wan_ip", "sw_version"}

\* The fields of CPEStatus that can take a NULL.
Pointers == {"last_seen", "wan_ip", "sw_version", "cpu_pct", "mem_pct"}

\* sqlx can store the row in a CPEStatus.
Scans(s) == row[s] \subseteq Pointers

(* handleListCPE *)

NormalOffset(offset) == IF offset = None \/ offset < 0 THEN 0 ELSE offset

\* BUG: a limit of zero passes.
NormalLimitZero(limit) ==
  IF limit = None \/ limit < 0 \/ limit > MaxLimit THEN DefaultLimit ELSE limit

NormalLimit(limit) ==
  IF limit = None \/ limit <= 0 \/ limit > MaxLimit THEN DefaultLimit ELSE limit

\* How many rows come before s, ORDER BY sn.
Rank(s) == Cardinality({t \in registered : t < s})

\* ORDER BY sn LIMIT limit OFFSET offset.
PageOf(limit, offset) ==
  {s \in registered : Rank(s) \in offset .. offset + limit - 1}

\* BUG: the reply repeats the limit the client asked for.
ReplyEchoing(limit, offset) ==
  [items  |-> PageOf(NormalLimit(limit), NormalOffset(offset)),
   offset |-> NormalOffset(offset),
   limit  |-> IF limit = None THEN NormalLimit(limit) ELSE limit]

\* The reply says which limit and offset were used.
Reply(limit, offset) ==
  [items  |-> PageOf(NormalLimit(limit), NormalOffset(offset)),
   offset |-> NormalOffset(offset),
   limit  |-> NormalLimit(limit)]

(* handleGetCPE *)

\* Only sql.ErrNoRows is 404; every other error of db.Get is 500.
CodeOfGet(s, dbError) ==
  CASE dbError -> 500
    [] ~dbError /\ s \notin registered -> 404
    [] ~dbError /\ s \in registered -> IF Scans(s) THEN 200 ELSE 500

-----------------------------------------------------------------------------
(* A client that lists everything: it goes on behind the page it got until *)
(* a page comes back short.                                                *)

Start ==
  /\ walk.phase # "walking"
  /\ \E limit \in Asked \cup {None}, offset \in {n \in Asked : n <= 0} \cup {None} :
       walk' = [phase |-> "walking", limit |-> limit, offset |-> offset,
                seen |-> {}, known |-> registered, dbError |-> FALSE]
  /\ UNCHANGED <<row, lookup>>

\* A row that cannot be stored makes the page a 500: the client gives up.
Step ==
  LET reply == Reply(walk.limit, walk.offset) IN
  /\ walk.phase = "walking"
  /\ IF \A s \in reply.items : Scans(s)
     THEN walk' = [walk EXCEPT
            !.seen   = walk.seen \cup reply.items,
            !.offset = reply.offset + reply.limit,
            !.phase  = IF Cardinality(reply.items) < reply.limit
                       THEN "done" ELSE "walking"]
     ELSE walk' = [walk EXCEPT !.phase = "failed"]
  /\ UNCHANGED <<row, lookup>>

\* So does a SELECT that fails.
StepFails ==
  /\ walk.phase = "walking"
  /\ walk' = [walk EXCEPT !.phase = "failed", !.dbError = TRUE]
  /\ UNCHANGED <<row, lookup>>

\* It asks for one CPE, one of those it has seen or any other.
Get(s) ==
  /\ \E dbError \in BOOLEAN :
       lookup' = [listed |-> s \in walk.seen, dbError |-> dbError,
                  code |-> CodeOfGet(s, dbError)]
  /\ UNCHANGED <<row, walk>>

Next == Start \/ Step \/ StepFails \/ \E s \in SNs : Heartbeat(s) \/ Get(s)

\* The client goes on; CPEs need not send anything.
Spec == Init /\ [][Next]_vars /\ WF_vars(Step)

-----------------------------------------------------------------------------
(* Properties *)

\* A client that goes through all pages meets every CPE that was registered
\* when it began, however many register meanwhile and whatever limit it asks
\* for: rows only move to higher offsets, and the reply tells the limit that
\* handleListCPE really used.
NothingSkipped == walk.phase = "done" => walk.known \subseteq walk.seen

\* The walk ends: no page comes back full for ever, and none is a 500 unless
\* its SELECT failed, whatever limit was asked for and whatever columns the
\* heartbeats left empty.
WalkEnds ==
  walk.phase = "walking" ~>
    walk.phase = "done" \/ (walk.phase = "failed" /\ walk.dbError)

\* What the list shows can be fetched, and a CPE that never reported is an
\* answer and no failure, whatever columns heartbeats left empty in between:
\* only an error of the database is a 500.
ListedIsFetched ==
  lookup.code # 0 =>
    \/ lookup.code = 500 /\ lookup.dbError
    \/ lookup.code = 200 /\ ~lookup.dbError
    \/ lookup.code = 404 /\ ~lookup.dbError /\ ~lookup.listed
=============================================================================
