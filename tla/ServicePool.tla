----------------------------- MODULE ServicePool -----------------------------
(***************************************************************************)
(* The life of a service process, the same for acs-ingest, cpemon-api and  *)
(* cpemon-writer: it loads its configuration, connects to MySQL or ends,   *)
(* and then works with a pool of connections that handlers wait for        *)
(* without a time limit.  Pods die and are started again, MySQL goes down  *)
(* and comes back, and all pods share its max_connections.                 *)
(*                                                                         *)
(* The pool is database/sql, modelled from the limits db.go sets and the   *)
(* calls the services make: one statement, one connection.                 *)
(***************************************************************************)
EXTENDS Integers, FiniteSets

CONSTANTS
  Pods,             \* every process that may hold connections at a time
  Writers,          \* those that run cpemon-writer
  Requests,         \* requests, and runs of a writer's loop, in flight at most
  MaxOpen,          \* SetMaxOpenConns
  MaxIdle,          \* SetMaxIdleConns
  MaxConnections,   \* max_connections of MySQL
  Others,           \* connections of others: probes, the dumper, an operator
  Intervals,        \* what WORKER_INTERVAL may say (ticks)
  DefaultInterval,  \* 1s
  Batches,          \* what BATCH_SIZE may say
  DefaultBatch,     \* 50
  None              \* a variable that is unset, empty or cannot be parsed

ASSUME PoolAssumption ==
  /\ IsFiniteSet(Pods)
  /\ Writers \subseteq Pods
  /\ MaxOpen \in Nat \ {0}
  /\ MaxIdle \in Nat
  /\ MaxConnections \in Nat
  /\ Others \in Nat
  /\ DefaultInterval \in Nat \ {0}
  /\ DefaultBatch \in Nat \ {0}
  /\ Intervals \subseteq Int \cup {None}
  /\ Batches \subseteq Int \cup {None}
  /\ None \notin Int \cup Pods

\* All pools together fit into MySQL.
ASSUME CapacityAssumption ==
  Cardinality(Pods) * MaxOpen + Others <= MaxConnections

VARIABLES
  env,    \* the environment of the writers' deployment; it never changes
  mysql,  \* does MySQL answer
  pod,    \* how far the process of each pod is
  conns,  \* the open connections: pod and slot of its pool
  stale,  \* connections of dead processes that MySQL still counts
  req     \* requests in flight and the connections they hold

vars == <<env, mysql, pod, conns, stale, req>>

-----------------------------------------------------------------------------
\* BUG: a getenv without a default.
IntervalUnset(value) == IF value = None THEN 0 ELSE value

\* Load: a WORKER_INTERVAL that parses is taken as it is, zero and negative
\* ones too; a BATCH_SIZE has to be positive.
WorkerInterval(value) == IF value = None THEN DefaultInterval ELSE value

BatchSize(value) ==
  IF value # None /\ value > 0 THEN value ELSE DefaultBatch

Slots(p)   == {p} \X (1 .. MaxOpen)
ConnsOf(p) == conns \cap Slots(p)
InUse      == UNION {req[r].holds : r \in Requests}
IdleOf(p)  == ConnsOf(p) \ InUse

\* MySQL accepts one more connection.
Room == mysql /\ Cardinality(conns) + stale + Others < MaxConnections

Phases == {"starting", "connected", "serving", "exited", "killed"}
NoRequest == [phase |-> "idle", pod |-> None, todo |-> 0, holds |-> {}]

TypeOK ==
  /\ mysql \in BOOLEAN
  /\ pod \in [Pods -> Phases]
  /\ conns \subseteq Pods \X (1 .. MaxOpen)
  /\ \A c \in conns : pod[c[1]] \in {"connected", "serving"}
  /\ stale \in Nat
  /\ \A r \in Requests :
       \/ req[r] = NoRequest
       \/ /\ req[r].phase \in {"asking", "running", "broken"}
          /\ pod[req[r].pod] = "serving"
          /\ req[r].todo \in Nat \ {0}
          /\ req[r].holds \subseteq ConnsOf(req[r].pod)
          /\ Cardinality(req[r].holds) = IF req[r].phase = "running" THEN 1 ELSE 0

Init ==
  /\ env \in [interval : Intervals, batch : Batches]
  /\ mysql \in BOOLEAN
  /\ pod = [p \in Pods |-> "starting"]
  /\ conns = {}
  /\ stale = 0
  /\ req = [r \in Requests |-> NoRequest]

-----------------------------------------------------------------------------
(* The process *)

\* BUG: the connections of a process outlive it.
EndLeaking(p, how) ==
  /\ pod' = [pod EXCEPT ![p] = how]
  /\ req' = [r \in Requests |-> IF req[r].pod = p THEN NoRequest ELSE req[r]]
  /\ UNCHANGED <<env, mysql, conns, stale>>

\* The process of p ends: its pool and its requests are gone.  A process that
\* ends by itself closes its sockets and MySQL sees it at once; of one that is
\* killed, perhaps with its node, MySQL may count connections for a while.
End(p, how) ==
  /\ pod' = [pod EXCEPT ![p] = how]
  /\ conns' = conns \ Slots(p)
  /\ req' = [r \in Requests |-> IF req[r].pod = p THEN NoRequest ELSE req[r]]
  /\ \E n \in 0 .. Cardinality(ConnsOf(p)) :
       /\ how = "exited" => n = 0
       /\ stale' = stale + n
  /\ UNCHANGED <<env, mysql>>

\* Init: Ping opens the first connection of the pool.  Without it main ends
\* with log.Fatalf.
Connect(p) ==
  /\ pod[p] = "starting"
  /\ \/ /\ Room
        /\ pod' = [pod EXCEPT ![p] = "connected"]
        /\ conns' = conns \cup {<<p, 1>>}
        /\ UNCHANGED <<env, mysql, stale, req>>
     \/ /\ ~Room
        /\ End(p, "exited")

\* The metrics server and the router start.  The loop of a writer makes a
\* ticker of its interval, which panics unless that is positive.
Serve(p) ==
  /\ pod[p] = "connected"
  /\ IF p \in Writers /\ WorkerInterval(env.interval) <= 0
     THEN End(p, "exited")
     ELSE /\ pod' = [pod EXCEPT ![p] = "serving"]
          /\ UNCHANGED <<env, mysql, conns, stale, req>>

\* The pod is killed, by a probe, a rollout, a drain or a failure.
Kill(p) ==
  /\ pod[p] \notin {"exited", "killed"}
  /\ End(p, "killed")

\* Kubernetes starts the container again.
Restart(p) ==
  /\ pod[p] \in {"exited", "killed"}
  /\ pod' = [pod EXCEPT ![p] = "starting"]
  /\ UNCHANGED <<env, mysql, conns, stale, req>>

-----------------------------------------------------------------------------
(* MySQL *)

\* It goes down: every connection is gone, and who was using one will see it.
MysqlDown ==
  /\ mysql
  /\ mysql' = FALSE
  /\ conns' = {}
  /\ stale' = 0
  /\ req' = [r \in Requests |->
               IF req[r].phase # "running" THEN req[r]
               ELSE [phase |-> "broken", pod |-> req[r].pod,
                     todo |-> req[r].todo, holds |-> {}]]
  /\ UNCHANGED <<env, pod>>

MysqlUp ==
  /\ ~mysql
  /\ mysql' = TRUE
  /\ UNCHANGED <<env, pod, conns, stale, req>>

\* It notices that a process is dead, after a keep-alive, its wait_timeout or
\* the end of a statement, and forgets the connection.
Forget ==
  /\ stale > 0
  /\ stale' = stale - 1
  /\ UNCHANGED <<env, mysql, pod, conns, req>>

-----------------------------------------------------------------------------
(* Requests *)

Asking(p, n)     == [phase |-> "asking", pod |-> p, todo |-> n, holds |-> {}]
Running(p, n, c) == [phase |-> "running", pod |-> p, todo |-> n, holds |-> {c}]

\* What is left of r when n statements are still to be made.
Left(r, n) == IF n = 0 THEN NoRequest ELSE Asking(req[r].pod, n)

\* handleHeartbeat and handleAdmin make up to two statements, the other
\* handlers one; a run of the writer's loop makes a select and two for each
\* event of its batch, and there is one run at a time.
Statements(p) ==
  IF p \in Writers THEN 1 .. 1 + 2 * BatchSize(env.batch) ELSE 1 .. 2

Arrive(r, p) ==
  /\ req[r] = NoRequest
  /\ pod[p] = "serving"
  /\ p \in Writers => \A s \in Requests : req[s].pod # p
  /\ \E n \in Statements(p) : req' = [req EXCEPT ![r] = Asking(p, n)]
  /\ UNCHANGED <<env, mysql, pod, conns, stale>>

\* A failed statement ends a handler; a writer goes on with its next event.
AfterFailure(r) ==
  \/ req' = [req EXCEPT ![r] = NoRequest]
  \/ /\ req[r].pod \in Writers
     /\ req' = [req EXCEPT ![r] = Left(r, req[r].todo - 1)]

\* db.Exec, db.Get, db.Select: take an idle connection, or open one, or wait.
Acquire(r) ==
  LET p == req[r].pod
      n == req[r].todo IN
  /\ req[r].phase = "asking"
  /\ \/ \E c \in IdleOf(p) :
          /\ req' = [req EXCEPT ![r] = Running(p, n, c)]
          /\ UNCHANGED conns
     \/ /\ IdleOf(p) = {}
        /\ Room
        /\ \E c \in Slots(p) \ conns :
             /\ conns' = conns \cup {c}
             /\ req' = [req EXCEPT ![r] = Running(p, n, c)]
     \/ /\ IdleOf(p) = {} /\ Slots(p) \ conns # {}
        /\ ~Room
        /\ AfterFailure(r)
        /\ UNCHANGED conns
  /\ UNCHANGED <<env, mysql, pod, stale>>

\* A connection comes back to the pool, which keeps MaxIdle of them.
Released(r) ==
  IF Cardinality(IdleOf(req[r].pod)) < MaxIdle THEN conns
  ELSE conns \ req[r].holds

\* BUG: the rows of a query stay open until the handler returns, so that it
\* asks for a second connection while it holds the first.
EndStatementKeeping(r) ==
  /\ req[r].phase = "running"
  /\ IF req[r].todo = 1
     THEN req' = [req EXCEPT ![r] = NoRequest] /\ conns' = Released(r)
     ELSE /\ req' = [req EXCEPT ![r] =
               [phase |-> "asking", pod |-> req[r].pod,
                todo |-> req[r].todo - 1, holds |-> req[r].holds]]
          /\ UNCHANGED conns
  /\ UNCHANGED <<env, mysql, pod, stale>>

\* A statement ends well, or with an error that leaves the connection alone.
EndStatement(r) ==
  /\ req[r].phase = "running"
  /\ \/ req' = [req EXCEPT ![r] = Left(r, req[r].todo - 1)]
     \/ AfterFailure(r)
  /\ conns' = Released(r)
  /\ UNCHANGED <<env, mysql, pod, stale>>

\* The error of a lost connection arrives.
SeeBroken(r) ==
  /\ req[r].phase = "broken"
  /\ AfterFailure(r)
  /\ UNCHANGED <<env, mysql, pod, conns, stale>>

\* An idle connection is closed: it is older than SetConnMaxLifetime.
Expire(c) ==
  /\ c \notin InUse
  /\ conns' = conns \ {c}
  /\ UNCHANGED <<env, mysql, pod, stale, req>>

-----------------------------------------------------------------------------
Process == \E p \in Pods : Connect(p) \/ Serve(p) \/ Kill(p) \/ Restart(p)

Work == \/ \E r \in Requests, p \in Pods : Arrive(r, p)
        \/ \E r \in Requests : Acquire(r) \/ EndStatement(r) \/ SeeBroken(r)
        \/ \E c \in conns : Expire(c)

Next == Process \/ MysqlDown \/ MysqlUp \/ Forget \/ Work

Spec == Init /\ [][Next]_vars

\* Processes start, statements end or break, MySQL notices that a process is
\* dead, and the pool gives a connection that becomes free to a waiter it
\* picks at random, so that none is passed over for ever.
Fairness ==
  /\ \A p \in Pods : WF_vars(Connect(p)) /\ WF_vars(Serve(p)) /\ WF_vars(Restart(p))
  /\ WF_vars(Forget)
  /\ \A r \in Requests : /\ SF_vars(Acquire(r))
                         /\ WF_vars(EndStatement(r))
                         /\ WF_vars(SeeBroken(r))

FairSpec == Spec /\ Fairness

-----------------------------------------------------------------------------
(* Properties *)

\* No request waits for ever, although nothing limits its wait: whoever holds
\* a connection is not waiting for another one.
AllAnswered == \A r \in Requests : req[r] # NoRequest ~> req[r] = NoRequest

\* Once MySQL stays up and no pod is killed any more, a pod serves, however
\* often main gave up before, and however many connections of dead processes
\* stood in the way of its Ping: all pools together fit into max_connections
\* when those are forgotten.  A writer does so unless its WORKER_INTERVAL is a
\* duration that is not positive.
EventuallyServing ==
  \A p \in Pods :
    /\ <>[]mysql
    /\ <>[](\A q \in Pods : pod[q] # "killed")
    /\ p \in Writers => env.interval = None \/ env.interval > 0
    => <>[](pod[p] = "serving")

\* Whoever waits waits for work that goes on: while a pool has nothing to give
\* and may not grow, each of its connections runs a statement of another
\* request, which returns it when the statement ends.  This is the part of
\* AllAnswered that needs no fairness: no circle of waiting requests.
WaitersWaitForWork ==
  \A r \in Requests :
    LET p == req[r].pod IN
    req[r].phase = "asking" /\ IdleOf(p) = {} /\ Slots(p) \subseteq conns =>
      \A c \in Slots(p) : \E s \in Requests \ {r} :
        req[s].phase = "running" /\ req[s].holds = {c}
=============================================================================
