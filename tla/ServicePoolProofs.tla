-------------------------- MODULE ServicePoolProofs --------------------------
(* Theorems about ServicePool, for any number of pods and requests. *)
EXTENDS ServicePool, FiniteSetTheorems, TLAPS

\* What a request in flight looks like.
InFlight(r) ==
  /\ req[r].phase \in {"asking", "running", "broken"}
  /\ req[r].pod \in Pods
  /\ pod[req[r].pod] = "serving"
  /\ req[r].todo \in Nat \ {0}
  /\ req[r].holds \subseteq ConnsOf(req[r].pod)
  /\ req[r].phase # "running" => req[r].holds = {}
  /\ req[r].phase = "running" => \E c : req[r].holds = {c}

\* No connection serves two requests.
Exclusive ==
  \A r, s \in Requests : r # s => req[r].holds \cap req[s].holds = {}

\* The connections are those of processes that can have some.
ConnsOK ==
  /\ conns \subseteq Pods \X (1 .. MaxOpen)
  /\ \A c \in conns : pod[c[1]] \in {"connected", "serving"}

PoolInv ==
  /\ env \in [interval : Intervals, batch : Batches]
  /\ mysql \in BOOLEAN
  /\ pod \in [Pods -> Phases]
  /\ DOMAIN req = Requests
  /\ ConnsOK
  /\ stale \in Nat
  /\ \A r \in Requests : req[r] = NoRequest \/ InFlight(r)
  /\ Exclusive

-----------------------------------------------------------------------------
\* A batch has a positive size, whatever BATCH_SIZE says.
LEMMA BatchPositive ==
  ASSUME PoolInv
  PROVE  BatchSize(env.batch) \in Nat \ {0}
<1> DEFINE v == env.batch
<1>1. v \in Int \cup {None}
  BY PoolAssumption DEF PoolInv
<1>2. CASE v = None
  BY <1>2, PoolAssumption DEF BatchSize
<1>3. CASE v \in Int
  BY <1>3, PoolAssumption DEF BatchSize
<1> QED
  BY <1>1, <1>2, <1>3

\* No idle connection is held by a request.
LEMMA IdleIsFree ==
  ASSUME NEW p, NEW c \in IdleOf(p), NEW r \in Requests
  PROVE  c \in conns /\ c \in Slots(p) /\ c \notin req[r].holds
  BY DEF IdleOf, ConnsOf, InUse

\* The end of a process leaves nothing of it behind.
LEMMA EndStep ==
  ASSUME PoolInv, NEW p \in Pods, NEW how \in {"exited", "killed"}, End(p, how)
  PROVE  PoolInv'
<1>1. \A c \in conns' : c \in conns /\ c[1] # p
  BY DEF PoolInv, ConnsOK, End, Slots
<1>2. ConnsOK'
  BY <1>1 DEF PoolInv, ConnsOK, End, Phases
<1>3. ASSUME NEW r \in Requests, req'[r] # NoRequest
      PROVE  InFlight(r)' /\ req'[r] = req[r]
  <2>1. req'[r] = req[r] /\ req[r].pod # p /\ InFlight(r)
    BY <1>3 DEF PoolInv, End
  <2>2. ConnsOf(req[r].pod)' = ConnsOf(req[r].pod)
    BY <2>1 DEF End, ConnsOf, Slots
  <2>3. pod'[req[r].pod] = "serving"
    BY <2>1 DEF End, InFlight, PoolInv
  <2> QED
    BY <2>1, <2>2, <2>3 DEF InFlight, ConnsOf
<1>4. Exclusive'
  BY <1>3 DEF PoolInv, Exclusive, NoRequest
<1> QED
  BY <1>2, <1>3, <1>4 DEF PoolInv, End, Phases

\* A step that leaves connections and processes alone and changes one request
\* into another without a connection.
LEMMA RequestStep ==
  ASSUME PoolInv, NEW r \in Requests, UNCHANGED <<env, mysql, pod, stale>>,
         DOMAIN req' = Requests,
         \A s \in Requests \ {r} : req'[s] = req[s],
         req'[r] = NoRequest \/ InFlight(r)',
         conns' \subseteq Pods \X (1 .. MaxOpen),
         \A c \in conns' : pod[c[1]] \in {"connected", "serving"},
         \A s \in Requests \ {r} : req[s].holds \subseteq conns',
         \A s \in Requests \ {r} : req[s].holds \cap req'[r].holds = {}
  PROVE  PoolInv'
<1>1. ASSUME NEW s \in Requests PROVE (req[s] = NoRequest \/ InFlight(s))'
  <2>1. CASE s = r BY <2>1
  <2>2. CASE s # r
    <3>1. req'[s] = req[s] /\ req[s].holds \subseteq conns'
      BY <2>2
    <3>2. CASE req[s] = NoRequest BY <3>1, <3>2 DEF NoRequest
    <3>3. CASE InFlight(s) BY <3>1, <3>3 DEF InFlight, ConnsOf, Slots
    <3> QED BY <3>2, <3>3 DEF PoolInv
  <2> QED BY <2>1, <2>2
<1>2. Exclusive'
  BY DEF PoolInv, Exclusive
<1>3. ConnsOK'
  BY DEF ConnsOK
<1> QED
  BY <1>1, <1>2, <1>3 DEF PoolInv

\* A request that asks for a connection, or is gone, holds none.
LEMMA AskingIsFree ==
  ASSUME PoolInv, NEW r \in Requests,
         UNCHANGED <<env, mysql, pod, stale>>,
         NEW q \in {NoRequest} \cup {Asking(req[r].pod, n) : n \in Nat \ {0}},
         req[r] # NoRequest, req' = [req EXCEPT ![r] = q],
         conns' \subseteq conns,
         conns \ conns' \subseteq req[r].holds
  PROVE  PoolInv'
<1>1. InFlight(r) /\ req'[r] = q /\ \A s \in Requests \ {r} : req'[s] = req[s]
  BY DEF PoolInv
<1>2. ASSUME NEW s \in Requests \ {r}
      PROVE  req[s].holds \subseteq conns'
  <2>1. req[s].holds \subseteq conns
    BY DEF PoolInv, InFlight, ConnsOf, NoRequest
  <2>2. req[s].holds \cap req[r].holds = {}
    BY DEF PoolInv, Exclusive
  <2> QED BY <2>1, <2>2
<1>3. req'[r] = NoRequest \/ InFlight(r)'
  BY <1>1 DEF InFlight, Asking
<1>4. req'[r].holds = {}
  BY <1>1 DEF NoRequest, Asking
<1>5. conns' \subseteq Pods \X (1 .. MaxOpen)
  BY DEF PoolInv, ConnsOK
<1>6. \A c \in conns' : pod[c[1]] \in {"connected", "serving"}
  BY DEF PoolInv, ConnsOK
<1>7. DOMAIN req' = Requests
  BY DEF PoolInv
<1> QED
  BY <1>1, <1>2, <1>3, <1>4, <1>5, <1>6, <1>7, RequestStep
-----------------------------------------------------------------------------
\* A statement that failed lets its request go on or ends it.
LEMMA FailureStep ==
  ASSUME PoolInv, NEW r \in Requests, req[r] # NoRequest,
         UNCHANGED <<env, mysql, pod, stale>>, AfterFailure(r) \/
           req' = [req EXCEPT ![r] = Left(r, req[r].todo - 1)],
         conns' \subseteq conns,
         conns \ conns' \subseteq req[r].holds
  PROVE  PoolInv'
<1>1. req[r].todo \in Nat \ {0}
  BY DEF PoolInv, InFlight
<1>2. CASE req' = [req EXCEPT ![r] = NoRequest]
  BY <1>2, AskingIsFree
<1>3. CASE req' = [req EXCEPT ![r] = Left(r, req[r].todo - 1)]
  <2>1. CASE req[r].todo = 1
    BY <1>2, <1>3, <2>1, AskingIsFree DEF Left
  <2>2. CASE req[r].todo # 1
    <3>1. req[r].todo - 1 \in Nat \ {0}
      BY <1>1, <2>2
    <3>2. req' = [req EXCEPT ![r] = Asking(req[r].pod, req[r].todo - 1)]
      BY <1>3, <3>1 DEF Left
    <3> QED BY <3>1, <3>2, AskingIsFree
  <2> QED BY <2>1, <2>2
<1> QED BY <1>2, <1>3 DEF AfterFailure

\* The invariant holds at the start.
LEMMA PoolInit == Init => PoolInv
  BY DEF Init, PoolInv, ConnsOK, Exclusive, NoRequest, Phases

\* A process connects, with the first connection of its pool, or ends.
LEMMA ConnectStep ==
  ASSUME PoolInv, NEW p \in Pods, Connect(p)
  PROVE  PoolInv'
<1>1. CASE End(p, "exited")
  BY <1>1, EndStep
<1>2. CASE /\ pod' = [pod EXCEPT ![p] = "connected"]
           /\ conns' = conns \cup {<<p, 1>>}
           /\ UNCHANGED <<env, mysql, stale, req>>
  <2>1. pod[p] = "starting"
    BY DEF Connect
  <2>2. ConnsOK'
    <3>1. <<p, 1>> \in Pods \X (1 .. MaxOpen)
      BY PoolAssumption
    <3>2. conns' \subseteq Pods \X (1 .. MaxOpen)
      BY <1>2, <3>1 DEF PoolInv, ConnsOK
    <3>3. ASSUME NEW c \in conns' PROVE pod'[c[1]] \in {"connected", "serving"}
      <4>1. CASE c = <<p, 1>> BY <1>2, <4>1 DEF PoolInv
      <4>2. CASE c \in conns
        <5>1. c[1] \in Pods /\ pod[c[1]] \in {"connected", "serving"}
          BY <4>2 DEF PoolInv, ConnsOK
        <5> QED BY <1>2, <2>1, <5>1 DEF PoolInv
      <4> QED BY <1>2, <4>1, <4>2
    <3> QED BY <3>2, <3>3 DEF ConnsOK
  <2>3. ASSUME NEW r \in Requests, InFlight(r) PROVE InFlight(r)'
    BY <1>2, <2>1, <2>3 DEF InFlight, ConnsOf, Slots, PoolInv
  <2> QED
    BY <1>2, <2>2, <2>3 DEF PoolInv, Exclusive, Phases
<1> QED
  BY <1>1, <1>2 DEF Connect

\* A process begins to serve, or ends, or is started again.
LEMMA PhaseStep ==
  ASSUME PoolInv, NEW p \in Pods, Serve(p) \/ Restart(p)
  PROVE  PoolInv'
<1>1. CASE End(p, "exited")
  BY <1>1, EndStep
<1>2. ASSUME NEW how \in {"starting", "serving"},
             pod' = [pod EXCEPT ![p] = how],
             pod[p] # "serving",
             how = "starting" => pod[p] \in {"exited", "killed"},
             UNCHANGED <<env, mysql, conns, stale, req>>
      PROVE  PoolInv'
  <2>1. ConnsOK'
    <3>1. ASSUME NEW c \in conns PROVE pod'[c[1]] \in {"connected", "serving"}
      <4>1. c[1] \in Pods /\ pod[c[1]] \in {"connected", "serving"}
        BY DEF PoolInv, ConnsOK
      <4> QED BY <1>2, <4>1 DEF PoolInv
    <3> QED BY <1>2, <3>1 DEF PoolInv, ConnsOK
  <2>2. ASSUME NEW r \in Requests, InFlight(r) PROVE InFlight(r)'
    BY <1>2, <2>2 DEF InFlight, ConnsOf, Slots, PoolInv
  <2> QED
    BY <1>2, <2>1, <2>2 DEF PoolInv, Exclusive, Phases
<1> QED
  BY <1>1, <1>2 DEF Serve, Restart

\* MySQL goes down and takes every connection with it, or comes back.
LEMMA MysqlStep ==
  ASSUME PoolInv, MysqlDown \/ MysqlUp
  PROVE  PoolInv'
<1>1. CASE MysqlUp
  BY <1>1 DEF MysqlUp, PoolInv, ConnsOK, Exclusive, InFlight, ConnsOf
<1>2. CASE MysqlDown
  <2>1. ConnsOK'
    BY <1>2 DEF MysqlDown, ConnsOK
  <2>2. ASSUME NEW r \in Requests
        PROVE  req'[r] = NoRequest \/ (InFlight(r)' /\ req'[r].holds = {})
    <3>1. CASE req[r] = NoRequest
      BY <1>2, <3>1 DEF MysqlDown, NoRequest
    <3>2. CASE InFlight(r)
      BY <1>2, <3>2 DEF MysqlDown, InFlight
    <3> QED BY <3>1, <3>2 DEF PoolInv
  <2>3. Exclusive'
    BY <2>2 DEF Exclusive, NoRequest
  <2> QED
    BY <1>2, <2>1, <2>2, <2>3 DEF MysqlDown, PoolInv
<1> QED
  BY <1>1, <1>2

\* A request arrives.
LEMMA ArriveStep ==
  ASSUME PoolInv, NEW r \in Requests, NEW p \in Pods, Arrive(r, p)
  PROVE  PoolInv'
<1>1. PICK n \in Statements(p) : req' = [req EXCEPT ![r] = Asking(p, n)]
  BY DEF Arrive
<1>2. n \in Nat \ {0}
  BY <1>1, BatchPositive DEF Statements
<1>3. req'[r] = Asking(p, n) /\ \A s \in Requests \ {r} : req'[s] = req[s]
  BY <1>1 DEF PoolInv
<1>4. InFlight(r)' /\ req'[r].holds = {}
  BY <1>2, <1>3 DEF InFlight, Asking, Arrive
<1>5. \A s \in Requests : req[s].holds \subseteq conns'
  BY DEF Arrive, PoolInv, InFlight, ConnsOf, NoRequest
<1>6. /\ DOMAIN req' = Requests
      /\ conns' \subseteq Pods \X (1 .. MaxOpen)
      /\ \A c \in conns' : pod[c[1]] \in {"connected", "serving"}
      /\ UNCHANGED <<env, mysql, pod, stale>>
  BY <1>1 DEF PoolInv, ConnsOK, Arrive
<1> QED
  BY <1>3, <1>4, <1>5, <1>6, RequestStep

\* A request gets an idle or a new connection, or an error.
LEMMA AcquireStep ==
  ASSUME PoolInv, NEW r \in Requests, Acquire(r)
  PROVE  PoolInv'
<1> DEFINE p == req[r].pod
           n == req[r].todo
<1>1. InFlight(r) /\ req[r].phase = "asking"
  BY DEF Acquire, PoolInv, NoRequest
<1>2. ASSUME NEW c \in Slots(p), c \in IdleOf(p) \/ c \notin conns,
             conns' = conns \cup {c},
             req' = [req EXCEPT ![r] = Running(p, n, c)],
             UNCHANGED <<env, mysql, pod, stale>>
      PROVE  PoolInv'
  <2>1. req'[r] = Running(p, n, c) /\ \A s \in Requests \ {r} : req'[s] = req[s]
    BY <1>2 DEF PoolInv
  <2>2. c \in Pods \X (1 .. MaxOpen) /\ c[1] = p
    BY <1>1 DEF Slots, InFlight
  <2>3. InFlight(r)'
    BY <1>1, <1>2, <2>1 DEF InFlight, Running, ConnsOf
  <2>4. \A s \in Requests \ {r} : req[s].holds \subseteq conns
    BY DEF PoolInv, InFlight, ConnsOf, NoRequest
  <2>5. \A s \in Requests \ {r} : c \notin req[s].holds
    BY <1>2, <2>4, IdleIsFree
  <2>6. /\ conns' \subseteq Pods \X (1 .. MaxOpen)
        /\ \A d \in conns' : pod[d[1]] \in {"connected", "serving"}
    BY <1>1, <1>2, <2>2 DEF PoolInv, ConnsOK, InFlight
  <2>7. \A s \in Requests \ {r} : req[s].holds \cap req'[r].holds = {}
    BY <2>1, <2>5 DEF Running
  <2>8. DOMAIN req' = Requests
    BY <1>2 DEF PoolInv
  <2> QED
    BY <1>2, <2>1, <2>3, <2>4, <2>6, <2>7, <2>8, RequestStep
<1>3. CASE \E c \in IdleOf(p) :
             req' = [req EXCEPT ![r] = Running(p, n, c)] /\ UNCHANGED conns
  <2>1. PICK c \in IdleOf(p) :
          req' = [req EXCEPT ![r] = Running(p, n, c)] /\ UNCHANGED conns
    BY <1>3
  <2>2. c \in Slots(p) /\ conns' = conns \cup {c}
    BY <2>1, IdleIsFree DEF IdleOf, ConnsOf
  <2> QED BY <1>2, <2>1, <2>2 DEF Acquire
<1>4. CASE \E c \in Slots(p) \ conns :
             /\ conns' = conns \cup {c}
             /\ req' = [req EXCEPT ![r] = Running(p, n, c)]
  BY <1>2, <1>4 DEF Acquire
<1>5. CASE AfterFailure(r) /\ UNCHANGED conns
  BY <1>1, <1>5, FailureStep DEF Acquire, NoRequest
<1> QED
  BY <1>3, <1>4, <1>5 DEF Acquire

\* A statement ends, and its connection is kept or closed.
LEMMA EndStatementStep ==
  ASSUME PoolInv, NEW r \in Requests, EndStatement(r) \/ SeeBroken(r)
  PROVE  PoolInv'
<1>1. req[r] # NoRequest
  BY DEF EndStatement, SeeBroken, NoRequest
<1>2. conns' \subseteq conns /\ conns \ conns' \subseteq req[r].holds
  BY DEF EndStatement, SeeBroken, Released
<1>3. UNCHANGED <<env, mysql, pod, stale>>
  BY DEF EndStatement, SeeBroken
<1>4. AfterFailure(r) \/ req' = [req EXCEPT ![r] = Left(r, req[r].todo - 1)]
  BY DEF EndStatement, SeeBroken
<1> QED
  BY <1>1, <1>2, <1>3, <1>4, FailureStep

\* An idle connection is closed.
LEMMA ExpireStep ==
  ASSUME PoolInv, NEW c \in conns, Expire(c)
  PROVE  PoolInv'
<1>1. ASSUME NEW r \in Requests, InFlight(r) PROVE InFlight(r)'
  <2>1. c \notin req[r].holds
    BY DEF Expire, InUse
  <2> QED BY <1>1, <2>1 DEF InFlight, Expire, ConnsOf
<1>2. ConnsOK'
  BY DEF PoolInv, ConnsOK, Expire
<1> QED
  BY <1>1, <1>2 DEF PoolInv, Expire, Exclusive

\* Every step preserves the invariant.
LEMMA PoolNext == PoolInv /\ [Next]_vars => PoolInv'
<1> SUFFICES ASSUME PoolInv, [Next]_vars PROVE PoolInv'
  OBVIOUS
<1>1. CASE Process
  <2>1. PICK p \in Pods : Connect(p) \/ Serve(p) \/ Kill(p) \/ Restart(p)
    BY <1>1 DEF Process
  <2> QED BY <2>1, ConnectStep, PhaseStep, EndStep DEF Kill
<1>2. CASE MysqlDown \/ MysqlUp
  BY <1>2, MysqlStep
<1>3. CASE Work
  BY <1>3, ArriveStep, AcquireStep, EndStatementStep, ExpireStep DEF Work
<1>4. CASE UNCHANGED vars
  BY <1>4 DEF vars, PoolInv, ConnsOK, InFlight, ConnsOf, Exclusive
<1>5. CASE Forget
  <2>1. stale' \in Nat /\ UNCHANGED <<env, mysql, pod, conns, req>>
    BY <1>5 DEF Forget, PoolInv
  <2> QED BY <2>1 DEF PoolInv, ConnsOK, InFlight, ConnsOf, Exclusive
<1> QED
  BY <1>1, <1>2, <1>3, <1>4, <1>5 DEF Next

\* The invariant contains the type invariant.
LEMMA PoolTypes == PoolInv => TypeOK
<1> SUFFICES ASSUME PoolInv PROVE TypeOK
  OBVIOUS
<1>1. ASSUME NEW r \in Requests, InFlight(r)
      PROVE  Cardinality(req[r].holds) = IF req[r].phase = "running" THEN 1 ELSE 0
  <2>1. CASE req[r].phase = "running"
    BY <1>1, <2>1, FS_Singleton DEF InFlight
  <2>2. CASE req[r].phase # "running"
    BY <1>1, <2>2, FS_EmptySet DEF InFlight
  <2> QED BY <2>1, <2>2
<1>2. ConnsOK /\ mysql \in BOOLEAN /\ pod \in [Pods -> Phases] /\ stale \in Nat
  BY DEF PoolInv
<1>3. ASSUME NEW r \in Requests, req[r] # NoRequest
      PROVE  /\ req[r].phase \in {"asking", "running", "broken"}
             /\ pod[req[r].pod] = "serving"
             /\ req[r].todo \in Nat \ {0}
             /\ req[r].holds \subseteq ConnsOf(req[r].pod)
             /\ Cardinality(req[r].holds) = IF req[r].phase = "running" THEN 1 ELSE 0
  BY <1>1, <1>3 DEF PoolInv, InFlight
<1> QED
  BY <1>2, <1>3 DEF TypeOK, ConnsOK

\* The invariant of the pools.
LEMMA PoolInvariant == Spec => []PoolInv
<1> QED BY PoolInit, PoolNext, PTL DEF Spec

\* Type correctness of the service processes and their pools: above all, a
\* request that runs a statement holds one open connection of its own process.
THEOREM TypeCorrect == Spec => []TypeOK
<1> QED BY PoolInvariant, PoolTypes, PTL

-----------------------------------------------------------------------------
\* There is no circle of requests that wait for each other's connections: a
\* request that finds its pool exhausted (Acquire, database/sql under db.go's
\* SetMaxOpenConns) waits for statements of others that are under way, since
\* no handler keeps a connection while it asks for the next.
THEOREM NoCircleOfWaiters == Spec => []WaitersWaitForWork
<1>1. PoolInv => WaitersWaitForWork
  <2> SUFFICES ASSUME PoolInv, NEW r \in Requests, req[r].phase = "asking",
                      IdleOf(req[r].pod) = {}, Slots(req[r].pod) \subseteq conns,
                      NEW c \in Slots(req[r].pod)
               PROVE  \E s \in Requests \ {r} :
                        req[s].phase = "running" /\ req[s].holds = {c}
    BY DEF WaitersWaitForWork
  <2>1. PICK s \in Requests : c \in req[s].holds
    BY DEF IdleOf, ConnsOf, InUse
  <2>2. InFlight(s)
    BY <2>1 DEF PoolInv, NoRequest
  <2>3. req[s].phase = "running" /\ req[s].holds = {c}
    BY <2>1, <2>2 DEF InFlight
  <2> QED
    BY <2>3
<1> QED
  BY <1>1, PoolInvariant, PTL
=============================================================================
