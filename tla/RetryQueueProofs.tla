-------------------------- MODULE RetryQueueProofs --------------------------
(***************************************************************************)
(* For every number of rows, limit, delay and number of faults: no count   *)
(* of attempts runs ahead of the failures, a dead letter has failed        *)
(* MaxAttempts times, and no event is retried before its back-off is over. *)
(***************************************************************************)
EXTENDS RetryQueue, FiniteSetTheorems, TLAPS

\* What the argument needs of the types; times play no part in it.
Shape ==
  /\ row \in [Rows -> [status : Statuses, attempts : 0 .. MaxAttempts]]
  /\ DOMAIN batch \subseteq Rows
  /\ failures \in [Rows -> 0 .. MaxAttempts]
  /\ work # Idle => /\ work.phase \in {"running", "failed"}
                    /\ work.key \in Rows

\* The inductive invariant: counts are natural numbers bounded by failures.
Counts ==
  /\ Shape
  /\ \A k \in DOMAIN batch : batch[k] \in 0 .. MaxAttempts
  /\ work # Idle => work.attempts \in 0 .. MaxAttempts
  /\ CountsAreFailures
  /\ DeadAfterMaxAttempts

\* At the start the table is empty and the consumer has nothing.
LEMMA InitCounts == Init => Counts
<1> SUFFICES ASSUME Init PROVE Counts
  OBVIOUS
<1>1. work = Idle /\ work.phase = "idle" /\ DOMAIN batch = {}
  BY DEF Init, Idle
<1>2. \A k \in Rows : row[k].status = "absent" /\ failures[k] = 0
  BY DEF Init
<1>3. Shape
  BY <1>1, RetryAssumption DEF Init, Shape, Statuses
<1> QED
  BY <1>1, <1>2, <1>3 DEF Counts, CountsAreFailures, DeadAfterMaxAttempts

\* Time and fetching leave rows and failures alone and copy true counts.
LEMMA TickKeeps == Counts /\ Tick => Counts'
<1> SUFFICES ASSUME Counts, Tick PROVE Counts'
  OBVIOUS
<1>1. CASE work = Idle
  BY <1>1 DEF Counts, Tick, Shape, CountsAreFailures, DeadAfterMaxAttempts,
              Idle, Rows
<1>2. CASE work # Idle
  <2>1. /\ work'.phase = work.phase /\ work'.key = work.key
        /\ work'.attempts = work.attempts
    BY <1>2 DEF Tick, Item
  <2>2. UNCHANGED <<row, batch, failures>>
    BY DEF Tick
  <2> QED
    BY <1>2, <2>1, <2>2 DEF Counts, Shape, CountsAreFailures,
                            DeadAfterMaxAttempts, Rows
<1> QED
  BY <1>1, <1>2

\* An offer may take the failures back to 0 only when the consumer has no copy
\* of the row, and it always takes the attempts back.
LEMMA OfferKeeps == ASSUME NEW k \in Rows PROVE Counts /\ Offer(k) => Counts'
<1> SUFFICES ASSUME Counts, Offer(k) PROVE Counts'
  OBVIOUS
<1>1. UNCHANGED <<batch, work>>
  BY DEF Offer
<1>2. /\ row'[k] = [status |-> "queued", attempts |-> 0]
      /\ \A j \in Rows : j # k => row'[j] = row[j]
      /\ row' \in [Rows -> [status : Statuses, attempts : 0 .. MaxAttempts]]
  BY RetryAssumption DEF Offer, Counts, Shape, Statuses
<1>3. /\ failures' \in [Rows -> 0 .. MaxAttempts]
      /\ \A j \in Rows : j # k => failures'[j] = failures[j]
      /\ k \in DOMAIN batch \/ (work # Idle /\ work.key = k)
           => failures'[k] = failures[k]
  BY RetryAssumption DEF Offer, Counts, Shape
<1>4. Shape'
  BY <1>1, <1>2, <1>3 DEF Counts, Shape
<1>5. work.phase \in {"running", "failed"} => work # Idle
  BY DEF Idle
<1>6. CountsAreFailures'
  BY <1>1, <1>2, <1>3, <1>5, RetryAssumption
     DEF Counts, Shape, CountsAreFailures
<1>7. DeadAfterMaxAttempts'
  BY <1>2, <1>3 DEF Counts, DeadAfterMaxAttempts
<1> QED
  BY <1>1, <1>4, <1>6, <1>7 DEF Counts

\* A batch copies the counts of queued rows.
LEMMA FetchKeeps == Counts /\ Fetch => Counts'
<1> SUFFICES ASSUME Counts, Fetch PROVE Counts'
  OBVIOUS
<1>1. UNCHANGED <<row, work, failures>>
  BY DEF Fetch
<1>2. /\ DOMAIN batch' \subseteq Rows
      /\ \A k \in DOMAIN batch' : /\ batch'[k] = row[k].attempts
                                  /\ row[k].status = "queued"
  BY DEF Fetch, Ready
<1> QED
  BY <1>1, <1>2 DEF Counts, Shape, CountsAreFailures, DeadAfterMaxAttempts

\* Work begins with the count that was copied.
LEMMA BeginKeeps == ASSUME NEW k \in Rows PROVE Counts /\ Begin(k) => Counts'
<1> SUFFICES ASSUME Counts, Begin(k) PROVE Counts'
  OBVIOUS
<1>1. UNCHANGED <<row, failures>> /\ k \in DOMAIN batch
  BY DEF Begin, NextOf
<1>2. /\ work'.phase = "running" /\ work'.key = k /\ work'.attempts = batch[k]
      /\ \A j \in DOMAIN batch' : j \in DOMAIN batch /\ batch'[j] = batch[j]
  BY DEF Begin, Running, Item, RestOf
<1> QED
  BY <1>1, <1>2 DEF Counts, Shape, CountsAreFailures, DeadAfterMaxAttempts

\* The lock counts in the table and not in the copy.
LEMMA LockKeeps == ASSUME NEW k \in Rows PROVE Counts /\ Lock(k) => Counts'
<1> SUFFICES ASSUME Counts, Lock(k) PROVE Counts'
  OBVIOUS
<1>1. /\ UNCHANGED failures /\ k \in DOMAIN batch /\ work = Idle
      /\ \A j \in DOMAIN batch' : j \in DOMAIN batch /\ batch'[j] = batch[j]
  BY DEF Lock, NextOf, RestOf
<1>2. CASE row[k].status = "queued" /\ work' = Running(k)
             /\ row' = [row EXCEPT ![k] = [status |-> "processing",
                                           attempts |-> row[k].attempts + 1]]
  <2>1. work'.phase = "running" /\ work'.key = k /\ work'.attempts = batch[k]
    BY <1>2 DEF Running, Item
  <2>2. row[k].attempts \in 0 .. MaxAttempts /\ row[k].attempts < MaxAttempts
    BY <1>2 DEF Counts, Shape, CountsAreFailures
  <2>3. row[k].attempts + 1 \in 0 .. MaxAttempts
    BY <2>2, RetryAssumption
  <2>4. /\ row' \in [Rows -> [status : Statuses, attempts : 0 .. MaxAttempts]]
        /\ row'[k].status = "processing"
        /\ \A j \in Rows : j # k => row'[j] = row[j]
    BY <1>2, <2>3 DEF Counts, Shape, Statuses
  <2> QED
    BY <1>1, <2>1, <2>4 DEF Counts, Shape, CountsAreFailures, DeadAfterMaxAttempts
<1>3. CASE UNCHANGED <<row, work>>
  BY <1>1, <1>3 DEF Counts, Shape, CountsAreFailures, DeadAfterMaxAttempts
<1> QED
  BY <1>2, <1>3 DEF Lock

\* A failure is counted in the copy and in the history at once.
LEMMA FailKeeps == Counts /\ Fail => Counts'
<1> SUFFICES ASSUME Counts, Fail PROVE Counts'
  OBVIOUS
<1>1. UNCHANGED <<row, batch>>
  BY DEF Fail
<1>2. work # Idle /\ work.phase = "running"
  BY DEF Fail, Idle
<1>3. /\ work.key \in Rows /\ work.attempts \in 0 .. MaxAttempts
      /\ work.attempts < MaxAttempts /\ work.attempts <= failures[work.key]
  BY <1>2 DEF Counts, Shape, CountsAreFailures
<1>4. /\ work'.phase = "failed" /\ work'.key = work.key
      /\ work'.attempts = work.attempts + 1
  BY DEF Fail, Item
<1>5. /\ failures' \in [Rows -> 0 .. MaxAttempts]
      /\ \A j \in Rows : failures[j] <= failures'[j]
      /\ \A j \in Rows : failures[j] = MaxAttempts => failures'[j] = MaxAttempts
      /\ work.attempts + 1 <= failures'[work.key]
  BY <1>3, RetryAssumption DEF Fail, Counts, Shape
<1>6. Shape'
  BY <1>1, <1>3, <1>4, <1>5 DEF Counts, Shape
<1>7. \A k \in DOMAIN batch : k \in Rows /\ batch[k] \in 0 .. MaxAttempts
  BY DEF Counts, Shape
<1>8. \A k \in Rows : /\ row[k].attempts \in 0 .. MaxAttempts
                      /\ failures[k] \in 0 .. MaxAttempts
                      /\ failures'[k] \in 0 .. MaxAttempts
  BY <1>5 DEF Counts, Shape
<1>9. CountsAreFailures'
  BY <1>1, <1>4, <1>5, <1>7, <1>8, RetryAssumption DEF Counts, CountsAreFailures
<1>10. work'.attempts \in 0 .. MaxAttempts
  BY <1>3, <1>4, RetryAssumption
<1>11. DeadAfterMaxAttempts'
  BY <1>1, <1>5 DEF Counts, DeadAfterMaxAttempts
<1> QED
  BY <1>1, <1>6, <1>7, <1>9, <1>10, <1>11 DEF Counts

\* The table takes over the count of a failure.
LEMMA RecordKeeps ==
  ASSUME Counts, work.phase = "failed", Record, UNCHANGED <<batch, failures>>,
         work' = Idle
  PROVE  Counts'
<1>1. work # Idle
  BY DEF Idle
<1>2. /\ work.key \in Rows /\ work.attempts \in 0 .. MaxAttempts
      /\ work.attempts <= failures[work.key]
      /\ failures[work.key] \in 0 .. MaxAttempts
  BY <1>1 DEF Counts, Shape, CountsAreFailures
<1>3. /\ row' \in [Rows -> [status : Statuses, attempts : 0 .. MaxAttempts]]
      /\ row'[work.key].attempts = work.attempts
      /\ row'[work.key].status = IF work.attempts >= MaxAttempts THEN "dead"
                                 ELSE "queued"
      /\ \A j \in Rows : j # work.key => row'[j] = row[j]
  BY <1>2 DEF Record, Counts, Shape, Statuses
<1>4. work'.phase = "idle"
  BY DEF Idle
<1>5. Shape'
  BY <1>3 DEF Counts, Shape
<1>6. CountsAreFailures'
  BY <1>2, <1>3, <1>4, RetryAssumption DEF Counts, CountsAreFailures
<1>7. DeadAfterMaxAttempts'
  BY <1>2, <1>3, RetryAssumption DEF Counts, DeadAfterMaxAttempts
<1> QED
  BY <1>5, <1>6, <1>7 DEF Counts

\* A row that is done has no count to answer for.
LEMMA DoneKeeps ==
  ASSUME Counts, work # Idle, SetDone, UNCHANGED <<batch, failures>>, work' = Idle
  PROVE  Counts'
<1>1. work.key \in Rows
  BY DEF Counts, Shape
<1>2. /\ row' \in [Rows -> [status : Statuses, attempts : 0 .. MaxAttempts]]
      /\ row'[work.key].status = "done"
      /\ \A j \in Rows : j # work.key => row'[j] = row[j]
  BY <1>1 DEF SetDone, Counts, Shape, Statuses
<1>3. work'.phase = "idle"
  BY DEF Idle
<1> QED
  BY <1>1, <1>2, <1>3 DEF Counts, Shape, CountsAreFailures, DeadAfterMaxAttempts

\* Forgetting a batch or an event forgets counts only.
LEMMA ForgetKeeps ==
  ASSUME Counts, UNCHANGED <<row, failures>>, work' = Idle,
         UNCHANGED batch \/ batch' = [k \in {} |-> 0]
  PROVE  Counts'
<1>1. work'.phase = "idle"
  BY DEF Idle
<1>2. \A k \in DOMAIN batch' : k \in DOMAIN batch /\ batch'[k] = batch[k]
  OBVIOUS
<1> QED
  BY <1>1, <1>2 DEF Counts, Shape, CountsAreFailures, DeadAfterMaxAttempts

LEMMA NextCounts == Counts /\ [Next]_vars => Counts'
<1> SUFFICES ASSUME Counts, [Next]_vars PROVE Counts'
  OBVIOUS
<1>1. ASSUME NEW k \in Rows, Offer(k) PROVE Counts'
  BY <1>1, OfferKeeps
<1>2. ASSUME NEW k \in Rows, Begin(k) \/ Lock(k) PROVE Counts'
  BY <1>2, BeginKeeps, LockKeeps
<1>3. CASE RecordFailure
  BY <1>3, RecordKeeps DEF RecordFailure
<1>4. CASE MarkDone
  <2>1. work # Idle
    BY <1>4 DEF MarkDone, Idle
  <2> QED
    BY <1>4, <2>1, DoneKeeps DEF MarkDone
<1>5. CASE StatementFails
  <2>1. UNCHANGED <<batch, failures>> /\ work' = Idle
    BY <1>5 DEF StatementFails
  <2>2. CASE UNCHANGED row
    BY <2>1, <2>2, ForgetKeeps
  <2>3. CASE work.phase = "failed" /\ Record
    BY <2>1, <2>3, RecordKeeps
  <2>4. CASE work.phase = "running" /\ SetDone
    <3>1. work # Idle
      BY <2>4 DEF Idle
    <3> QED
      BY <2>1, <2>4, <3>1, DoneKeeps
  <2> QED
    BY <1>5, <2>2, <2>3, <2>4 DEF StatementFails
<1>6. CASE Crash
  BY <1>6, ForgetKeeps DEF Crash
<1>7. CASE UNCHANGED vars
  BY <1>7 DEF vars, Counts, Shape, CountsAreFailures, DeadAfterMaxAttempts, Idle
<1> QED
  BY <1>1, <1>2, <1>3, <1>4, <1>5, <1>6, <1>7, TickKeeps, FetchKeeps, FailKeeps
     DEF Next, Consume

\* The counts of MarkFailedWithBackoff and handleFailure never run ahead of
\* what really failed.
THEOREM CountsNeverRunAhead == Spec => []CountsAreFailures
<1>1. Counts => CountsAreFailures
  BY DEF Counts
<1> QED
  BY <1>1, InitCounts, NextCounts, PTL DEF Spec

\* Nothing is given up before it failed MaxAttempts times, for any interleaving
\* of redeliveries, crashes and lost statements with the consumer.
THEOREM DeadLettersHaveFailed == Spec => []DeadAfterMaxAttempts
<1>1. Counts => DeadAfterMaxAttempts
  BY DEF Counts
<1> QED
  BY <1>1, InitCounts, NextCounts, PTL DEF Spec

-----------------------------------------------------------------------------
(* Delays *)

\* 2 ^ n counts the subsets of a set of n elements.
LEMMA PowerCounts ==
  ASSUME NEW n \in Nat
  PROVE  /\ IsFiniteSet(1 .. n)
         /\ IsFiniteSet(SUBSET (1 .. n))
         /\ Cardinality(SUBSET (1 .. n)) = 2 ^ n
<1>1. IsFiniteSet(1 .. n) /\ Cardinality(1 .. n) = n
  BY FS_Interval
<1>2. IsFiniteSet(SUBSET (1 .. n)) /\ Cardinality(SUBSET (1 .. n)) = 2 ^ Cardinality(1 .. n)
  BY <1>1, FS_SUBSET
<1> QED
  BY <1>1, <1>2

\* So powers are positive and grow with the exponent.
LEMMA PowerGrows ==
  ASSUME NEW m \in Nat, NEW n \in Nat, m <= n
  PROVE  2 ^ m \in Nat \ {0} /\ 2 ^ n \in Nat /\ 2 ^ m <= 2 ^ n
<1>0. IsFiniteSet(SUBSET (1 .. n))
  BY PowerCounts
<1>1. 1 .. m \subseteq 1 .. n
  OBVIOUS
<1>2. SUBSET (1 .. m) \in SUBSET (SUBSET (1 .. n))
  BY <1>1
<1>3. 2 ^ m \in Nat /\ 2 ^ n \in Nat
  BY PowerCounts, FS_CardinalityType
<1>4. Cardinality(SUBSET (1 .. m)) <= Cardinality(SUBSET (1 .. n))
  BY <1>0, <1>2, FS_Subset
<1>5. 2 ^ m # 0
  <2>1. {} \in SUBSET (1 .. m)
    OBVIOUS
  <2>2. SUBSET (1 .. m) # {}
    BY <2>1
  <2> QED
    BY <2>2, PowerCounts, FS_EmptySet
<1> QED
  BY <1>3, <1>4, <1>5, PowerCounts

\* So do products.
LEMMA ProductGrows ==
  ASSUME NEW b \in Nat, NEW x \in Nat, NEW y \in Nat, x <= y
  PROVE  b * x \in Nat /\ b * y \in Nat /\ b * x <= b * y
<1>1. b * y - b * x = b * (y - x)
  OBVIOUS
<1>2. b * (y - x) >= 0
  OBVIOUS
<1> QED
  BY <1>1, <1>2

\* A dividend below the divisor is its own remainder.
LEMMA SmallRest ==
  ASSUME NEW a \in Nat, NEW m \in Nat, a < m
  PROVE  a % m = a
OBVIOUS

\* The machine's product is some integer, and the right one as long as it fits.
LEMMA WrapTypes ==
  ASSUME NEW n \in Int
  PROVE  Wrap(n) \in Int
<1> DEFINE half == 2 ^ (WordBits - 1)
<1>1. half \in Nat \ {0}
  <2>1. WordBits - 1 \in Nat
    BY RetryAssumption
  <2> QED
    BY <2>1, PowerGrows
<1>2. (n + half) % (2 * half) \in Int
  <2> HIDE DEF half
  <2> QED
  BY <1>1
<1>3. Wrap(n) = ((n + half) % (2 * half)) - half
  BY DEF Wrap
<1> HIDE DEF half
<1> QED
  BY <1>1, <1>2, <1>3

\* What fits into the word is not changed by it.
LEMMA WrapFits ==
  ASSUME NEW n \in Nat, n < 2 ^ (WordBits - 1)
  PROVE  Wrap(n) = n
<1> DEFINE half == 2 ^ (WordBits - 1)
<1>1. half \in Nat \ {0}
  <2>1. WordBits - 1 \in Nat
    BY RetryAssumption
  <2> QED
    BY <2>1, PowerGrows
<1>2. Wrap(n) = ((n + half) % (2 * half)) - half
  BY DEF Wrap
<1>3. n < half
  OBVIOUS
<1> HIDE DEF half
<1>4. (n + half) % (2 * half) = n + half
  BY <1>1, <1>3, SmallRest
<1> QED
  BY <1>1, <1>2, <1>4

\* Every failure has a delay and a promise.
LEMMA DelayTypes ==
  ASSUME NEW n \in Nat \ {0}
  PROVE  Delay(n) \in Int /\ Promised(n) \in Nat
<1>1. n - 1 \in Nat /\ 2 ^ (n - 1) \in Nat /\ 2 ^ n \in Nat
  BY PowerGrows
<1>2. BaseDelay * 2 ^ (n - 1) \in Nat /\ BaseDelay * 2 ^ n \in Nat
  BY <1>1, ProductGrows, RetryAssumption
<1>3. Wrap(BaseDelay * 2 ^ (n - 1)) \in Int /\ Wrap(BaseDelay * 2 ^ n) \in Int
  BY <1>2, WrapTypes
<1>4. Delay(n) \in Int
  BY <1>3, RetryAssumption DEF Delay, LibraryDelay, BackoffDuration
<1>5. Promised(n) \in Nat
  BY <1>2, RetryAssumption DEF Promised
<1> QED
  BY <1>4, <1>5

\* The machine keeps the promise for every failure that is retried.
LEMMA DelayIsPromised ==
  ASSUME DelaysFit, NEW n \in Nat \ {0}, n < MaxAttempts
  PROVE  Delay(n) = Promised(n)
<1>1. n - 1 \in Nat /\ MaxAttempts - 1 \in Nat /\ n - 1 <= n /\ n <= MaxAttempts - 1
  BY RetryAssumption
<1>2. /\ 2 ^ (n - 1) \in Nat /\ 2 ^ n \in Nat /\ 2 ^ (MaxAttempts - 1) \in Nat
      /\ 2 ^ (n - 1) <= 2 ^ n /\ 2 ^ n <= 2 ^ (MaxAttempts - 1)
  BY <1>1, PowerGrows
<1>3. /\ BaseDelay * 2 ^ (n - 1) \in Nat /\ BaseDelay * 2 ^ n \in Nat
      /\ BaseDelay * 2 ^ (MaxAttempts - 1) \in Nat
      /\ BaseDelay * 2 ^ (n - 1) <= BaseDelay * 2 ^ n
      /\ BaseDelay * 2 ^ n <= BaseDelay * 2 ^ (MaxAttempts - 1)
  BY <1>2, ProductGrows, RetryAssumption
<1>4. 2 ^ (WordBits - 1) \in Nat
  <2>1. WordBits - 1 \in Nat
    BY RetryAssumption
  <2> QED
    BY <2>1, PowerGrows
<1>5. /\ BaseDelay * 2 ^ (n - 1) < 2 ^ (WordBits - 1)
      /\ BaseDelay * 2 ^ n < 2 ^ (WordBits - 1)
  BY <1>3, <1>4 DEF DelaysFit
<1>6. /\ Wrap(BaseDelay * 2 ^ (n - 1)) = BaseDelay * 2 ^ (n - 1)
      /\ Wrap(BaseDelay * 2 ^ n) = BaseDelay * 2 ^ n
  BY <1>3, <1>5, WrapFits
<1> QED
  BY <1>6 DEF Delay, Promised, LibraryDelay, BackoffDuration

-----------------------------------------------------------------------------
(* Types *)

LEMMA InColumnType == ASSUME NEW d \in Int PROVE InColumn(d) \in Nat
BY DEF InColumn

LEMMA LessType == ASSUME NEW n \in Nat PROVE Less(n) \in Nat
BY DEF Less

\* Only Works and Idle are used to describe the consumer.
LEMMA WorkShape ==
  ASSUME NEW w \in Works
  PROVE  /\ w # Idle /\ w.phase \in {"running", "failed"} /\ w.key \in Rows
         /\ w.attempts \in 0 .. MaxAttempts /\ w.due \in Nat /\ w.owed \in Nat
<1>1. w.phase \in {"running", "failed"}
  BY DEF Works
<1>2. Idle.phase = "idle"
  BY DEF Idle
<1> QED
  BY <1>1, <1>2 DEF Works

LEMMA ItemType ==
  ASSUME NEW phase \in {"running", "failed"}, NEW k \in Rows,
         NEW n \in 0 .. MaxAttempts, NEW d \in Nat, NEW o \in Nat
  PROVE  Item(phase, k, n, d, o) \in Works
BY DEF Item, Works

LEMMA InitTypes == Init => TypeOK
<1> SUFFICES ASSUME Init PROVE TypeOK
  OBVIOUS
<1>1. DOMAIN batch = {} /\ batch \in [DOMAIN batch -> 0 .. MaxAttempts]
  BY DEF Init
<1>2. /\ tick \in 0 .. TicksPerSecond - 1
      /\ row \in [Rows -> [status : Statuses, attempts : 0 .. MaxAttempts]]
      /\ due \in [Rows -> Nat] /\ owed \in [Rows -> Nat]
      /\ failures \in [Rows -> 0 .. MaxAttempts]
      /\ faults \in 0 .. MaxFaults
  BY RetryAssumption DEF Init, Statuses
<1> QED
  BY <1>1, <1>2 DEF Init, TypeOK

LEMMA TickTypes == TypeOK /\ Tick => TypeOK'
<1> SUFFICES ASSUME TypeOK, Tick PROVE TypeOK'
  OBVIOUS
<1> DEFINE Later(d) == IF tick + 1 = TicksPerSecond THEN Less(d) ELSE d
<1>1. \A d \in Nat : Later(d) \in Nat /\ Less(d) \in Nat
  BY LessType
<1>2. tick' \in 0 .. TicksPerSecond - 1
  BY RetryAssumption DEF Tick, TypeOK
<1>3. due' \in [Rows -> Nat] /\ owed' \in [Rows -> Nat]
  <2>1. due' = [k \in Rows |-> Later(due[k])] /\ owed' = [k \in Rows |-> Less(owed[k])]
    BY DEF Tick
  <2> QED
    BY <1>1, <2>1 DEF TypeOK
<1>4. work' \in Works \cup {Idle}
  <2>1. CASE work = Idle
    BY <2>1 DEF Tick
  <2>2. CASE work \in Works
    <3>1. work' = Item(work.phase, work.key, work.attempts, Later(work.due),
                       Less(work.owed))
      BY <2>2, WorkShape DEF Tick
    <3>2. Later(work.due) \in Nat /\ Less(work.owed) \in Nat
      BY <1>1, <2>2, WorkShape
    <3> QED
      BY <2>2, <3>1, <3>2, WorkShape, ItemType
  <2> QED
    BY <2>1, <2>2 DEF TypeOK
<1>5. UNCHANGED <<protocol, row, batch, faults, failures>>
  BY DEF Tick
<1> QED
  BY <1>2, <1>3, <1>4, <1>5 DEF TypeOK

LEMMA OfferTypes == ASSUME NEW k \in Rows PROVE TypeOK /\ Offer(k) => TypeOK'
<1> SUFFICES ASSUME TypeOK, Offer(k) PROVE TypeOK'
  OBVIOUS
<1>1. row' \in [Rows -> [status : Statuses, attempts : 0 .. MaxAttempts]]
  BY RetryAssumption DEF Offer, TypeOK, Statuses
<1>2. due' \in [Rows -> Nat]
  BY InColumnType DEF Offer, TypeOK
<1>3. failures' \in [Rows -> 0 .. MaxAttempts] /\ owed' \in [Rows -> Nat]
  BY RetryAssumption DEF Offer, TypeOK
<1>4. UNCHANGED <<protocol, tick, batch, work, faults>>
  BY DEF Offer
<1> QED
  BY <1>1, <1>2, <1>3, <1>4 DEF TypeOK

LEMMA FetchTypes == TypeOK /\ Fetch => TypeOK'
<1> SUFFICES ASSUME TypeOK, Fetch PROVE TypeOK'
  OBVIOUS
<1>1. PICK limit \in Limits :
        batch' = [k \in {j \in Ready : Cardinality({i \in Ready : i < j})
                                           < EffectiveLimit(limit)}
                    |-> row[k].attempts]
  BY DEF Fetch
<1>2. \A k \in Ready : k \in Rows /\ row[k].attempts \in 0 .. MaxAttempts
  BY DEF Ready, TypeOK
<1>3. DOMAIN batch' \subseteq Rows /\ batch' \in [DOMAIN batch' -> 0 .. MaxAttempts]
  BY <1>1, <1>2
<1>4. UNCHANGED <<protocol, tick, row, due, work, faults, failures, owed>>
  BY DEF Fetch
<1> QED
  BY <1>3, <1>4 DEF TypeOK

\* What Begin and Lock do to the batch and to the consumer.
LEMMA TakeTypes ==
  ASSUME TypeOK, NEW k \in DOMAIN batch
  PROVE  /\ Running(k) \in Works
         /\ DOMAIN RestOf(k) \subseteq Rows
         /\ RestOf(k) \in [DOMAIN RestOf(k) -> 0 .. MaxAttempts]
<1>1. k \in Rows /\ batch[k] \in 0 .. MaxAttempts
  BY DEF TypeOK
<1>2. Running(k) \in Works
  BY <1>1, ItemType DEF Running
<1> QED
  BY <1>2 DEF TypeOK, RestOf

LEMMA TakingTypes ==
  ASSUME NEW k \in Rows
  PROVE  TypeOK /\ Counts /\ (Begin(k) \/ Lock(k)) => TypeOK'
<1> SUFFICES ASSUME TypeOK, Counts, Begin(k) \/ Lock(k) PROVE TypeOK'
  OBVIOUS
<1>1. k \in DOMAIN batch
  BY DEF Begin, Lock, NextOf
<1>2. batch' = RestOf(k) /\ UNCHANGED <<protocol, tick, due, faults, failures, owed>>
  BY DEF Begin, Lock
<1>3. DOMAIN batch' \subseteq Rows /\ batch' \in [DOMAIN batch' -> 0 .. MaxAttempts]
  BY <1>1, <1>2, TakeTypes
<1>4. work' \in Works \cup {Idle}
  <2>1. work' = Running(k) \/ work' = work
    BY DEF Begin, Lock
  <2> QED
    BY <1>1, <2>1, TakeTypes DEF TypeOK
<1>5. row' \in [Rows -> [status : Statuses, attempts : 0 .. MaxAttempts]]
  <2>1. Counts'
    BY BeginKeeps, LockKeeps
  <2> QED
    BY <2>1 DEF Counts, Shape
<1> QED
  BY <1>2, <1>3, <1>4, <1>5 DEF TypeOK

LEMMA FailTypes == TypeOK /\ Counts /\ Fail => TypeOK'
<1> SUFFICES ASSUME TypeOK, Counts, Fail PROVE TypeOK'
  OBVIOUS
<1>1. work \in Works /\ work.phase = "running"
  BY DEF Fail, TypeOK, Idle
<1>2. work.key \in Rows /\ work.attempts \in Nat /\ work.attempts + 1 \in 0 .. MaxAttempts
  BY <1>1, WorkShape, RetryAssumption DEF Counts, CountsAreFailures
<1>3. /\ Delay(work.attempts + 1) \in Int /\ Promised(work.attempts + 1) \in Nat
  BY <1>2, DelayTypes
<1>4. /\ InColumn(Delay(work.attempts + 1)) \in Nat
      /\ TicksPerSecond * Promised(work.attempts + 1) \in Nat
  BY <1>3, InColumnType, ProductGrows, RetryAssumption
<1>5. work' \in Works
  BY <1>2, <1>4, ItemType DEF Fail
<1>6. failures' \in [Rows -> 0 .. MaxAttempts]
  <2>1. Counts'
    BY FailKeeps
  <2> QED
    BY <2>1 DEF Counts, Shape
<1>7. UNCHANGED <<protocol, tick, row, due, batch, faults, owed>>
  BY DEF Fail
<1> QED
  BY <1>5, <1>6, <1>7 DEF TypeOK

\* The columns of times after a failure was recorded.
LEMMA RecordTypes ==
  ASSUME TypeOK, work \in Works, Record
  PROVE  due' \in [Rows -> Nat] /\ owed' \in [Rows -> Nat]
BY WorkShape DEF Record, TypeOK

\* Steps that leave the consumer with nothing.
LEMMA EndTypes ==
  ASSUME TypeOK, Counts', work' = Idle, UNCHANGED <<protocol, tick>>,
         faults' \in 0 .. MaxFaults,
         UNCHANGED batch \/ batch' = [k \in {} |-> 0],
         due' \in [Rows -> Nat], owed' \in [Rows -> Nat]
  PROVE  TypeOK'
<1>1. /\ row' \in [Rows -> [status : Statuses, attempts : 0 .. MaxAttempts]]
      /\ failures' \in [Rows -> 0 .. MaxAttempts]
  BY DEF Counts, Shape
<1>2. DOMAIN batch' \subseteq Rows /\ batch' \in [DOMAIN batch' -> 0 .. MaxAttempts]
  BY DEF TypeOK
<1> QED
  BY <1>1, <1>2 DEF TypeOK

LEMMA FaultTypes == TypeOK /\ Fault => faults' \in 0 .. MaxFaults
BY RetryAssumption DEF TypeOK, Fault

LEMMA NextTypes == TypeOK /\ Counts /\ [Next]_vars => TypeOK'
<1> SUFFICES ASSUME TypeOK, Counts, [Next]_vars PROVE TypeOK'
  OBVIOUS
<1>0. Counts'
  BY NextCounts
<1>1. ASSUME NEW k \in Rows, Offer(k) PROVE TypeOK'
  BY <1>1, OfferTypes
<1>2. ASSUME NEW k \in Rows, Begin(k) \/ Lock(k) PROVE TypeOK'
  BY <1>2, TakingTypes
<1>3. CASE RecordFailure
  <2>1. work \in Works
    BY <1>3 DEF RecordFailure, TypeOK, Idle
  <2>2. due' \in [Rows -> Nat] /\ owed' \in [Rows -> Nat]
    BY <1>3, <2>1, RecordTypes DEF RecordFailure
  <2>3. UNCHANGED <<protocol, tick, batch, faults>> /\ work' = Idle
    BY <1>3 DEF RecordFailure
  <2>4. faults' \in 0 .. MaxFaults
    BY <2>3 DEF TypeOK
  <2> QED
    BY <1>0, <2>2, <2>3, <2>4, EndTypes
<1>4. CASE MarkDone
  <2>1. UNCHANGED <<protocol, tick, due, batch, faults, owed>> /\ work' = Idle
    BY <1>4 DEF MarkDone
  <2>2. /\ faults' \in 0 .. MaxFaults
        /\ due' \in [Rows -> Nat] /\ owed' \in [Rows -> Nat]
    BY <2>1 DEF TypeOK
  <2> QED
    BY <1>0, <2>1, <2>2, EndTypes
<1>5. CASE StatementFails
  <2>1. UNCHANGED <<protocol, tick, batch>> /\ work' = Idle /\ Fault
    BY <1>5 DEF StatementFails
  <2>2. due' \in [Rows -> Nat] /\ owed' \in [Rows -> Nat]
    <3>1. CASE UNCHANGED <<due, owed>>
      BY <3>1 DEF TypeOK
    <3>2. CASE work.phase = "failed" /\ Record
      <4>1. work \in Works
        BY <3>2 DEF TypeOK, Idle
      <4> QED
        BY <3>2, <4>1, RecordTypes
    <3> QED
      BY <1>5, <3>1, <3>2 DEF StatementFails
  <2> QED
    BY <1>0, <2>1, <2>2, FaultTypes, EndTypes
<1>6. CASE Crash
  <2>1. /\ UNCHANGED <<protocol, tick, due, owed>> /\ work' = Idle /\ Fault
        /\ batch' = [k \in {} |-> 0]
    BY <1>6 DEF Crash
  <2>2. due' \in [Rows -> Nat] /\ owed' \in [Rows -> Nat]
    BY <2>1 DEF TypeOK
  <2> QED
    BY <1>0, <2>1, <2>2, FaultTypes, EndTypes
<1>7. CASE UNCHANGED vars
  BY <1>7 DEF vars, TypeOK
<1> QED
  BY <1>1, <1>2, <1>3, <1>4, <1>5, <1>6, <1>7, TickTypes, FetchTypes, FailTypes
     DEF Next, Consume

\* Type correctness: in particular no time is negative, though delays may wrap
\* around, and no count exceeds MaxAttempts.
THEOREM TypeCorrect == Spec => []TypeOK
BY InitCounts, NextCounts, InitTypes, NextTypes, PTL DEF Spec

-----------------------------------------------------------------------------
(* Back-off *)

\* What SMT has to know of a second's ticks.
LEMMA SecondOfTicks ==
  ASSUME NEW d \in Nat
  PROVE  /\ TicksPerSecond * d \in Nat
         /\ d > 0 => /\ TicksPerSecond * (d - 1) = TicksPerSecond * d - TicksPerSecond
                     /\ TicksPerSecond * d >= TicksPerSecond
         /\ TicksPerSecond * (d + 1) = TicksPerSecond * d + TicksPerSecond
<1> DEFINE T == TicksPerSecond
<1>1. T \in Nat \ {0}
  BY RetryAssumption
<1>2. T * d \in Nat
  BY <1>1, ProductGrows
<1> HIDE DEF T
<1>3. d > 0 => T * (d - 1) = T * d - T
  BY <1>1
<1>4. d > 0 => T * d >= T
  <2>1. d > 0 => T * (d - 1) \in Nat
    BY <1>1, ProductGrows
  <2> QED
    BY <1>1, <1>2, <1>3, <2>1
<1>5. T * (d + 1) = T * d + T
  BY <1>1
<1> QED
  BY <1>2, <1>3, <1>4, <1>5 DEF T

\* Nothing owed is covered by any wait.
LEMMA NothingOwed ==
  ASSUME TypeOK, NEW d \in Nat
  PROVE  Covers(d, 0)
BY SecondOfTicks, RetryAssumption DEF Covers, TypeOK

\* The next_at of a failure covers what was promised: a delay in whole seconds
\* loses half a second when it is rounded down.
LEMMA DelayCovers ==
  ASSUME TypeOK, NEW delay \in Nat
  PROVE  Covers(InColumn(delay), TicksPerSecond * delay)
<1>1. TicksPerSecond \in Nat \ {0} /\ tick \in Nat /\ tick < TicksPerSecond
  BY RetryAssumption DEF TypeOK
<1>2. CASE 2 * tick >= TicksPerSecond
  <2>1. InColumn(delay) = delay + 1
    BY <1>2 DEF InColumn
  <2> QED
    BY <1>1, <2>1, SecondOfTicks DEF Covers
<1>3. CASE ~(2 * tick >= TicksPerSecond)
  <2>1. InColumn(delay) = delay
    BY <1>3 DEF InColumn
  <2>2. delay = 0 => TicksPerSecond * delay = 0
    BY <1>1
  <2> QED
    BY <1>1, <1>3, <2>1, <2>2, SecondOfTicks DEF Covers
<1> QED
  BY <1>2, <1>3

\* The clock takes a tick from what is owed, and a second from the wait where
\* a second begins.
LEMMA TickCovers ==
  ASSUME TypeOK, Tick, NEW d \in Nat, NEW o \in Nat, Covers(d, o),
         NEW later, later = IF tick + 1 = TicksPerSecond THEN Less(d) ELSE d
  PROVE  Covers(later, Less(o))'
<1>1. TicksPerSecond \in Nat \ {0} /\ tick \in Nat /\ tick < TicksPerSecond
  BY RetryAssumption DEF TypeOK
<1>2. CASE tick + 1 = TicksPerSecond
  <2>1. tick' = 0
    BY <1>1, <1>2 DEF Tick
  <2>2. CASE d > 1
    <3>1. TicksPerSecond * (d - 1) = TicksPerSecond * d - TicksPerSecond
      BY <2>2, SecondOfTicks
    <3>2. 2 * o <= TicksPerSecond + 2 * (TicksPerSecond * d - tick)
      BY <2>2 DEF Covers
    <3>3. 2 * Less(o) <= TicksPerSecond + 2 * (TicksPerSecond * (d - 1))
      BY <1>1, <1>2, <2>2, <3>1, <3>2, SecondOfTicks DEF Less
    <3> QED
      BY <1>1, <1>2, <2>1, <2>2, <3>3, SecondOfTicks DEF Covers, Less
  <2>3. CASE d <= 1
    <3>1. 2 * o <= TicksPerSecond + 2
      BY <1>1, <1>2, <2>3 DEF Covers
    <3> QED
      BY <1>1, <1>2, <2>1, <2>3, <3>1 DEF Covers, Less
  <2> QED
    BY <2>2, <2>3
<1>3. CASE tick + 1 # TicksPerSecond
  <2>1. tick' = tick + 1
    BY <1>1, <1>3, SmallRest DEF Tick
  <2> QED
    BY <1>1, <1>3, <2>1, SecondOfTicks DEF Covers, Less
<1> QED
  BY <1>2, <1>3

LEMMA InitBackoff == Init => BackoffKept
<1> SUFFICES ASSUME Init PROVE BackoffKept
  OBVIOUS
<1>1. work.phase = "idle"
  BY DEF Init, Idle
<1>2. \A k \in Rows : due[k] = 0 /\ owed[k] = 0
  BY DEF Init
<1> QED
  BY <1>1, <1>2, RetryAssumption DEF BackoffKept, Covers

LEMMA TickBackoff == TypeOK /\ BackoffKept /\ Tick => BackoffKept'
<1> SUFFICES ASSUME TypeOK, BackoffKept, Tick PROVE BackoffKept'
  OBVIOUS
<1> DEFINE Later(d) == IF tick + 1 = TicksPerSecond THEN Less(d) ELSE d
<1>1. ASSUME NEW k \in Rows PROVE Covers(due[k], owed[k])'
  <2>1. PICK d \in Nat, o \in Nat : d = due[k] /\ o = owed[k]
    BY DEF TypeOK
  <2>2. PICK later \in Nat : later = Later(d)
    BY LessType
  <2>3. Covers(later, Less(o))'
    BY <2>1, <2>2, TickCovers DEF BackoffKept
  <2>4. due'[k] = later /\ owed'[k] = Less(o)
    BY <2>1, <2>2 DEF Tick
  <2> QED
    BY <2>3, <2>4 DEF Covers
<1>2. ASSUME work'.phase = "failed", work'.attempts < MaxAttempts
      PROVE  Covers(work.due, work.owed)'
  <2>1. work \in Works
    BY <1>2 DEF Tick, TypeOK, Idle
  <2>2. PICK d \in Nat, o \in Nat : d = work.due /\ o = work.owed
    BY <2>1, WorkShape
  <2>3. PICK later \in Nat : later = Later(d)
    BY LessType
  <2>4. work' = Item(work.phase, work.key, work.attempts, later, Less(o))
    BY <2>1, <2>2, <2>3, WorkShape DEF Tick
  <2>5. Covers(d, o)
    BY <1>2, <2>2, <2>4 DEF BackoffKept, Item
  <2>6. Covers(later, Less(o))'
    BY <2>3, <2>5, TickCovers
  <2> QED
    BY <2>4, <2>6 DEF Covers, Item
<1> QED
  BY <1>1, <1>2 DEF BackoffKept

\* The other steps take no time: what they leave alone stays covered.
LEMMA QuietBackoff ==
  ASSUME BackoffKept, UNCHANGED <<tick, due, owed>>,
         work'.phase = "failed" => work' = work
  PROVE  BackoffKept'
BY DEF BackoffKept, Covers

LEMMA OfferBackoff ==
  ASSUME NEW k \in Rows
  PROVE  TypeOK /\ BackoffKept /\ Offer(k) => BackoffKept'
<1> SUFFICES ASSUME TypeOK, BackoffKept, Offer(k) PROVE BackoffKept'
  OBVIOUS
<1>1. PICK d \in 0 .. InColumn(0) : due' = [due EXCEPT ![k] = d]
  BY DEF Offer
<1>2. d \in Nat
  BY InColumnType
<1>3. Covers(d, 0)
  BY <1>2, NothingOwed
<1>4. due'[k] = d /\ owed'[k] = 0
  BY <1>1 DEF Offer, TypeOK
<1>5. \A j \in Rows : j # k => due'[j] = due[j] /\ owed'[j] = owed[j]
  BY <1>1 DEF Offer, TypeOK
<1>6. tick' = tick /\ work' = work
  BY DEF Offer
<1> QED
  BY <1>3, <1>4, <1>5, <1>6 DEF BackoffKept, Covers

\* Only a failure that will be retried has to keep its promise.
LEMMA FailBackoff ==
  DelaysFit /\ TypeOK /\ Counts /\ BackoffKept /\ Fail => BackoffKept'
<1> SUFFICES ASSUME DelaysFit, TypeOK, Counts, BackoffKept, Fail PROVE BackoffKept'
  OBVIOUS
<1>1. UNCHANGED <<tick, due, owed>>
  BY DEF Fail
<1>2. ASSUME work'.attempts < MaxAttempts PROVE Covers(work.due, work.owed)'
  <2>1. work \in Works
    BY DEF Fail, TypeOK, Idle
  <2>2. work'.attempts = work.attempts + 1 /\ work.attempts \in Nat
    BY <2>1, WorkShape DEF Fail, Item
  <2>3. PICK n \in Nat \ {0} : n = work.attempts + 1
    BY <2>2
  <2>4. n < MaxAttempts
    BY <1>2, <2>2, <2>3
  <2>5. Delay(n) = Promised(n) /\ Promised(n) \in Nat
    BY <2>4, DelayIsPromised, DelayTypes
  <2>6. Covers(InColumn(Delay(n)), TicksPerSecond * Promised(n))
    BY <2>5, DelayCovers
  <2>7. work'.due = InColumn(Delay(n)) /\ work'.owed = TicksPerSecond * Promised(n)
    BY <2>3 DEF Fail, Item
  <2> QED
    BY <1>1, <2>6, <2>7 DEF Covers
<1> QED
  BY <1>1, <1>2 DEF BackoffKept, Covers

LEMMA RecordBackoff ==
  ASSUME TypeOK, BackoffKept, work.phase = "failed", Record, tick' = tick, work' = Idle
  PROVE  BackoffKept'
<1>1. work \in Works
  BY DEF TypeOK, Idle
<1>2. work.key \in Rows /\ work.attempts \in 0 .. MaxAttempts
  BY <1>1, WorkShape
<1>3. work'.phase # "failed"
  BY DEF Idle
<1>4. CASE work.attempts >= MaxAttempts
  <2>1. UNCHANGED <<due, owed>>
    BY <1>4 DEF Record
  <2> QED
    BY <1>3, <2>1, QuietBackoff
<1>5. CASE ~(work.attempts >= MaxAttempts)
  <2>1. Covers(work.due, work.owed)
    BY <1>2, <1>5, RetryAssumption DEF BackoffKept
  <2>2. /\ due'[work.key] = work.due /\ owed'[work.key] = work.owed
        /\ \A j \in Rows : j # work.key => due'[j] = due[j] /\ owed'[j] = owed[j]
    BY <1>2, <1>5 DEF Record, TypeOK
  <2> QED
    BY <1>3, <2>1, <2>2 DEF BackoffKept, Covers
<1> QED
  BY <1>4, <1>5

LEMMA NextBackoff ==
  DelaysFit /\ TypeOK /\ Counts /\ BackoffKept /\ [Next]_vars => BackoffKept'
<1> SUFFICES ASSUME DelaysFit, TypeOK, Counts, BackoffKept, [Next]_vars
             PROVE  BackoffKept'
  OBVIOUS
<1>1. ASSUME NEW k \in Rows, Offer(k) PROVE BackoffKept'
  BY <1>1, OfferBackoff
<1>2. ASSUME NEW k \in Rows, Begin(k) \/ Lock(k) PROVE BackoffKept'
  <2>1. UNCHANGED <<tick, due, owed>>
    BY <1>2 DEF Begin, Lock
  <2>2. work' = Running(k) \/ work' = work
    BY <1>2 DEF Begin, Lock
  <2>3. Running(k).phase = "running"
    BY DEF Running, Item
  <2> QED
    BY <2>1, <2>2, <2>3, QuietBackoff
<1>3. CASE RecordFailure
  BY <1>3, RecordBackoff DEF RecordFailure
<1>4. Idle.phase = "idle"
  BY DEF Idle
<1>5. CASE Fetch \/ MarkDone \/ Crash \/ UNCHANGED vars
  <2>1. UNCHANGED <<tick, due, owed>> /\ (work' = Idle \/ work' = work)
    BY <1>5 DEF Fetch, MarkDone, Crash, vars
  <2> QED
    BY <1>4, <2>1, QuietBackoff
<1>6. CASE StatementFails
  <2>1. tick' = tick /\ work' = Idle
    BY <1>6 DEF StatementFails
  <2>2. CASE UNCHANGED <<due, owed>>
    BY <1>4, <2>1, <2>2, QuietBackoff
  <2>3. CASE work.phase = "failed" /\ Record
    BY <2>1, <2>3, RecordBackoff
  <2> QED
    BY <1>6, <2>2, <2>3 DEF StatementFails
<1> QED
  BY <1>1, <1>2, <1>3, <1>5, <1>6, TickBackoff, FailBackoff DEF Next, Consume

\* No event is handed out before its back-off is over but for half a second,
\* for any delays that fit into the machine's word, any cap, any number of rows,
\* and whatever crashed, was lost or was delivered again.
THEOREM BackoffIsRespected == DelaysFit => (Spec => []BackoffRespected)
<1> SUFFICES ASSUME DelaysFit PROVE Spec => []BackoffRespected
  OBVIOUS
<1>1. BackoffKept => BackoffRespected
  BY RetryAssumption DEF BackoffKept, BackoffRespected, Ready, Covers
<1>2. TypeOK /\ Counts /\ BackoffKept /\ [Next]_vars => BackoffKept'
  BY NextBackoff
<1> QED
  BY <1>1, <1>2, InitCounts, NextCounts, InitTypes, NextTypes, InitBackoff, PTL
     DEF Spec
=============================================================================
