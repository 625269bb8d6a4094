---------------------------- MODULE LeasingProofs ---------------------------
(***************************************************************************)
(* What holds of leases for every lease time, clock resolution, number of  *)
(* leases and length of run.  Some of it needs a wall clock nobody sets,   *)
(* some of it callbacks of at most a second; each theorem says which.      *)
(***************************************************************************)
EXTENDS Leasing, TLAPS

(* One read of the queue at a time: what Append and Tail do to an element. *)
LEMMA AppendElements ==
  ASSUME NEW S, NEW q \in Seq(S), NEW e \in S
  PROVE  /\ Append(q, e) \in Seq(S)
         /\ Len(Append(q, e)) = Len(q) + 1
         /\ Append(q, e) # <<>>
         /\ \A i \in 1 .. Len(q) : Append(q, e)[i] = q[i]
         /\ Append(q, e)[Len(q) + 1] = e
         /\ q # <<>> => Head(Append(q, e)) = Head(q)
         /\ q = <<>> => Head(Append(q, e)) = e
OBVIOUS

LEMMA TailElements ==
  ASSUME NEW S, NEW q \in Seq(S), q # <<>>
  PROVE  /\ Tail(q) \in Seq(S)
         /\ Len(Tail(q)) = Len(q) - 1
         /\ \A i \in 1 .. Len(Tail(q)) : Tail(q)[i] = q[i + 1]
         /\ Head(q) = q[1]
         /\ 1 \in 1 .. Len(q)
OBVIOUS

LEMMA LeaseFields ==
  ASSUME NEW e \in Lease
  PROVE  e.expiry_s \in Int /\ e.since.sec \in Nat
<1>1. e.expiry_s \in Int /\ e.since \in Instant
  BY DEF Lease
<1>2. QED
  BY <1>1 DEF Instant

LEMMA QueueElement ==
  ASSUME LeaseTypeOK, NEW i \in 1 .. Len(expiry_queue)
  PROVE  /\ expiry_queue[i] \in Lease
         /\ expiry_queue[i].expiry_s \in Int
         /\ expiry_queue[i].since.sec \in Nat
<1>1. expiry_queue[i] \in Lease
  BY DEF LeaseTypeOK
<1>2. QED
  BY <1>1, LeaseFields

-----------------------------------------------------------------------------
(* A new element of the queue is a lease. *)
LEMMA NewLeaseType ==
  ASSUME LeaseTypeOK, NEW o \in Object
  PROVE  [object |-> o, expiry_s |-> tv_sec + EXPIRY_TIME_S,
          id |-> taken + 1, since |-> Now] \in Lease
BY LeasingAssumption DEF LeaseTypeOK, Lease, Instant, Now, tv_sec, EXPIRY_TIME_S

LEMMA SecondsUntilNat ==
  ASSUME LeaseTypeOK, NEW e \in Int
  PROVE  /\ SecondsUntil(e) \in Nat
         /\ 0 <= e - tv_sec /\ e - tv_sec < GuintModulus
              => SecondsUntil(e) = e - tv_sec
<1> DEFINE d == e - tv_sec
<1>1. d \in Int
  BY DEF LeaseTypeOK, tv_sec
<1>2. GuintModulus \in Nat /\ GuintModulus > 0
  BY LeasingAssumption DEF EXPIRY_TIME_S
<1> HIDE DEF d
<1>3. d % GuintModulus \in Nat /\ (0 <= d /\ d < GuintModulus => d % GuintModulus = d)
  BY <1>1, <1>2
<1>4. QED
  BY <1>3 DEF d, SecondsUntil

LEMMA HeadIsLease ==
  ASSUME LeaseTypeOK, expiry_queue # <<>>
  PROVE  Head(expiry_queue) \in Lease
BY DEF LeaseTypeOK

LEMMA LeaseTypeStep ==
  ASSUME LeaseTypeOK, [LeaseNext]_vars
  PROVE  LeaseTypeOK'
<1> USE LeasingAssumption
<1>1. CASE Tick
  BY <1>1 DEF LeaseTypeOK, Tick, leaseVars, Instant
<1>2. CASE SetWallClock
  BY <1>2 DEF LeaseTypeOK, SetWallClock, leaseVars
<1>3. ASSUME NEW o \in Object, Take(o) PROVE LeaseTypeOK'
  <2>1. expiry_queue' \in Seq(Lease)
    BY <1>3, NewLeaseType, AppendElements DEF Take, Taken, LeaseTypeOK
  <2>2. taken' \in 0 .. MaxLeases
    BY <1>3 DEF Take, Taken, LeaseTypeOK
  <2>3. QED
    BY <1>3, <2>1, <2>2 DEF Take, LeaseTypeOK, clockVars
<1>4. CASE Fire
  BY <1>4 DEF LeaseTypeOK, Fire, clockVars, tv_sec
<1>5. CASE Expire
  <2>1. expiry_queue' \in Seq(Lease)
    BY <1>5, TailElements DEF Expire, HeadExpired, LeaseTypeOK
  <2>2. QED
    BY <1>5, <2>1 DEF Expire, LeaseTypeOK, clockVars
<1>6. CASE ExpireDone
  <2>1. expiry_func_id' \in BOOLEAN
    BY <1>6 DEF ExpireDone
  <2>2. due' \in Instant
    BY <1>6 DEF ExpireDone, Instant
  <2>3. QED
    BY <1>6, <2>1, <2>2 DEF LeaseTypeOK, ExpireDone, clockVars
<1>7. CASE Arm
  <2>1. expiry_func_id' \in BOOLEAN /\ due' \in Instant
    <3>1. CASE expiry_func_id \/ expiry_queue = <<>>
      BY <1>7, <3>1 DEF Arm, AddExpiryTimeout, LeaseTypeOK
    <3>2. CASE ~(expiry_func_id \/ expiry_queue = <<>>)
      <4>1. Head(expiry_queue).expiry_s \in Int
        BY <3>2, HeadIsLease DEF Lease
      <4>2. SecondsUntil(Head(expiry_queue).expiry_s) \in Nat
        BY <4>1, SecondsUntilNat
      <4>3. QED
        BY <1>7, <3>2, <4>2 DEF Arm, AddExpiryTimeout, LeaseTypeOK, Instant
    <3>3. QED
      BY <3>1, <3>2
  <2>2. QED
    BY <1>7, <2>1 DEF Arm, LeaseTypeOK, clockVars
<1>8. CASE UNCHANGED vars
  BY <1>8 DEF LeaseTypeOK, vars, clockVars, leaseVars
<1>9. QED
  BY <1>1, <1>2, <1>3, <1>4, <1>5, <1>6, <1>7, <1>8 DEF LeaseNext

LEMMA LeaseTypeInit == LeaseInit => LeaseTypeOK
<1> SUFFICES ASSUME LeaseInit PROVE LeaseTypeOK
  OBVIOUS
<1>1. expiry_func_id \in BOOLEAN
  BY DEF LeaseInit
<1>2. due \in Instant
  BY LeasingAssumption DEF LeaseInit, Instant
<1>3. QED
  BY <1>1, <1>2, LeasingAssumption DEF LeaseInit, LeaseTypeOK

\* The variables keep their types, whatever the clock does.
THEOREM LeaseTypeCorrect == LeaseSpec => []LeaseTypeOK
<1>1. LeaseTypeOK /\ [LeaseNext]_vars => LeaseTypeOK'
  BY LeaseTypeStep
<1>2. QED
  BY <1>1, LeaseTypeInit, PTL DEF LeaseSpec

(* The chain of timeouts is never lost: spi_leasing_take and expiry_func   *)
(* both end in add_expiry_timeout (accessible-leasing.c:128, 201).         *)
THEOREM LeaseTimeoutScheduled == LeaseSpec => []TimeoutScheduled
<1>1. LeaseInit => TimeoutScheduled
  BY DEF LeaseInit, TimeoutScheduled
<1>2. LeaseTypeOK /\ TimeoutScheduled /\ [LeaseNext]_vars => TimeoutScheduled'
  BY DEF LeaseTypeOK, TimeoutScheduled, LeaseNext, Tick, SetWallClock, Take, Taken,
     Fire, Expire, ExpireDone, Arm, AddExpiryTimeout, vars, clockVars, leaseVars
<1>3. QED
  BY <1>1, <1>2, LeaseTypeCorrect, PTL DEF LeaseSpec

-----------------------------------------------------------------------------
(* From here on the wall clock has not been set.                           *)

\* A clock that has not been set after a step had not been before it.
LEMMA ClockNeverSetStep ==
  ASSUME LeaseTypeOK, [LeaseNext]_vars, ClockNeverSet'
  PROVE  ClockNeverSet /\ ~SetWallClock
<1>1. ~SetWallClock
  BY DEF SetWallClock, ClockNeverSet, LeaseTypeOK
<1>2. steps' = steps
  BY <1>1 DEF LeaseNext, Tick, Take, Fire, Expire, ExpireDone, Arm, vars, clockVars
<1>3. QED
  BY <1>1, <1>2 DEF ClockNeverSet

(* Every element of the queue ends a lease time, rounded up, after it was  *)
(* taken, which was not in the future; later elements were taken later.    *)
QueueAsTaken ==
  /\ offset = 0
  /\ \A i \in 1 .. Len(expiry_queue) :
       /\ expiry_queue[i].expiry_s = expiry_queue[i].since.sec + EXPIRY_TIME_S
       /\ expiry_queue[i].since.sec <= sec
  /\ \A i, j \in 1 .. Len(expiry_queue) :
       i < j => expiry_queue[i].since.sec <= expiry_queue[j].since.sec
  /\ pc = "expiring" => t <= sec

LEMMA QueueAsTakenInit == LeaseInit => QueueAsTaken
BY DEF LeaseInit, QueueAsTaken

LEMMA QueueAsTakenStep ==
  ASSUME LeaseTypeOK, QueueAsTaken, [LeaseNext]_vars, ~SetWallClock
  PROVE  QueueAsTaken'
<1> USE LeasingAssumption
<1>1. CASE Tick
  <2>1. sec' \in Nat /\ sec' >= sec
    BY <1>1 DEF Tick, LeaseTypeOK
  <2>2. \A i \in 1 .. Len(expiry_queue) : expiry_queue[i].since.sec \in Nat
    BY QueueElement
  <2>3. QED
    BY <1>1, <2>1, <2>2 DEF QueueAsTaken, Tick, LeaseTypeOK, leaseVars
<1>2. ASSUME NEW o \in Object, Take(o) PROVE QueueAsTaken'
  <2> DEFINE e == [object |-> o, expiry_s |-> tv_sec + EXPIRY_TIME_S,
                   id |-> taken + 1, since |-> Now]
             n == Len(expiry_queue)
  <2>1. e \in Lease /\ expiry_queue \in Seq(Lease)
    BY NewLeaseType DEF LeaseTypeOK
  <2>2. expiry_queue' = Append(expiry_queue, e)
    BY <1>2 DEF Take, Taken
  <2>3. e.expiry_s = e.since.sec + EXPIRY_TIME_S /\ e.since.sec = sec
    BY DEF QueueAsTaken, tv_sec, Now, LeaseTypeOK
  <2> HIDE DEF e
  <2>4. /\ Len(expiry_queue') = n + 1
        /\ \A i \in 1 .. n : expiry_queue'[i] = expiry_queue[i]
        /\ expiry_queue'[n + 1] = e
    BY <2>1, <2>2, AppendElements
  <2>5. n \in Nat
    BY <2>1
  <2>6. UNCHANGED <<sec, offset, t>> /\ (pc' = "expiring" => pc = "expiring")
    BY <1>2 DEF Take, clockVars
  <2> HIDE DEF n
  <2>7. \A i \in 1 .. (n + 1) : i \in 1 .. n \/ i = n + 1
    BY <2>5
  <2>8. ASSUME NEW i \in 1 .. (n + 1)
        PROVE  /\ expiry_queue'[i].expiry_s = expiry_queue'[i].since.sec + EXPIRY_TIME_S
               /\ expiry_queue'[i].since.sec <= sec
    BY <2>3, <2>4, <2>7 DEF QueueAsTaken, LeaseTypeOK, n
  <2>9. ASSUME NEW i \in 1 .. (n + 1), NEW j \in 1 .. (n + 1), i < j
        PROVE  expiry_queue'[i].since.sec <= expiry_queue'[j].since.sec
    <3>1. i \in 1 .. n
      BY <2>5, <2>9
    <3>2. CASE j \in 1 .. n
      BY <2>4, <2>9, <3>1, <3>2 DEF QueueAsTaken, n
    <3>3. CASE j = n + 1
      BY <2>3, <2>4, <3>1, <3>3 DEF QueueAsTaken, n
    <3>4. QED
      BY <2>7, <3>2, <3>3
  <2>10. QED
    BY <2>4, <2>6, <2>8, <2>9 DEF QueueAsTaken
<1>3. CASE Fire
  BY <1>3 DEF QueueAsTaken, Fire, clockVars, tv_sec, LeaseTypeOK
<1>4. CASE Expire
  <2> DEFINE q == expiry_queue
  <2>1. q \in Seq(Lease) /\ q # <<>> /\ q' = Tail(q)
    BY <1>4 DEF Expire, HeadExpired, LeaseTypeOK
  <2>2. /\ Len(q') = Len(q) - 1 /\ Len(q) \in Nat
        /\ \A i \in 1 .. Len(q') : q'[i] = q[i + 1]
    BY <2>1, TailElements
  <2>3. \A i \in 1 .. Len(q') : i + 1 \in 1 .. Len(q)
    BY <2>2
  <2>4. UNCHANGED <<sec, offset, t, pc>>
    BY <1>4 DEF Expire, clockVars
  <2>5. \A i \in 1 .. Len(q') :
          /\ q'[i].expiry_s = q'[i].since.sec + EXPIRY_TIME_S
          /\ q'[i].since.sec <= sec
    BY <2>2, <2>3 DEF QueueAsTaken
  <2>6. ASSUME NEW i \in 1 .. Len(q'), NEW j \in 1 .. Len(q'), i < j
        PROVE  q'[i].since.sec <= q'[j].since.sec
    <3>1. i + 1 \in 1 .. Len(q) /\ j + 1 \in 1 .. Len(q) /\ i + 1 < j + 1
      BY <2>3, <2>6
    <3>2. QED
      BY <2>2, <3>1 DEF QueueAsTaken
  <2>7. QED
    BY <2>4, <2>5, <2>6 DEF QueueAsTaken
<1>5. CASE ExpireDone
  BY <1>5 DEF QueueAsTaken, ExpireDone, clockVars
<1>6. CASE Arm
  BY <1>6 DEF QueueAsTaken, Arm, clockVars
<1>7. CASE UNCHANGED vars
  BY <1>7 DEF QueueAsTaken, vars, clockVars, leaseVars
<1>8. QED
  BY <1>1, <1>2, <1>3, <1>4, <1>5, <1>6, <1>7 DEF LeaseNext

(* The queue of leases is kept in the order in which they were taken, as   *)
(* long as nobody sets the clock (accessible-leasing.c:137).               *)
THEOREM LeaseQueueAsTaken == LeaseSpec => [](ClockNeverSet => QueueAsTaken)
<1>1. LeaseInit => (ClockNeverSet => QueueAsTaken)
  BY QueueAsTakenInit
<1>2. LeaseTypeOK /\ (ClockNeverSet => QueueAsTaken) /\ [LeaseNext]_vars
        => (ClockNeverSet => QueueAsTaken)'
  BY ClockNeverSetStep, QueueAsTakenStep
<1>3. QED
  BY <1>1, <1>2, LeaseTypeCorrect, PTL DEF LeaseSpec

(* "Events are always later in time to previoulsy added events"            *)
(* (accessible-leasing.c:137): so, while the wall clock is not set.        *)
THEOREM LeaseQueueOrdered == LeaseSpec => []QueueInExpiryOrder
<1>1. LeaseTypeOK /\ (ClockNeverSet => QueueAsTaken) => QueueInExpiryOrder
  <2> SUFFICES ASSUME LeaseTypeOK, QueueAsTaken,
                      NEW i \in DOMAIN expiry_queue, NEW j \in DOMAIN expiry_queue, i < j
               PROVE  expiry_queue[i].expiry_s <= expiry_queue[j].expiry_s
    BY DEF QueueInExpiryOrder
  <2>1. DOMAIN expiry_queue = 1 .. Len(expiry_queue)
    BY DEF LeaseTypeOK
  <2>2. /\ expiry_queue[i].since.sec \in Nat
        /\ expiry_queue[j].since.sec \in Nat
        /\ EXPIRY_TIME_S \in Nat
    BY <2>1, QueueElement, LeasingAssumption DEF EXPIRY_TIME_S
  <2>3. QED
    BY <2>1, <2>2, SMTT(30) DEF QueueAsTaken
<1>2. QED
  BY <1>1, LeaseTypeCorrect, LeaseQueueAsTaken, PTL

(* A lease is never shorter than LEASE_TIME_S (accessible-leasing.c:172),  *)
(* as long as the wall clock is not set.                                   *)
THEOREM LeaseMinimum == LeaseSpec => LeaseIsMinimum
<1>1. LeaseTypeOK /\ (ClockNeverSet => QueueAsTaken) /\ [LeaseNext]_vars =>
        [ClockNeverSet' /\ Len(expiry_queue') < Len(expiry_queue) =>
           AtLeast(LEASE_TIME_S, Head(expiry_queue).since, Now)]_vars
  <2> SUFFICES ASSUME LeaseTypeOK, QueueAsTaken, LeaseNext,
                      Len(expiry_queue') < Len(expiry_queue)
               PROVE  AtLeast(LEASE_TIME_S, Head(expiry_queue).since, Now)
    BY ClockNeverSetStep
  <2>1. Len(expiry_queue) \in Nat
    BY DEF LeaseTypeOK
  <2>2. expiry_queue' # expiry_queue
    BY <2>1
  <2>3. ASSUME NEW o \in Object, Take(o) PROVE FALSE
    BY <2>1, <2>3, NewLeaseType, AppendElements DEF Take, Taken, LeaseTypeOK
  <2>4. Expire
    BY <2>2, <2>3 DEF LeaseNext, Tick, SetWallClock, Fire, ExpireDone, Arm, leaseVars
  <2>5. expiry_queue # <<>> /\ Head(expiry_queue).expiry_s <= t /\ pc = "expiring"
    BY <2>4 DEF Expire, HeadExpired
  <2>6. Head(expiry_queue) = expiry_queue[1] /\ 1 \in 1 .. Len(expiry_queue)
    BY <2>5, TailElements DEF LeaseTypeOK
  <2>7. expiry_queue[1].since.sec \in Nat /\ EXPIRY_TIME_S \in Nat
    BY <2>6, QueueElement, LeasingAssumption DEF EXPIRY_TIME_S
  <2>8. expiry_queue[1].since.sec + EXPIRY_TIME_S <= sec
    BY <2>5, <2>6, <2>7, SMTT(30) DEF QueueAsTaken, LeaseTypeOK
  <2>9. Now.sec - expiry_queue[1].since.sec > LEASE_TIME_S
    BY <2>7, <2>8, LeasingAssumption DEF Now, EXPIRY_TIME_S, LeaseTypeOK
  <2>10. QED
    BY <2>6, <2>9 DEF AtLeast
<1>2. QED
  BY <1>1, LeaseTypeCorrect, LeaseQueueAsTaken, PTL DEF LeaseSpec, LeaseIsMinimum

-----------------------------------------------------------------------------
(* And from here on a callback takes at most a second as well.             *)

(* expiry_func read the clock in this second, or late in the one before.   *)
ReadRecently == pc = "expiring" => sec = t \/ (sec = t + 1 /\ frac < stall)

(* When add_expiry_timeout is about to set the timeout, the head of the    *)
(* queue is not over: not before this second, and if this very second,     *)
(* then the callback began in the second before.                           *)
HeadAhead ==
  pc = "arming" /\ ~expiry_func_id /\ expiry_queue # <<>> =>
    \/ Head(expiry_queue).expiry_s >= sec + 1
    \/ Head(expiry_queue).expiry_s = sec /\ frac < stall

\* A timeout on record outside expiry_func is one for the head of the queue.
TimeoutIsForHead ==
  /\ pc = "expiring" => expiry_func_id
  /\ pc # "expiring" /\ expiry_func_id =>
       expiry_queue # <<>> /\ due.sec <= Head(expiry_queue).expiry_s

TimeoutInv ==
  /\ LeaseTypeOK /\ QueueAsTaken /\ TimeoutScheduled
  /\ ReadRecently /\ HeadAhead /\ TimeoutIsForHead

LEMMA TimeoutStep ==
  ASSUME MaxStall <= TicksPerSecond, TimeoutInv, LeaseTypeOK', QueueAsTaken',
         [LeaseNext]_vars, ~SetWallClock
  PROVE  ReadRecently' /\ HeadAhead' /\ TimeoutIsForHead'
<1> USE LeasingAssumption
<1>0. LeaseTypeOK /\ QueueAsTaken /\ ReadRecently /\ HeadAhead /\ TimeoutIsForHead
  BY DEF TimeoutInv
<1>00. expiry_queue # <<>> =>
         /\ Head(expiry_queue).expiry_s \in Int
         /\ Head(expiry_queue).expiry_s <= sec + EXPIRY_TIME_S
  <2> SUFFICES ASSUME expiry_queue # <<>>
               PROVE  /\ Head(expiry_queue).expiry_s \in Int
                      /\ Head(expiry_queue).expiry_s <= sec + EXPIRY_TIME_S
    OBVIOUS
  <2>1. Head(expiry_queue) = expiry_queue[1] /\ 1 \in 1 .. Len(expiry_queue)
    BY <1>0, TailElements DEF LeaseTypeOK
  <2>2. /\ expiry_queue[1].expiry_s \in Int
        /\ expiry_queue[1].since.sec \in Nat
        /\ EXPIRY_TIME_S \in Nat
    BY <1>0, <2>1, QueueElement DEF EXPIRY_TIME_S
  <2>3. /\ expiry_queue[1].expiry_s = expiry_queue[1].since.sec + EXPIRY_TIME_S
        /\ expiry_queue[1].since.sec <= sec
    BY <1>0, <2>1 DEF QueueAsTaken
  <2>4. sec \in Nat
    BY <1>0 DEF LeaseTypeOK
  <2>5. expiry_queue[1].expiry_s <= sec + EXPIRY_TIME_S
    BY <2>2, <2>3, <2>4
  <2>6. QED
    BY <2>1, <2>2, <2>5
<1>1. CASE Tick
  <2>1. /\ UNCHANGED <<expiry_queue, expiry_func_id, due, pc, t>>
        /\ pc # "main" => stall < MaxStall /\ stall' = stall + 1
    BY <1>1 DEF Tick, leaseVars
  <2>2. \/ frac' = frac + 1 /\ sec' = sec
        \/ frac' = 0 /\ sec' = sec + 1 /\ frac + 1 >= TicksPerSecond
    BY <1>1, <1>0 DEF Tick, LeaseTypeOK
  <2>3. ReadRecently'
    BY <1>0, <2>1, <2>2 DEF ReadRecently, LeaseTypeOK
  <2>4. HeadAhead'
    BY <1>0, <1>00, <2>1, <2>2, SMTT(30) DEF HeadAhead, LeaseTypeOK
  <2>5. TimeoutIsForHead'
    BY <1>0, <2>1 DEF TimeoutIsForHead
  <2>6. QED
    BY <2>3, <2>4, <2>5
<1>2. ASSUME NEW o \in Object, Take(o)
      PROVE  ReadRecently' /\ HeadAhead' /\ TimeoutIsForHead'
  <2> DEFINE e == [object |-> o, expiry_s |-> tv_sec + EXPIRY_TIME_S,
                   id |-> taken + 1, since |-> Now]
  <2>1. e \in Lease /\ e.expiry_s = sec + EXPIRY_TIME_S
    BY <1>0, NewLeaseType DEF QueueAsTaken, tv_sec, LeaseTypeOK
  <2>2. expiry_queue' = Append(expiry_queue, e)
    BY <1>2 DEF Take, Taken
  <2> HIDE DEF e
  <2>3. /\ expiry_queue' # <<>>
        /\ expiry_queue # <<>> => Head(expiry_queue') = Head(expiry_queue)
        /\ expiry_queue = <<>> => Head(expiry_queue') = e
    <3>1. expiry_queue \in Seq(Lease) /\ e \in Lease
      BY <1>0, <2>1 DEF LeaseTypeOK
    <3>2. /\ Append(expiry_queue, e) # <<>>
          /\ expiry_queue # <<>> => Head(Append(expiry_queue, e)) = Head(expiry_queue)
          /\ expiry_queue = <<>> => Head(Append(expiry_queue, e)) = e
      BY ONLY <3>1, AppendElements
    <3>3. QED
      BY ONLY <2>2, <3>2
  <2>4. /\ UNCHANGED <<sec, frac, t, expiry_func_id, due>>
        /\ \/ pc = "main" /\ pc' = "arming"
           \/ pc = "expiring" /\ pc' = pc /\ stall' = stall
    BY <1>2 DEF Take, clockVars
  <2>5. ReadRecently'
    BY <1>0, <2>4 DEF ReadRecently
  <2>6. HeadAhead'
    <3>1. pc' = "arming" /\ ~expiry_func_id' => expiry_queue = <<>>
      BY <2>4 DEF TimeoutInv, TimeoutScheduled
    <3>2. EXPIRY_TIME_S >= 1 /\ EXPIRY_TIME_S \in Nat
      BY DEF EXPIRY_TIME_S
    <3>3. QED
      BY <1>0, <2>1, <2>3, <2>4, <3>1, <3>2 DEF HeadAhead, LeaseTypeOK
  <2>7. TimeoutIsForHead'
    BY <1>0, <2>3, <2>4 DEF TimeoutIsForHead
  <2>8. QED
    BY <2>5, <2>6, <2>7
<1>3. CASE Fire
  BY <1>0, <1>3 DEF Fire, clockVars, ReadRecently, HeadAhead, TimeoutIsForHead,
     QueueAsTaken, tv_sec, LeaseTypeOK
<1>4. CASE Expire
  BY <1>0, <1>4 DEF Expire, clockVars, ReadRecently, HeadAhead, TimeoutIsForHead
<1>5. CASE ExpireDone
  <2>1. pc = "expiring" /\ pc' = "arming" /\ expiry_func_id' = FALSE
    BY <1>5 DEF ExpireDone
  <2>2. UNCHANGED <<sec, frac, stall, expiry_queue>>
    BY <1>5 DEF ExpireDone, clockVars
  <2>3. expiry_queue # <<>> => Head(expiry_queue).expiry_s > t
    BY <1>0, <1>00, <1>5 DEF ExpireDone, HeadExpired, LeaseTypeOK
  <2>4. HeadAhead'
    BY <1>0, <1>00, <2>1, <2>2, <2>3 DEF ReadRecently, HeadAhead, LeaseTypeOK
  <2>5. QED
    BY <2>1, <2>4 DEF ReadRecently, TimeoutIsForHead
<1>6. CASE Arm
  <2>1. pc = "arming" /\ pc' = "main" /\ UNCHANGED <<sec, frac, expiry_queue>>
    BY <1>6 DEF Arm, clockVars
  <2>2. CASE expiry_func_id \/ expiry_queue = <<>>
    BY <1>0, <1>6, <2>1, <2>2 DEF Arm, AddExpiryTimeout, ReadRecently, HeadAhead,
       TimeoutIsForHead
  <2>3. CASE ~(expiry_func_id \/ expiry_queue = <<>>)
    <3> DEFINE h == Head(expiry_queue).expiry_s
    <3>1. h \in Int /\ sec \in Nat /\ h >= sec /\ h <= sec + EXPIRY_TIME_S
      BY <1>0, <1>00, <2>1, <2>3 DEF HeadAhead, LeaseTypeOK
    <3>2. SecondsUntil(h) = h - sec
      <4>1. tv_sec = sec
        BY <1>0 DEF QueueAsTaken, tv_sec, LeaseTypeOK
      <4>2. EXPIRY_TIME_S \in Nat /\ GuintModulus \in Nat /\ GuintModulus > EXPIRY_TIME_S
        BY DEF EXPIRY_TIME_S
      <4> HIDE DEF h
      <4>3. 0 <= h - tv_sec /\ h - tv_sec < GuintModulus
        BY <3>1, <4>1, <4>2
      <4>4. QED
        BY <1>0, <3>1, <4>1, <4>3, SecondsUntilNat
    <3>3. expiry_func_id' /\ due' = [sec |-> sec + SecondsUntil(h), frac |-> frac]
      BY <1>6, <2>3 DEF Arm, AddExpiryTimeout
    <3> HIDE DEF h
    <3>4. due'.sec = h
      BY <3>1, <3>2, <3>3
    <3>5. due'.sec <= Head(expiry_queue').expiry_s
      BY <2>1, <3>1, <3>4 DEF h
    <3>6. QED
      BY <2>1, <2>3, <3>5 DEF ReadRecently, HeadAhead, TimeoutIsForHead
  <2>4. QED
    BY <2>2, <2>3
<1>7. CASE UNCHANGED vars
  BY <1>0, <1>7 DEF vars, clockVars, leaseVars, ReadRecently, HeadAhead, TimeoutIsForHead
<1>8. QED
  BY <1>1, <1>2, <1>3, <1>4, <1>5, <1>6, <1>7 DEF LeaseNext

(* The scheduled timeout is never later than the end of the first lease to *)
(* end: the difference in add_expiry_timeout (accessible-leasing.c:161)    *)
(* does not go below zero if the clock is not set and a callback takes at  *)
(* most a second.                                                          *)
THEOREM LeaseTimeoutCoversHead ==
  ASSUME MaxStall <= TicksPerSecond
  PROVE  LeaseSpec => []TimeoutCoversHead
<1> DEFINE I == ReadRecently /\ HeadAhead /\ TimeoutIsForHead
           K == ClockNeverSet => I
           Q == ClockNeverSet => QueueAsTaken
<1>1. LeaseInit => K
  BY DEF LeaseInit, ReadRecently, HeadAhead, TimeoutIsForHead
<1>2. LeaseTypeOK /\ Q /\ TimeoutScheduled /\ K /\ LeaseTypeOK' /\ Q' /\ [LeaseNext]_vars
      => K'
  BY TimeoutStep, ClockNeverSetStep DEF TimeoutInv
<1>3. LeaseTypeOK /\ Q /\ TimeoutScheduled /\ K => TimeoutCoversHead
  <2> SUFFICES ASSUME LeaseTypeOK, QueueAsTaken, TimeoutScheduled, I,
                      pc = "main", expiry_queue # <<>>
               PROVE  expiry_func_id /\ due.sec + offset <= Head(expiry_queue).expiry_s
    BY DEF TimeoutCoversHead
  <2>1. due.sec \in Nat /\ offset = 0
    BY DEF LeaseTypeOK, Instant, QueueAsTaken
  <2>2. QED
    BY <2>1 DEF TimeoutScheduled, TimeoutIsForHead
<1>4. LeaseSpec => []Q
  BY LeaseQueueAsTaken
<1> HIDE DEF K, Q
<1>5. QED
  BY <1>1, <1>2, <1>3, <1>4, LeaseTypeCorrect, LeaseTimeoutScheduled, PTL DEF LeaseSpec
=============================================================================
