------------------------------- MODULE Leasing ------------------------------
(***************************************************************************)
(* atk-adaptor/accessible-leasing.c: an object the toolkit does not own is *)
(* kept alive for a while after a reference to it was sent to a client.    *)
(*                                                                         *)
(* Time is a second count and a fraction of 1/TicksPerSecond.  The code    *)
(* reads the wall clock (g_get_current_time), which an administrator or a  *)
(* time daemon may set: wall = sec + offset.  GLib's timeout sources run   *)
(* on a clock nobody sets, and g_timeout_add_seconds may fire EarlyTicks   *)
(* before the interval is over, because GLib batches such timeouts.        *)
(* next_expiry is a guint, and a seconds difference below zero wraps.      *)
(***************************************************************************)
EXTENDS Integers, Sequences

CONSTANTS
  Object,           \* the objects that can be leased
  LEASE_TIME_S,     \* 15 in the code
  TicksPerSecond,   \* resolution of the model's clock
  EarlyTicks,       \* how early a timeout may fire
  GuintModulus,     \* 2^32 in the code
  MaxLeases,        \* bound: leases taken
  MaxSeconds,       \* bound: the clock stops here
  MaxStall,         \* bound: ticks that may pass during one main loop callback
  MaxSteps,         \* bound: how often the wall clock is set
  StepSizes         \* the seconds by which the wall clock may be set

EXPIRY_TIME_S == LEASE_TIME_S + 1

ASSUME LeasingAssumption ==
  /\ LEASE_TIME_S \in Nat \ {0}
  /\ TicksPerSecond \in Nat \ {0}
  /\ EarlyTicks \in 0 .. (TicksPerSecond - 1)
  /\ GuintModulus \in Nat /\ GuintModulus > EXPIRY_TIME_S
  /\ MaxLeases \in Nat /\ MaxSeconds \in Nat
  /\ MaxStall \in Nat /\ MaxSteps \in Nat
  /\ StepSizes \in SUBSET Int

VARIABLES
  sec, frac,        \* the monotonic clock
  offset,           \* wall clock seconds = sec + offset
  steps,            \* how often the wall clock was set
  expiry_queue,     \* SpiLeasing.expiry_queue
  expiry_func_id,   \* SpiLeasing.expiry_func_id # 0
  due,              \* when the timeout source is due
  pc,               \* where the main thread is in the leasing code
  t,                \* the local t.tv_sec of expiry_func
  stall,            \* ticks since the callback began
  taken             \* history: leases taken so far

clockVars == <<sec, frac, offset, steps>>
leaseVars == <<expiry_queue, expiry_func_id, due, pc, t, taken>>
vars == <<clockVars, leaseVars, stall>>

Instant == [sec : Nat, frac : 0 .. (TicksPerSecond - 1)]
Now == [sec |-> sec, frac |-> frac]
tv_sec == sec + offset

(* An ExpiryElement; id and since are history: which lease this is and     *)
(* when it was taken.                                                      *)
Lease == [object : Object, expiry_s : Int, id : Nat, since : Instant]

LeaseTypeOK ==
  /\ sec \in Nat /\ frac \in 0 .. (TicksPerSecond - 1)
  /\ offset \in Int /\ steps \in 0 .. MaxSteps
  /\ expiry_queue \in Seq(Lease)
  /\ expiry_func_id \in BOOLEAN
  /\ due \in Instant
  /\ pc \in {"main", "expiring", "arming"}
  /\ t \in Int
  /\ stall \in 0 .. MaxStall
  /\ taken \in 0 .. MaxLeases

LeaseInit ==
  /\ sec = 0 /\ frac = 0 /\ offset = 0 /\ steps = 0
  /\ expiry_queue = <<>>
  /\ expiry_func_id = FALSE
  /\ due = [sec |-> 0, frac |-> 0]
  /\ pc = "main"
  /\ t = 0
  /\ stall = 0
  /\ taken = 0

-----------------------------------------------------------------------------
(* The clocks *)

Tick ==
  /\ sec < MaxSeconds
  /\ pc # "main" => stall < MaxStall
  /\ IF frac + 1 < TicksPerSecond
       THEN frac' = frac + 1 /\ sec' = sec
       ELSE frac' = 0 /\ sec' = sec + 1
  /\ stall' = IF pc = "main" THEN 0 ELSE stall + 1
  /\ UNCHANGED <<offset, steps, leaseVars>>

SetWallClock ==
  /\ steps < MaxSteps
  /\ \E d \in StepSizes : offset' = offset + d
  /\ steps' = steps + 1
  /\ UNCHANGED <<sec, frac, leaseVars, stall>>

\* at least d seconds lie between two instants
AtLeast(d, from, to) ==
  \/ to.sec - from.sec > d
  \/ to.sec - from.sec = d /\ to.frac >= from.frac

\* the timeout is due, or close enough for GLib to dispatch it
Dispatchable ==
  \/ sec > due.sec
  \/ sec = due.sec /\ frac + EarlyTicks >= due.frac
  \/ sec + 1 = due.sec /\ frac + EarlyTicks >= due.frac + TicksPerSecond

-----------------------------------------------------------------------------
(* Mutant: no round up, the lease is LEASE_TIME_S from the truncated time. *)
TakenNotRounded(o) ==
  /\ expiry_queue' = Append(expiry_queue,
       [object |-> o, expiry_s |-> tv_sec + LEASE_TIME_S,
        id |-> taken + 1, since |-> Now])
  /\ taken' = taken + 1

\* Mutant: the newest lease goes to the head of the queue.
TakenAtHead(o) ==
  /\ expiry_queue' = <<[object |-> o, expiry_s |-> tv_sec + EXPIRY_TIME_S,
                        id |-> taken + 1, since |-> Now]>> \o expiry_queue
  /\ taken' = taken + 1

\* the new lease at the tail of the queue
Taken(o) ==
  /\ expiry_queue' = Append(expiry_queue,
       [object |-> o, expiry_s |-> tv_sec + EXPIRY_TIME_S,
        id |-> taken + 1, since |-> Now])
  /\ taken' = taken + 1

(* spi_leasing_take, up to its call of add_expiry_timeout.  The finalizer  *)
(* of an object whose lease ends may lead here too; then the timeout is    *)
(* still on record and add_expiry_timeout returns at once.                 *)
Take(o) ==
  /\ taken < MaxLeases
  /\ Taken(o)
  /\ \/ pc = "main" /\ pc' = "arming" /\ stall' = 0
     \/ pc = "expiring" /\ UNCHANGED <<pc, stall>>
  /\ UNCHANGED <<clockVars, expiry_func_id, due, t>>

\* The timeout fires: expiry_func reads the clock, once.
Fire ==
  /\ pc = "main"
  /\ expiry_func_id
  /\ Dispatchable
  /\ pc' = "expiring"
  /\ t' = tv_sec
  /\ stall' = 0
  /\ UNCHANGED <<clockVars, expiry_queue, expiry_func_id, due, taken>>

HeadExpired == expiry_queue # <<>> /\ Head(expiry_queue).expiry_s <= t

\* one round of expiry_func's loop: g_object_unref may take its time
Expire ==
  /\ pc = "expiring"
  /\ HeadExpired
  /\ expiry_queue' = Tail(expiry_queue)
  /\ UNCHANGED <<clockVars, expiry_func_id, due, pc, t, stall, taken>>

(* The loop is over: expiry_func forgets its own source.  t goes out of    *)
(* scope and due means nothing without a source.                           *)
ExpireDone ==
  /\ pc = "expiring"
  /\ ~HeadExpired
  /\ expiry_func_id' = FALSE
  /\ pc' = "arming"
  /\ t' = 0 /\ due' = [sec |-> 0, frac |-> 0]
  /\ UNCHANGED <<clockVars, expiry_queue, stall, taken>>

\* next_expiry: a guint
SecondsUntil(expiry_s) == (expiry_s - tv_sec) % GuintModulus

\* Mutant: only spi_leasing_take starts the timeout.
AddExpiryTimeoutOnlyFirst ==
  IF expiry_func_id \/ Len(expiry_queue) # 1
    THEN UNCHANGED <<expiry_func_id, due>>
    ELSE /\ expiry_func_id' = TRUE
         /\ due' = [sec  |-> sec + SecondsUntil(Head(expiry_queue).expiry_s),
                    frac |-> frac]

\* Mutant: always a whole lease time from now.
AddExpiryTimeoutWholeLease ==
  IF expiry_func_id \/ expiry_queue = <<>>
    THEN UNCHANGED <<expiry_func_id, due>>
    ELSE /\ expiry_func_id' = TRUE
         /\ due' = [sec |-> sec + EXPIRY_TIME_S, frac |-> frac]

\* add_expiry_timeout
AddExpiryTimeout ==
  IF expiry_func_id \/ expiry_queue = <<>>
    THEN UNCHANGED <<expiry_func_id, due>>
    ELSE /\ expiry_func_id' = TRUE
         /\ due' = [sec  |-> sec + SecondsUntil(Head(expiry_queue).expiry_s),
                    frac |-> frac]

\* the call of add_expiry_timeout, and back to the main loop
Arm ==
  /\ pc = "arming"
  /\ AddExpiryTimeout
  /\ pc' = "main"
  /\ stall' = 0
  /\ UNCHANGED <<clockVars, expiry_queue, t, taken>>

LeaseNext ==
  \/ Tick
  \/ SetWallClock
  \/ \E o \in Object : Take(o)
  \/ Fire
  \/ Expire
  \/ ExpireDone
  \/ Arm

LeaseSpec == LeaseInit /\ [][LeaseNext]_vars

(* The main loop dispatches a source that is ready, and the callback runs  *)
(* to its end.                                                             *)
LeaseFairness ==
  /\ WF_vars(Tick)
  /\ WF_vars(Fire)
  /\ WF_vars(Expire)
  /\ WF_vars(ExpireDone)
  /\ WF_vars(Arm)

FairLeaseSpec == LeaseSpec /\ LeaseFairness

-----------------------------------------------------------------------------
ClockNeverSet == steps = 0

(* A lease is held for at least LEASE_TIME_S seconds of real time, however *)
(* the two roundings and the early timeout fall: "the lease time should be *)
(* considered a MINIMUM" (accessible-leasing.c:172).  The end of a lease   *)
(* is a wall clock time, so the clock must not have been set.              *)
LeaseIsMinimum ==
  [][ClockNeverSet' /\ Len(expiry_queue') < Len(expiry_queue) =>
       AtLeast(LEASE_TIME_S, Head(expiry_queue).since, Now)]_vars

(* Leases end in the order they began, which is what lets expiry_func stop *)
(* at the first one that is not over (accessible-leasing.c:135).           *)
QueueInExpiryOrder ==
  ClockNeverSet =>
    \A i, j \in DOMAIN expiry_queue :
      i < j => expiry_queue[i].expiry_s <= expiry_queue[j].expiry_s

(* Whenever the main loop runs and a lease is outstanding, a timeout is    *)
(* scheduled: the chain of timeouts is never lost, whatever the clock does *)
(* and however long a callback takes (accessible-leasing.c:128).           *)
TimeoutScheduled == pc = "main" /\ expiry_queue # <<>> => expiry_func_id

(* And it is due no later than the end of the first lease to end: "using   *)
(* the top of the queue" (accessible-leasing.c:139).                       *)
TimeoutCoversHead ==
  ClockNeverSet /\ pc = "main" /\ expiry_queue # <<>> =>
    /\ expiry_func_id
    /\ due.sec + offset <= Head(expiry_queue).expiry_s

Outstanding(n) == \E i \in DOMAIN expiry_queue : expiry_queue[i].id = n
Overdue(n) ==
  \E i \in DOMAIN expiry_queue :
    expiry_queue[i].id = n /\ expiry_queue[i].expiry_s < tv_sec

\* A lease whose time is over does end, if the clock is not set.
LeasesEnd ==
  \A n \in 1 .. MaxLeases : Overdue(n) ~> (~Outstanding(n) \/ ~ClockNeverSet)
=============================================================================
