---------------------------- MODULE ClientProofs -----------------------------
(***************************************************************************)
(* Proofs about the client library: what its wrappers report of failures,  *)
(* for any wrappers and any nesting of calls; its listeners, for any       *)
(* number of them and any events, callbacks and dispatches inside          *)
(* dispatches; and its Accessibles, for any number of them, anything an    *)
(* application announces of them and whatever a client does with them.     *)
(***************************************************************************)
EXTENDS ClientCalls, ClientObjects, ClientEvents, TLAPS

-----------------------------------------------------------------------------
(* Lists without doublets *)

Single(s) == \A i, j \in DOMAIN s : s[i] = s[j] => i = j

\* what is in a list from an index on
Rest(s, i) == {s[j] : j \in i .. Len(s)}

\* x is in the list, and rest is x with what comes after it
Continues(s, x, rest) == \E i \in DOMAIN s : s[i] = x /\ rest = Rest(s, i)

\* A place is where the element is.
LEMMA PlaceIs ==
  ASSUME NEW S, NEW s \in Seq(S), Single(s), NEW i \in DOMAIN s
  PROVE  Place(s[i], s) = i
BY DEF Place, Single

LEMMA PlaceFound ==
  ASSUME NEW S, NEW s \in Seq(S), NEW x \in ToSet(s)
  PROVE  Place(x, s) \in DOMAIN s /\ s[Place(x, s)] = x
BY DEF Place, ToSet

LEMMA PrependIndexes ==
  ASSUME NEW S, NEW s \in Seq(S), NEW x \in S
  PROVE  /\ <<x>> \o s \in Seq(S)
         /\ Len(<<x>> \o s) = Len(s) + 1
         /\ (<<x>> \o s)[1] = x
         /\ \A i \in 1 .. Len(s) : (<<x>> \o s)[i + 1] = s[i]
OBVIOUS

\* A walk is not disturbed by what is put at the head of its list.
LEMMA PrependContinues ==
  ASSUME NEW S, NEW s \in Seq(S), Single(s), NEW x \in S, x \notin ToSet(s)
  PROVE  /\ <<x>> \o s \in Seq(S) /\ Single(<<x>> \o s)
         /\ \A y, rest : Continues(s, y, rest) => Continues(<<x>> \o s, y, rest)
<1>1. PICK t : t = <<x>> \o s
  OBVIOUS
<1>2. /\ t \in Seq(S) /\ Len(t) = Len(s) + 1 /\ t[1] = x
      /\ \A i \in 1 .. Len(s) : t[i + 1] = s[i]
  BY <1>1, PrependIndexes
<1>3. Len(s) \in Nat /\ DOMAIN s = 1 .. Len(s) /\ DOMAIN t = 1 .. (Len(s) + 1)
  BY <1>2
<1>4. \A i \in DOMAIN t : i = 1 \/ (i - 1 \in DOMAIN s /\ t[i] = s[i - 1])
  <2> SUFFICES ASSUME NEW i \in DOMAIN t, i # 1
               PROVE  i - 1 \in DOMAIN s /\ t[i] = s[i - 1]
    OBVIOUS
  <2>1. i - 1 \in 1 .. Len(s) /\ (i - 1) + 1 = i
    BY <1>3
  <2>2. QED
    BY <1>2, <1>3, <2>1
<1>5. Single(t)
  <2> SUFFICES ASSUME NEW i \in DOMAIN t, NEW j \in DOMAIN t, t[i] = t[j]
               PROVE  i = j
    BY DEF Single
  <2>1. \A k \in DOMAIN s : s[k] # x
    BY DEF ToSet
  <2>2. CASE i = 1 \/ j = 1
    BY <1>2, <1>4, <2>1, <2>2
  <2>3. CASE i # 1 /\ j # 1
    <3>1. /\ i - 1 \in DOMAIN s /\ j - 1 \in DOMAIN s
          /\ s[i - 1] = s[j - 1]
      BY <1>4, <2>3
    <3>2. i - 1 = j - 1
      BY <3>1 DEF Single
    <3>3. QED
      BY <1>3, <3>2
  <2>4. QED
    BY <2>2, <2>3
<1>6. ASSUME NEW y, NEW rest, Continues(s, y, rest)
      PROVE  Continues(t, y, rest)
  <2>1. PICK i \in DOMAIN s : s[i] = y /\ rest = Rest(s, i)
    BY <1>6 DEF Continues
  <2>2. i + 1 \in DOMAIN t /\ t[i + 1] = y
    BY <1>2, <1>3, <2>1
  <2>3. Rest(t, i + 1) \subseteq Rest(s, i)
    <3> SUFFICES ASSUME NEW j \in (i + 1) .. Len(t) PROVE t[j] \in Rest(s, i)
      BY DEF Rest
    <3>1. j - 1 \in i .. Len(s) /\ t[j] = s[j - 1]
      BY <1>2, <1>3, <1>4
    <3>2. QED
      BY <3>1 DEF Rest
  <2>4. Rest(s, i) \subseteq Rest(t, i + 1)
    <3> SUFFICES ASSUME NEW j \in i .. Len(s) PROVE s[j] \in Rest(t, i + 1)
      BY DEF Rest
    <3>1. j + 1 \in (i + 1) .. Len(t) /\ t[j + 1] = s[j]
      BY <1>2, <1>3
    <3>2. QED
      BY <3>1 DEF Rest
  <2>5. rest = Rest(t, i + 1)
    BY <2>1, <2>3, <2>4
  <2>6. QED
    BY <2>2, <2>5 DEF Continues
<1>7. QED
  BY <1>1, <1>2, <1>5, <1>6

\* what RemoveAt leaves is what was there, in the same order
LEMMA RemoveAtIndexes ==
  ASSUME NEW S, NEW s \in Seq(S), NEW i \in DOMAIN s
  PROVE  /\ RemoveAt(s, i) \in Seq(S)
         /\ DOMAIN RemoveAt(s, i) = 1 .. (Len(s) - 1)
         /\ \A j \in 1 .. (Len(s) - 1) :
              RemoveAt(s, i)[j] = IF j < i THEN s[j] ELSE s[j + 1]
<1> DEFINE front == SubSeq(s, 1, i - 1)
           back  == SubSeq(s, i + 1, Len(s))
<1>1. /\ front \in Seq(S) /\ Len(front) = i - 1
      /\ \A j \in 1 .. (i - 1) : front[j] = s[j]
  OBVIOUS
<1>2. /\ back \in Seq(S) /\ Len(back) = Len(s) - i
      /\ \A j \in 1 .. (Len(s) - i) : back[j] = s[i + j]
  OBVIOUS
<1>3. PICK f \in Seq(S) : f = front /\ Len(f) = i - 1
                          /\ \A j \in 1 .. (i - 1) : f[j] = s[j]
  BY <1>1
<1>4. PICK b \in Seq(S) : b = back /\ Len(b) = Len(s) - i
                          /\ \A j \in 1 .. (Len(s) - i) : b[j] = s[i + j]
  BY <1>2
<1>5. /\ DOMAIN (f \o b) = 1 .. (Len(f) + Len(b))
      /\ \A j \in 1 .. Len(f) : (f \o b)[j] = f[j]
      /\ \A j \in 1 .. Len(b) : (f \o b)[Len(f) + j] = b[j]
      /\ f \o b \in Seq(S)
  OBVIOUS
<1>6. PICK w : w = f \o b
  OBVIOUS
<1>7. RemoveAt(s, i) = w
  BY <1>3, <1>4, <1>6 DEF RemoveAt
<1> HIDE DEF front, back
<1>8. Len(s) \in Nat /\ i \in 1 .. Len(s)
  OBVIOUS
<1>9. /\ w \in Seq(S) /\ DOMAIN w = 1 .. (Len(s) - 1)
      /\ \A j \in 1 .. (i - 1) : w[j] = s[j]
      /\ \A j \in 1 .. (Len(s) - i) : w[(i - 1) + j] = s[i + j]
  <2>1. w \in Seq(S) /\ DOMAIN w = 1 .. (Len(f) + Len(b))
    BY <1>5, <1>6
  <2>2. (i - 1) + (Len(s) - i) = Len(s) - 1
    BY <1>8
  <2>3. ASSUME NEW j \in 1 .. (i - 1)
        PROVE  w[j] = s[j]
    BY <1>3, <1>5, <1>6
  <2>4. ASSUME NEW j \in 1 .. (Len(s) - i)
        PROVE  w[(i - 1) + j] = s[i + j]
    BY <1>3, <1>4, <1>5, <1>6, ZenonT(40)
  <2>5. QED
    BY <1>3, <1>4, <2>1, <2>2, <2>3, <2>4
<1>10. ASSUME NEW j \in 1 .. (Len(s) - 1)
       PROVE  w[j] = IF j < i THEN s[j] ELSE s[j + 1]
  <2>1. CASE j < i
    BY <1>8, <1>9, <2>1
  <2>2. CASE ~(j < i)
    <3>1. PICK k \in 1 .. (Len(s) - i) : (i - 1) + k = j /\ i + k = j + 1
      <4>1. j - (i - 1) \in 1 .. (Len(s) - i)
        BY <1>8, <2>2
      <4>2. (i - 1) + (j - (i - 1)) = j /\ i + (j - (i - 1)) = j + 1
        BY <1>8
      <4>3. QED
        BY <4>1, <4>2
    <3>2. w[(i - 1) + k] = s[i + k]
      BY <1>9
    <3>3. QED
      BY <2>2, <3>1, <3>2
  <2>3. QED
    BY <2>1, <2>2
<1>11. QED
  BY <1>7, <1>9, <1>10

\* k was the index of what is at j now that p was removed
Shifted(k, j, p) == (k = j /\ j < p) \/ (k = j + 1 /\ j >= p)

\* Nor by what is taken out of it, unless it is where the walk is.
LEMMA RemoveContinues ==
  ASSUME NEW S, NEW s \in Seq(S), Single(s), NEW p \in DOMAIN s
  PROVE  /\ RemoveAt(s, p) \in Seq(S) /\ Single(RemoveAt(s, p))
         /\ \A y, rest : Continues(s, y, rest) /\ y # s[p]
                          => Continues(RemoveAt(s, p), y, rest \ {s[p]})
<1>1. PICK t : t = RemoveAt(s, p)
  OBVIOUS
<1>2. /\ t \in Seq(S) /\ DOMAIN t = 1 .. (Len(s) - 1)
      /\ \A j \in 1 .. (Len(s) - 1) : t[j] = IF j < p THEN s[j] ELSE s[j + 1]
  BY <1>1, RemoveAtIndexes
<1>3. /\ Len(s) \in Nat /\ DOMAIN s = 1 .. Len(s) /\ p \in 1 .. Len(s)
      /\ Len(t) = Len(s) - 1
  BY <1>2
\* where the element at j was before
<1>4. ASSUME NEW j \in DOMAIN t
      PROVE  \E k \in DOMAIN s : /\ k # p /\ t[j] = s[k]
                                 /\ Shifted(k, j, p)
  <2>1. CASE j < p
    BY <1>2, <1>3, <2>1 DEF Shifted
  <2>2. CASE ~(j < p)
    <3>1. j + 1 \in DOMAIN s /\ j + 1 # p /\ t[j] = s[j + 1] /\ j >= p
      BY <1>2, <1>3, <2>2
    <3>2. QED
      BY <3>1 DEF Shifted
  <2>3. QED
    BY <2>1, <2>2
\* and where one that was at k is now
<1>5. ASSUME NEW k \in DOMAIN s, k # p
      PROVE  \E j \in DOMAIN t : /\ t[j] = s[k]
                                 /\ Shifted(k, j, p)
  <2>1. CASE k < p
    BY <1>2, <1>3, <2>1 DEF Shifted
  <2>2. CASE ~(k < p)
    <3>1. k - 1 \in DOMAIN t /\ t[k - 1] = s[(k - 1) + 1] /\ k - 1 >= p
      BY <1>2, <1>3, <1>5, <2>2
    <3>2. (k - 1) + 1 = k
      BY <1>3
    <3>3. QED
      BY <3>1, <3>2 DEF Shifted
  <2>3. QED
    BY <2>1, <2>2
<1>6. Single(t)
  <2> SUFFICES ASSUME NEW i \in DOMAIN t, NEW j \in DOMAIN t, t[i] = t[j]
               PROVE  i = j
    BY DEF Single
  <2>1. PICK k \in DOMAIN s : t[i] = s[k]
                             /\ Shifted(k, i, p)
    BY <1>4
  <2>2. PICK m \in DOMAIN s : t[j] = s[m]
                             /\ Shifted(m, j, p)
    BY <1>4
  <2>3. k = m
    BY <2>1, <2>2 DEF Single
  <2>4. i \in Nat /\ j \in Nat /\ p \in Nat
    BY <1>2, <1>3
  <2>5. QED
    BY <2>1, <2>2, <2>3, <2>4 DEF Shifted
<1>7. ASSUME NEW y, NEW rest, Continues(s, y, rest), y # s[p]
      PROVE  Continues(t, y, rest \ {s[p]})
  <2>1. PICK k \in DOMAIN s : s[k] = y /\ rest = Rest(s, k)
    BY <1>7 DEF Continues
  <2>2. PICK j \in DOMAIN t : /\ t[j] = s[k]
                             /\ Shifted(k, j, p)
    BY <1>5, <1>7, <2>1
  <2>3. Rest(t, j) \subseteq Rest(s, k) \ {s[p]}
    <3> SUFFICES ASSUME NEW n \in j .. Len(t)
                 PROVE  t[n] \in Rest(s, k) /\ t[n] # s[p]
      BY DEF Rest
    <3>1. n \in DOMAIN t /\ j \in Nat /\ n \in Nat /\ k \in Nat
      BY <1>2, <1>3
    <3>2. PICK m \in DOMAIN s : /\ m # p /\ t[n] = s[m]
                               /\ Shifted(m, n, p)
      BY <1>4, <3>1
    <3>3. m \in k .. Len(s)
      BY <1>3, <2>2, <3>1, <3>2 DEF Shifted
    <3>4. s[m] # s[p]
      BY <3>2 DEF Single
    <3>5. QED
      BY <3>2, <3>3, <3>4 DEF Rest
  <2>4. Rest(s, k) \ {s[p]} \subseteq Rest(t, j)
    <3> SUFFICES ASSUME NEW m \in k .. Len(s), s[m] # s[p]
                 PROVE  s[m] \in Rest(t, j)
      BY DEF Rest
    <3>1. m \in DOMAIN s /\ m # p /\ j \in Nat /\ k \in Nat /\ m \in Nat
      BY <1>2, <1>3
    <3>2. PICK n \in DOMAIN t : /\ t[n] = s[m]
                               /\ Shifted(m, n, p)
      BY <1>5, <3>1
    <3>3. n \in j .. Len(t)
      BY <1>2, <1>3, <2>2, <3>1, <3>2 DEF Shifted
    <3>4. QED
      BY <3>2, <3>3 DEF Rest
  <2>5. rest \ {s[p]} = Rest(t, j)
    BY <2>1, <2>3, <2>4
  <2>6. QED
    BY <2>1, <2>2, <2>5 DEF Continues
<1>8. QED
  BY <1>1, <1>2, <1>6, <1>7

-----------------------------------------------------------------------------
(* The invariant of the listeners *)

WalkRecord ==
  [topic : Topic, at : Entry \cup {None}, atFreed : BOOLEAN,
   cb : Callback \cup {Absent}, cbFreed : BOOLEAN,
   due : SUBSET Callback, stranger : BOOLEAN]

(* A walk that is at a callback has still to run that one and what comes   *)
(* after it in the list as it is now, unless the callback was taken out of *)
(* the list under it.                                                      *)
KeepsPace(f, lists) ==
  /\ ~f.stranger
  /\ f.cb = Absent => f.due = {}
  /\ f.cb # Absent =>
       /\ f.at \in Entry
       /\ f.cbFreed \/ Continues(lists[f.at[1]], f.cb, f.due)

\* the walks that may be under way: one is on a freed link after a slip only
Sound(lists, slipped) ==
  {f \in WalkRecord : /\ KeepsPace(f, lists)
                      /\ f.atFreed \/ f.cbFreed => slipped}

EventsInv ==
  /\ callbacks \in [Listener -> Seq(Callback)]
  /\ \A l \in Listener : Single(callbacks[l])
  /\ slip \in BOOLEAN
  /\ frames \in Seq(Sound(callbacks, slip))
  /\ lost => slip
  /\ stale # {} => slip
  /\ released # {} => slip
  /\ ListsSurvive

LEMMA EventsInitially == EventsInit => EventsInv
<1> SUFFICES ASSUME EventsInit PROVE EventsInv
  OBVIOUS
<1>1. callbacks \in [Listener -> Seq(Callback)] /\ \A l \in Listener : callbacks[l] = <<>>
  BY DEF EventsInit
<1>2. \A l \in Listener : Single(callbacks[l])
  BY <1>1 DEF Single
<1>3. /\ frames \in Seq(Sound(callbacks, slip)) /\ slip = FALSE
      /\ lost = FALSE /\ stale = {} /\ released = {}
  BY DEF EventsInit
<1>4. ListsSurvive
  BY DEF EventsInit, ListsSurvive, FreedOnlyAfterSlip, NullOnlyOfDetails
<1>5. QED
  BY <1>1, <1>2, <1>3, <1>4 DEF EventsInv

-----------------------------------------------------------------------------
(* Each step keeps it *)

LEMMA TopIsSound ==
  ASSUME EventsInv, frames # <<>>
  PROVE  Frame \in Sound(callbacks, slip) /\ Len(frames) \in DOMAIN frames
<1>1. frames \in Seq(Sound(callbacks, slip))
  BY DEF EventsInv
<1>2. PICK S : S = Sound(callbacks, slip)
  OBVIOUS
<1>3. frames \in Seq(S)
  BY <1>1, <1>2
<1>4. Len(frames) \in DOMAIN frames /\ frames[Len(frames)] \in S
  BY <1>3
<1>5. QED
  BY <1>2, <1>4 DEF Frame

LEMMA TopReplaced ==
  ASSUME NEW S, NEW s \in Seq(S), s # <<>>, NEW e \in S
  PROVE  [s EXCEPT ![Len(s)] = e] \in Seq(S)
OBVIOUS

LEMMA FrontOf ==
  ASSUME NEW S, NEW s \in Seq(S), s # <<>>
  PROVE  Front(s) \in Seq(S)
BY DEF Front

LEMMA EachReplaced ==
  ASSUME NEW S, NEW s \in Seq(S), NEW T, NEW r,
         r = [i \in DOMAIN s |-> r[i]], \A i \in DOMAIN s : r[i] \in T
  PROVE  r \in Seq(T)
<1>1. DOMAIN s = 1 .. Len(s) /\ Len(s) \in Nat
  OBVIOUS
<1>2. r = [i \in 1 .. Len(s) |-> r[i]]
  BY <1>1
<1>3. QED
  BY <1>1, <1>2

\* Reading freed memory or an absent detail is the end.
LEMMA FailsKeeps ==
  ASSUME EventsInv, NEW how, Fails(how),
         how = "freed" => slip,
         how = "null" =>
           \E e \in ToSet(entries) :
             /\ e[3] # Absent
             /\ \E i \in DOMAIN frames : frames[i].topic = <<e[2], Absent>>
  PROVE  EventsInv'
<1>1. /\ UNCHANGED <<entries, lost, stale, callbacks, frames, released, slip, asked>>
      /\ fate' = how
  BY DEF Fails, entryVars, deviceVars
<1>2. ListsSurvive'
  BY <1>1, Zenon DEF ListsSurvive, FreedOnlyAfterSlip, NullOnlyOfDetails
<1>3. QED
  BY <1>1, <1>2 DEF EventsInv

\* While the program runs there is nothing to be said of how it ended.
LEMMA RunsOn ==
  ASSUME fate = "running", fate' = fate
  PROVE  ListsSurvive'
BY DEF ListsSurvive, FreedOnlyAfterSlip, NullOnlyOfDetails

LEMMA DispatchKeeps ==
  ASSUME EventsInv, NEW t \in Topic, Dispatch(t)
  PROVE  EventsInv'
<1>1. CASE lost
  BY <1>1, FailsKeeps DEF Dispatch, EventsInv
<1>2. CASE ~lost
  <2>1. PICK f : f = [topic |-> t, at |-> None, atFreed |-> FALSE, cb |-> Absent,
                      cbFreed |-> FALSE, due |-> {}, stranger |-> FALSE]
    OBVIOUS
  <2>2. f \in Sound(callbacks, slip)
    BY <2>1 DEF Sound, WalkRecord, KeepsPace
  <2>3. /\ frames' = Append(frames, f)
        /\ UNCHANGED <<entries, lost, stale, callbacks, released, slip, fate>>
        /\ fate = "running"
    BY <1>2, <2>1 DEF Dispatch, ClientRuns, deviceVars, entryVars
  <2>4. PICK S : S = Sound(callbacks, slip)
    OBVIOUS
  <2>5. Append(frames, f) \in Seq(S)
    <3>1. frames \in Seq(S) /\ f \in S
      BY <2>2, <2>4 DEF EventsInv
    <3>2. QED
      BY <3>1
  <2>6. QED
    BY <2>3, <2>4, <2>5, RunsOn DEF EventsInv
<1>3. QED
  BY <1>1, <1>2

LEMMA RestFromNext ==
  ASSUME NEW S, NEW s \in Seq(S), Single(s), NEW i \in DOMAIN s
  PROVE  /\ i = Len(s) => Rest(s, i) \ {s[i]} = {}
         /\ i # Len(s) => /\ i + 1 \in DOMAIN s
                          /\ s[i + 1] \in Rest(s, i)
                          /\ Rest(s, i) \ {s[i]} = Rest(s, i + 1)
<1>1. DOMAIN s = 1 .. Len(s) /\ Len(s) \in Nat /\ i \in 1 .. Len(s)
  OBVIOUS
<1>2. CASE i = Len(s)
  BY <1>1, <1>2 DEF Rest
<1>3. CASE i # Len(s)
  <2>1. i + 1 \in DOMAIN s /\ i + 1 \in i .. Len(s)
    BY <1>1, <1>3
  <2>2. s[i + 1] \in Rest(s, i)
    BY <2>1 DEF Rest
  <2>3. Rest(s, i) \ {s[i]} \subseteq Rest(s, i + 1)
    <3> SUFFICES ASSUME NEW j \in i .. Len(s), s[j] # s[i]
                 PROVE  s[j] \in Rest(s, i + 1)
      BY DEF Rest
    <3>1. j \in (i + 1) .. Len(s)
      BY <1>1
    <3>2. QED
      BY <3>1 DEF Rest
  <2>4. Rest(s, i + 1) \subseteq Rest(s, i) \ {s[i]}
    <3> SUFFICES ASSUME NEW j \in (i + 1) .. Len(s)
                 PROVE  s[j] \in Rest(s, i) /\ s[j] # s[i]
      BY DEF Rest
    <3>1. j \in i .. Len(s) /\ j \in DOMAIN s /\ j # i
      BY <1>1
    <3>2. s[j] # s[i]
      BY <3>1 DEF Single
    <3>3. QED
      BY <3>1, <3>2 DEF Rest
  <2>5. QED
    BY <1>3, <2>1, <2>2, <2>3, <2>4
<1>4. QED
  BY <1>2, <1>3

LEMMA ComesToKeeps ==
  ASSUME EventsInv, fate = "running", frames # <<>>, ~Frame.atFreed,
         NEW e \in Entry, ComesTo(e)
  PROVE  EventsInv'
<1>1. /\ Frame \in WalkRecord /\ ~Frame.stranger
      /\ Len(frames) \in DOMAIN frames /\ frames[Len(frames)] = Frame
  BY TopIsSound DEF Sound, KeepsPace, Frame
<1>2. e \in ToSet(entries) /\ e[2] = Frame.topic[1]
  BY DEF ComesTo, Stops
<1>3. CASE e[3] # Absent /\ Frame.topic[2] = Absent
  <2>1. Frame.topic = <<e[2], Absent>>
    BY <1>1, <1>2, <1>3, EventsAssumption DEF WalkRecord
  <2>2. Fails("null")
    BY <1>3 DEF ComesTo
  <2>3. \E i \in DOMAIN frames : frames[i].topic = <<e[2], Absent>>
    BY <1>1, <2>1
  <2>4. QED
    BY <1>2, <1>3, <2>2, <2>3, FailsKeeps
<1>4. CASE ~(e[3] # Absent /\ Frame.topic[2] = Absent) /\ e \in stale
  BY <1>4, FailsKeeps DEF ComesTo, EventsInv
<1>5. CASE ~(e[3] # Absent /\ Frame.topic[2] = Absent) /\ e \notin stale
  <2> DEFINE heard == callbacks[e[1]]
             next == IF heard = <<>> THEN Absent ELSE Head(heard)
             f == [Frame EXCEPT !.at = e, !.cbFreed = FALSE,
                                !.cb = next, !.due = ToSet(heard)]
  <2>1. /\ frames' = Top(f)
        /\ UNCHANGED <<entries, lost, stale, callbacks, released, slip, fate>>
    BY <1>5, Zenon DEF ComesTo, deviceVars, entryVars
  <2>2. e[1] \in Listener /\ heard \in Seq(Callback)
    BY DEF Listener, EventsInv
  <2>3. PICK list \in Seq(Callback) : list = heard
    BY <2>2
  <2>4. ToSet(list) \subseteq Callback
    BY DEF ToSet
  <2>5. PICK n : n = next
    OBVIOUS
  <2>6. /\ n \in Callback \cup {Absent}
        /\ n = Absent => ToSet(list) = {}
        /\ n # Absent => Continues(list, n, ToSet(list))
    <3>1. CASE list = <<>>
      <4>1. ToSet(list) = {} /\ n = Absent
        BY <2>3, <2>5, <3>1 DEF ToSet
      <4>2. QED
        BY <4>1
    <3>2. CASE list # <<>>
      <4>1. n = list[1] /\ 1 \in DOMAIN list /\ n \in Callback
        BY <2>3, <2>5, <3>2
      <4>2. ToSet(list) = Rest(list, 1)
        BY DEF ToSet, Rest
      <4>3. n # Absent
        BY <4>1, EventsAssumption
      <4>4. QED
        BY <4>1, <4>2, <4>3 DEF Continues
    <3>3. QED
      BY <3>1, <3>2
  <2>7. PICK g : g = f
    OBVIOUS
  <2>8. g = [Frame EXCEPT !.at = e, !.cbFreed = FALSE, !.cb = n, !.due = ToSet(list)]
    BY <2>3, <2>5, <2>7
  <2>9. /\ g \in WalkRecord /\ g.at = e /\ g.cb = n /\ g.due = ToSet(list)
        /\ ~g.stranger /\ ~g.atFreed /\ ~g.cbFreed
    BY <1>1, <2>4, <2>6, <2>8 DEF WalkRecord
  <2>10. g \in Sound(callbacks, slip)
    BY <2>3, <2>6, <2>9 DEF Sound, KeepsPace
  <2>11. PICK S : S = Sound(callbacks, slip)
    OBVIOUS
  <2>12. frames' \in Seq(S)
    <3>1. frames' = [frames EXCEPT ![Len(frames)] = g]
      BY <2>1, <2>7 DEF Top
    <3>2. frames \in Seq(S) /\ g \in S
      BY <2>10, <2>11 DEF EventsInv
    <3>3. QED
      BY <3>1, <3>2, TopReplaced
  <2>13. QED
    BY <2>1, <2>11, <2>12, RunsOn DEF EventsInv
<1>6. QED
  BY <1>3, <1>4, <1>5

LEMMA WalkKeeps ==
  ASSUME EventsInv, Walk
  PROVE  EventsInv'
<1>1. frames # <<>> /\ fate = "running"
  BY DEF Walk
<1>2. CASE Frame.atFreed
  <2>1. slip
    BY <1>1, <1>2, TopIsSound DEF Sound
  <2>2. QED
    BY <1>2, <2>1, FailsKeeps DEF Walk
<1>3. CASE ~Frame.atFreed /\ Stops(Frame) = {}
  <2>1. /\ frames' = Front(frames)
        /\ UNCHANGED <<entries, lost, stale, callbacks, released, slip, fate>>
    BY <1>3 DEF Walk, deviceVars, entryVars
  <2>2. PICK S : S = Sound(callbacks, slip)
    OBVIOUS
  <2>3. frames \in Seq(S)
    BY <2>2 DEF EventsInv
  <2>4. frames' \in Seq(S)
    BY <1>1, <2>1, <2>3, FrontOf
  <2>5. QED
    BY <1>1, <2>1, <2>2, <2>4, RunsOn DEF EventsInv
<1>4. CASE ~Frame.atFreed /\ Stops(Frame) # {}
  <2>1. PICK e \in Entry : ComesTo(e)
    BY <1>4 DEF Walk
  <2>2. QED
    BY <1>1, <1>4, <2>1, ComesToKeeps
<1>5. QED
  BY <1>2, <1>3, <1>4

LEMMA ReturnKeeps ==
  ASSUME EventsInv, Return
  PROVE  EventsInv'
<1>1. frames # <<>> /\ fate = "running" /\ Frame.cb # Absent
  BY DEF Return
<1>2. Frame \in Sound(callbacks, slip)
  BY <1>1, TopIsSound
<1>3. CASE Frame.cbFreed
  <2>1. slip
    BY <1>2, <1>3 DEF Sound
  <2>2. QED
    BY <1>3, <2>1, FailsKeeps DEF Return
<1>4. CASE ~Frame.cbFreed
  <2> DEFINE list == callbacks[Frame.at[1]]
             i == Place(Frame.cb, list)
             next == IF i = Len(list) THEN Absent ELSE list[i + 1]
             f == [Frame EXCEPT !.cb = next, !.due = @ \ {Frame.cb},
                                !.stranger = @ \/ next \notin Frame.due \cup {Absent}]
  <2>1. /\ frames' = Top(f)
        /\ UNCHANGED <<entries, lost, stale, callbacks, released, slip, fate>>
    BY <1>4, Zenon DEF Return, deviceVars, entryVars
  <2>2. /\ Frame \in WalkRecord /\ ~Frame.stranger /\ Frame.at \in Entry
        /\ Continues(list, Frame.cb, Frame.due)
        /\ Frame.atFreed => slip
    BY <1>1, <1>2, <1>4 DEF Sound, KeepsPace
  <2>3. Frame.at[1] \in Listener
    BY <2>2 DEF Listener
  <2>4. list \in Seq(Callback) /\ Single(list)
    BY <2>3 DEF EventsInv
  <2>5. PICK s \in Seq(Callback) : s = list
    BY <2>4
  <2>6. PICK k \in DOMAIN s : s[k] = Frame.cb /\ Frame.due = Rest(s, k)
    BY <2>2, <2>5 DEF Continues
  <2>7. Single(s) /\ i = k
    BY <2>4, <2>5, <2>6, PlaceIs
  <2>8. PICK n : n = next
    OBVIOUS
  <2>9. n = IF k = Len(s) THEN Absent ELSE s[k + 1]
    BY <2>5, <2>7, <2>8
  <2>10. PICK rest : rest = Frame.due \ {Frame.cb}
    OBVIOUS
  <2>11. /\ n \in Callback \cup {Absent} /\ n \in Frame.due \cup {Absent}
         /\ n = Absent => rest = {}
         /\ n # Absent => Continues(s, n, rest)
    <3>1. CASE k = Len(s)
      BY <2>6, <2>7, <2>9, <2>10, <3>1, RestFromNext
    <3>2. CASE k # Len(s)
      <4>1. /\ k + 1 \in DOMAIN s /\ s[k + 1] \in Rest(s, k)
            /\ Rest(s, k) \ {s[k]} = Rest(s, k + 1)
        BY <2>7, <3>2, RestFromNext
      <4>2. n = s[k + 1] /\ n \in Callback /\ n \in Frame.due
        BY <2>6, <2>9, <3>2, <4>1
      <4>3. n # Absent
        BY <4>2, EventsAssumption
      <4>4. Continues(s, n, rest)
        BY <2>6, <2>10, <4>1, <4>2 DEF Continues
      <4>5. QED
        BY <4>2, <4>3, <4>4
    <3>3. QED
      BY <3>1, <3>2
  <2>12. PICK g : g = f
    OBVIOUS
  <2>13. g = [Frame EXCEPT !.cb = n, !.due = rest, !.stranger = FALSE]
    <3>1. f.stranger = FALSE
      BY <2>2, <2>8, <2>11 DEF WalkRecord
    <3>2. n \notin Frame.due \cup {Absent} <=> FALSE
      BY <2>11
    <3>3. f = [Frame EXCEPT !.cb = n, !.due = @ \ {Frame.cb}, !.stranger = FALSE]
      BY <2>2, <2>8, <3>2 DEF WalkRecord
    <3>4. QED
      BY <2>10, <2>12, <3>3
  <2>14. /\ g \in WalkRecord /\ g.at = Frame.at /\ g.cb = n /\ g.due = rest
         /\ ~g.stranger /\ g.atFreed = Frame.atFreed /\ ~g.cbFreed
    BY <1>4, <2>2, <2>10, <2>11, <2>13 DEF WalkRecord
  <2>15. g \in Sound(callbacks, slip)
    BY <2>2, <2>5, <2>11, <2>14 DEF Sound, KeepsPace
  <2>16. PICK S : S = Sound(callbacks, slip)
    OBVIOUS
  <2>17. frames' \in Seq(S)
    <3>1. frames' = [frames EXCEPT ![Len(frames)] = g]
      BY <2>1, <2>12 DEF Top
    <3>2. frames \in Seq(S) /\ g \in S
      BY <2>15, <2>16 DEF EventsInv
    <3>3. QED
      BY <1>1, <3>1, <3>2, TopReplaced
  <2>18. QED
    BY <1>1, <2>1, <2>16, <2>17, RunsOn DEF EventsInv
<1>5. QED
  BY <1>3, <1>4

LEMMA AddCallbackKeeps ==
  ASSUME EventsInv, NEW l \in Listener, NEW c \in Callback, AddCallback(l, c)
  PROVE  EventsInv'
<1>1. /\ callbacks' = [callbacks EXCEPT ![l] = <<c>> \o @]
      /\ c \notin ToSet(callbacks[l])
      /\ UNCHANGED <<entries, lost, stale, frames, released, slip, fate>>
      /\ fate = "running"
  BY DEF AddCallback, ClientRuns, deviceVars, entryVars
<1>2. /\ callbacks \in [Listener -> Seq(Callback)]
      /\ \A k \in Listener : Single(callbacks[k])
  BY DEF EventsInv
<1>3. PICK s \in Seq(Callback) : s = callbacks[l]
  BY <1>2
<1>4. PICK t : t = <<c>> \o s
  OBVIOUS
<1>5. /\ t \in Seq(Callback) /\ Single(t)
      /\ \A y, rest : Continues(s, y, rest) => Continues(t, y, rest)
  BY <1>1, <1>2, <1>3, <1>4, PrependContinues
<1>6. callbacks' = [callbacks EXCEPT ![l] = t]
  BY <1>1, <1>2, <1>3, <1>4
<1>7. /\ callbacks' \in [Listener -> Seq(Callback)]
      /\ callbacks'[l] = t
      /\ \A k \in Listener : k # l => callbacks'[k] = callbacks[k]
  BY <1>2, <1>5, <1>6
<1>8. \A k \in Listener : Single(callbacks'[k])
  BY <1>2, <1>5, <1>7
<1>9. ASSUME NEW f \in Sound(callbacks, slip)
      PROVE  f \in Sound(callbacks', slip)
  <2>1. f.cb # Absent => f.at[1] \in Listener
    BY DEF Sound, KeepsPace, Listener
  <2>2. QED
    BY <1>3, <1>5, <1>7, <2>1 DEF Sound, KeepsPace
<1>10. PICK S : S = Sound(callbacks, slip)
  OBVIOUS
<1>11. PICK T : T = Sound(callbacks', slip)
  OBVIOUS
<1>12. frames \in Seq(T)
  <2>1. frames \in Seq(S) /\ S \subseteq T
    BY <1>9, <1>10, <1>11 DEF EventsInv
  <2>2. QED
    BY <2>1
<1>13. QED
  BY <1>1, <1>7, <1>8, <1>11, <1>12, RunsOn DEF EventsInv

LEMMA RemoveCallbackKeeps ==
  ASSUME EventsInv, NEW l \in Listener, NEW c \in Callback, RemoveCallback(l, c)
  PROVE  EventsInv'
<1> DEFINE Changed(f) ==
      IF f.cb = Absent \/ f.at[1] # l THEN f
      ELSE [f EXCEPT !.due = @ \ {c}, !.cbFreed = @ \/ f.cb = c]
<1>1. /\ callbacks' = [callbacks EXCEPT ![l] = RemoveAt(@, Place(c, @))]
      /\ c \in ToSet(callbacks[l])
      /\ frames' = [i \in DOMAIN frames |-> Changed(frames[i])]
      /\ slip' = (slip \/ \E i \in DOMAIN frames : Runs(frames[i], l, c))
      /\ UNCHANGED <<entries, lost, stale, released, fate>>
      /\ fate = "running"
  BY DEF RemoveCallback, ClientRuns, deviceVars, entryVars
<1>2. /\ callbacks \in [Listener -> Seq(Callback)]
      /\ \A k \in Listener : Single(callbacks[k])
      /\ slip \in BOOLEAN
  BY DEF EventsInv
<1>3. PICK s \in Seq(Callback) : s = callbacks[l]
  BY <1>2
<1>4. PICK p \in DOMAIN s : p = Place(c, s) /\ s[p] = c
  BY <1>1, <1>3, PlaceFound
<1>5. PICK t : t = RemoveAt(s, p)
  OBVIOUS
<1>6. /\ t \in Seq(Callback) /\ Single(t)
      /\ \A y, rest : Continues(s, y, rest) /\ y # c => Continues(t, y, rest \ {c})
  BY <1>2, <1>3, <1>4, <1>5, RemoveContinues
<1>7. callbacks' = [callbacks EXCEPT ![l] = t]
  BY <1>1, <1>2, <1>3, <1>4, <1>5
<1>8. /\ callbacks' \in [Listener -> Seq(Callback)]
      /\ callbacks'[l] = t
      /\ \A k \in Listener : k # l => callbacks'[k] = callbacks[k]
  BY <1>2, <1>6, <1>7
<1>9. \A k \in Listener : Single(callbacks'[k])
  BY <1>2, <1>6, <1>8
<1>10. slip' \in BOOLEAN /\ (slip => slip')
  BY <1>1, <1>2
<1>11. ASSUME NEW i \in DOMAIN frames
       PROVE  Changed(frames[i]) \in Sound(callbacks', slip')
  <2>1. PICK f : f = frames[i]
    OBVIOUS
  <2>2. f \in Sound(callbacks, slip)
    <3>1. PICK S : S = Sound(callbacks, slip)
      OBVIOUS
    <3>2. frames \in Seq(S)
      BY <3>1 DEF EventsInv
    <3>3. QED
      BY <2>1, <3>1, <3>2
  <2>3. f \in WalkRecord /\ ~f.stranger
    BY <2>2 DEF Sound, KeepsPace
  <2>4. f.cb # Absent => f.at[1] \in Listener
    BY <2>2 DEF Sound, KeepsPace, Listener
  <2>5. CASE f.cb = Absent \/ f.at[1] # l
    <3>1. f \in Sound(callbacks', slip')
      BY <1>8, <1>10, <2>2, <2>4, <2>5 DEF Sound, KeepsPace
    <3>2. QED
      BY <2>1, <2>5, <3>1
  <2>6. CASE f.cb # Absent /\ f.at[1] = l
    <3>1. PICK g : g = [f EXCEPT !.due = @ \ {c}, !.cbFreed = @ \/ f.cb = c]
      OBVIOUS
    <3>2. /\ g \in WalkRecord /\ g.at = f.at /\ g.cb = f.cb /\ g.due = f.due \ {c}
          /\ ~g.stranger /\ g.atFreed = f.atFreed
          /\ g.cbFreed <=> f.cbFreed \/ f.cb = c
      BY <2>3, <3>1 DEF WalkRecord
    <3>3. f.cb = c => slip'
      BY <1>1, <2>1, <2>6 DEF Runs
    <3>4. g.atFreed \/ g.cbFreed => slip'
      BY <1>10, <2>2, <3>2, <3>3 DEF Sound
    <3>5. g.cbFreed \/ Continues(t, g.cb, g.due)
      <4>1. f.cbFreed \/ Continues(s, f.cb, f.due)
        BY <1>3, <2>2, <2>6 DEF Sound, KeepsPace
      <4>2. ASSUME ~f.cbFreed, f.cb # c
            PROVE  Continues(t, f.cb, f.due \ {c})
        BY <1>6, <4>1, <4>2
      <4>3. (f.cbFreed \/ f.cb = c) \/ Continues(t, f.cb, f.due \ {c})
        BY <4>2
      <4>4. QED
        BY ONLY <3>2, <4>3, Zenon
    <3>6. g \in Sound(callbacks', slip')
      BY <1>8, <2>2, <2>6, <3>2, <3>4, <3>5 DEF Sound, KeepsPace
    <3>7. QED
      BY <2>1, <2>6, <3>1, <3>6
  <2>7. QED
    BY <2>5, <2>6
<1> HIDE DEF Changed
<1>12. PICK T : T = Sound(callbacks', slip')
  OBVIOUS
<1>13. frames' \in Seq(T)
  <2>1. PICK S : S = Sound(callbacks, slip)
    OBVIOUS
  <2>2. frames \in Seq(S)
    BY <2>1 DEF EventsInv
  <2>3. PICK r : r = [i \in DOMAIN frames |-> Changed(frames[i])]
    OBVIOUS
  <2>4. r = [i \in DOMAIN frames |-> r[i]] /\ \A i \in DOMAIN frames : r[i] \in T
    BY <1>11, <1>12, <2>3
  <2>5. r \in Seq(T)
    BY ONLY <2>2, <2>4, EachReplaced
  <2>6. QED
    BY <1>1, <2>3, <2>5
<1>14. (lost => slip)' /\ (stale # {} => slip)' /\ (released # {} => slip)'
  BY <1>1, <1>10 DEF EventsInv
<1>15. QED
  BY <1>1, <1>8, <1>9, <1>10, <1>12, <1>13, <1>14, RunsOn DEF EventsInv

LEMMA ReleaseListenerKeeps ==
  ASSUME EventsInv, NEW l \in Listener, ReleaseListener(l)
  PROVE  EventsInv'
<1> DEFINE walks(f) == f.cb # Absent /\ f.at[1] = l
           Changed(f) == [f EXCEPT !.cbFreed = @ \/ walks(f)]
<1>1. PICK left : /\ stale' = stale \cup left
                  /\ callbacks' = [callbacks EXCEPT ![l] = <<>>]
                  /\ frames' = [i \in DOMAIN frames |-> Changed(frames[i])]
                  /\ slip' = (slip \/ left # {} \/ \E i \in DOMAIN frames : walks(frames[i]))
                  /\ UNCHANGED <<entries, lost, released, fate>>
                  /\ fate = "running"
  BY DEF ReleaseListener, ClientRuns, deviceVars
<1>2. /\ callbacks \in [Listener -> Seq(Callback)]
      /\ \A k \in Listener : Single(callbacks[k])
      /\ slip \in BOOLEAN
  BY DEF EventsInv
<1>3. PICK t \in Seq(Callback) : t = <<>>
  <2>1. <<>> \in Seq(Callback)
    OBVIOUS
  <2>2. QED
    BY <2>1
<1>4. /\ callbacks' \in [Listener -> Seq(Callback)]
      /\ callbacks'[l] = t
      /\ \A k \in Listener : k # l => callbacks'[k] = callbacks[k]
  BY <1>1, <1>2, <1>3
<1>5. Single(t)
  BY <1>3 DEF Single
<1>6. \A k \in Listener : Single(callbacks'[k])
  BY <1>2, <1>4, <1>5
<1>7. slip' \in BOOLEAN /\ (slip => slip')
  BY <1>1, <1>2
<1>8. ASSUME NEW i \in DOMAIN frames
      PROVE  Changed(frames[i]) \in Sound(callbacks', slip')
  <2>1. PICK f : f = frames[i]
    OBVIOUS
  <2>2. f \in Sound(callbacks, slip)
    <3>1. PICK S : S = Sound(callbacks, slip)
      OBVIOUS
    <3>2. frames \in Seq(S)
      BY <3>1 DEF EventsInv
    <3>3. QED
      BY <2>1, <3>1, <3>2
  <2>3. f \in WalkRecord /\ ~f.stranger
    BY <2>2 DEF Sound, KeepsPace
  <2>4. f.cb # Absent => f.at[1] \in Listener
    BY <2>2 DEF Sound, KeepsPace, Listener
  <2>5. PICK g : g = Changed(f)
    OBVIOUS
  <2>6. /\ g \in WalkRecord /\ g.at = f.at /\ g.cb = f.cb /\ g.due = f.due
        /\ ~g.stranger /\ g.atFreed = f.atFreed
        /\ g.cbFreed <=> f.cbFreed \/ walks(f)
    BY <2>3, <2>5 DEF WalkRecord
  <2>7. walks(f) => slip'
    BY <1>1, <2>1
  <2>8. g.atFreed \/ g.cbFreed => slip'
    BY <1>7, <2>2, <2>6, <2>7 DEF Sound
  <2>9. g \in Sound(callbacks', slip')
    BY <1>4, <2>2, <2>4, <2>6, <2>8 DEF Sound, KeepsPace
  <2>10. QED
    BY <2>1, <2>5, <2>9
<1> HIDE DEF Changed
<1>9. PICK T : T = Sound(callbacks', slip')
  OBVIOUS
<1>10. frames' \in Seq(T)
  <2>1. PICK S : S = Sound(callbacks, slip)
    OBVIOUS
  <2>2. frames \in Seq(S)
    BY <2>1 DEF EventsInv
  <2>3. PICK r : r = [i \in DOMAIN frames |-> Changed(frames[i])]
    OBVIOUS
  <2>4. r = [i \in DOMAIN frames |-> r[i]] /\ \A i \in DOMAIN frames : r[i] \in T
    BY <1>8, <1>9, <2>3
  <2>5. r \in Seq(T)
    BY ONLY <2>2, <2>4, EachReplaced
  <2>6. QED
    BY <1>1, <2>3, <2>5
<1>11. (lost => slip)' /\ (stale # {} => slip)' /\ (released # {} => slip)'
  BY <1>1, <1>2 DEF EventsInv
<1>12. QED
  BY <1>1, <1>4, <1>6, <1>7, <1>9, <1>10, <1>11, RunsOn DEF EventsInv

LEMMA UnlinkedKeeps ==
  ASSUME EventsInv, fate = "running", NEW gone, Unlinked(gone)
  PROVE  EventsInv'
<1> DEFINE Changed(f) == [f EXCEPT !.atFreed = @ \/ f.at \in gone]
<1>1. /\ lost' = Newest(gone) /\ stale' = stale \ gone
      /\ frames' = [i \in DOMAIN frames |-> Changed(frames[i])]
      /\ slip' = (slip \/ Newest(gone)
                       \/ \E i \in DOMAIN frames : frames[i].at \in gone)
      /\ UNCHANGED <<callbacks, released, fate>>
  BY DEF Unlinked, deviceVars
<1>2. slip \in BOOLEAN
  BY DEF EventsInv
<1>3. /\ slip' \in BOOLEAN /\ (slip => slip') /\ (lost' => slip')
      /\ (stale # {} => slip)' /\ (released # {} => slip)'
  BY <1>1, <1>2 DEF Newest, EventsInv
<1>4. ASSUME NEW i \in DOMAIN frames
      PROVE  Changed(frames[i]) \in Sound(callbacks, slip')
  <2>1. PICK f : f = frames[i]
    OBVIOUS
  <2>2. f \in Sound(callbacks, slip)
    <3>1. PICK S : S = Sound(callbacks, slip)
      OBVIOUS
    <3>2. frames \in Seq(S)
      BY <3>1 DEF EventsInv
    <3>3. QED
      BY <2>1, <3>1, <3>2
  <2>3. PICK g : g = Changed(f)
    OBVIOUS
  <2>4. /\ g \in WalkRecord /\ g.at = f.at /\ g.cb = f.cb /\ g.due = f.due
        /\ g.stranger = f.stranger /\ g.cbFreed = f.cbFreed
        /\ g.atFreed <=> f.atFreed \/ f.at \in gone
    BY <2>2, <2>3 DEF Sound, WalkRecord
  <2>5. f.at \in gone => slip'
    BY <1>1, <2>1
  <2>6. g \in Sound(callbacks, slip')
    BY <1>3, <2>2, <2>4, <2>5 DEF Sound, KeepsPace
  <2>7. QED
    BY <2>1, <2>3, <2>6
<1> HIDE DEF Changed
<1>5. PICK T : T = Sound(callbacks, slip')
  OBVIOUS
<1>6. frames' \in Seq(T)
  <2>1. PICK S : S = Sound(callbacks, slip)
    OBVIOUS
  <2>2. frames \in Seq(S)
    BY <2>1 DEF EventsInv
  <2>3. PICK r : r = [i \in DOMAIN frames |-> Changed(frames[i])]
    OBVIOUS
  <2>4. r = [i \in DOMAIN frames |-> r[i]] /\ \A i \in DOMAIN frames : r[i] \in T
    BY <1>4, <1>5, <2>3
  <2>5. r \in Seq(T)
    BY ONLY <2>2, <2>4, EachReplaced
  <2>6. QED
    BY <1>1, <2>3, <2>5
<1>7. QED
  BY <1>1, <1>3, <1>5, <1>6, RunsOn DEF EventsInv

LEMMA DeregisterKeeps ==
  ASSUME EventsInv, NEW n \in Name, Deregister(n)
  PROVE  EventsInv'
<1>1. fate = "running"
  BY DEF Deregister, ClientRuns
<1>2. CASE lost
  BY <1>2, FailsKeeps DEF Deregister, EventsInv
<1>3. ASSUME ~lost, NEW e \in ToSet(entries), Unlike(e, n)
      PROVE  EventsInv'
  <2>1. /\ UNCHANGED <<entries, lost, stale, callbacks, frames, released, slip>>
        /\ asked' = n /\ fate' = "null"
    BY <1>3 DEF Deregister, entryVars, deviceVars
  <2>2. e \in ToSet(entries)' /\ Unlike(e, asked')
    BY <1>3, <2>1
  <2>3. NullOnlyOfDetails'
    BY <2>2 DEF NullOnlyOfDetails
  <2>4. ListsSurvive'
    BY <2>1, <2>3 DEF ListsSurvive, FreedOnlyAfterSlip
  <2>5. QED
    BY <2>1, <2>4 DEF EventsInv
<1>4. CASE ~lost /\ ~\E e \in ToSet(entries) : Unlike(e, n)
  <2>1. PICK gone : /\ gone = {e \in ToSet(entries) : <<e[1], e[2], e[3]>> = n}
                    /\ Unlinked(gone)
    BY <1>4 DEF Deregister
  <2>2. QED
    BY <1>1, <2>1, UnlinkedKeeps
<1>5. QED
  BY <1>2, <1>3, <1>4

\* Registering an entry, and what is done with devices, changes no walk.
LEMMA RestKeeps ==
  ASSUME EventsInv, fate = "running",
         UNCHANGED <<lost, stale, callbacks, frames, fate>>,
         \/ UNCHANGED <<released, slip>>
         \/ slip' = TRUE
  PROVE  EventsInv'
<1>1. slip' \in BOOLEAN /\ (slip => slip')
  BY DEF EventsInv
<1>2. PICK S : S = Sound(callbacks, slip)
  OBVIOUS
<1>3. PICK T : T = Sound(callbacks, slip')
  OBVIOUS
<1>4. S \subseteq T
  BY <1>1, <1>2, <1>3 DEF Sound
<1>5. frames \in Seq(S)
  BY <1>2 DEF EventsInv
<1>6. frames \in Seq(T)
  BY <1>4, <1>5
<1>7. QED
  BY <1>1, <1>3, <1>6, RunsOn DEF EventsInv

LEMMA DevicesKeep ==
  ASSUME EventsInv, NEW d \in Device,
         NewDevice(d) \/ Watch(d) \/ Unwatch(d) \/ Release(d) \/ DeviceEvent(d)
  PROVE  EventsInv'
<1>1. fate = "running"
  BY DEF NewDevice, Watch, Unwatch, Release, DeviceEvent, ClientRuns
<1>2. CASE NewDevice(d)
  <2>1. CASE ToSet(devices) \cap released # {}
    BY <1>2, <2>1, FailsKeeps DEF NewDevice, EventsInv
  <2>2. CASE ToSet(devices) \cap released = {}
    BY <1>1, <1>2, <2>2, RestKeeps DEF NewDevice, entryVars
  <2>3. QED
    BY <2>1, <2>2
<1>3. CASE Watch(d) \/ Unwatch(d)
  BY <1>1, <1>3, RestKeeps DEF Watch, Unwatch, entryVars
<1>4. CASE Release(d)
  BY <1>1, <1>4, RestKeeps DEF Release, entryVars
<1>5. CASE DeviceEvent(d)
  BY <1>5, FailsKeeps DEF DeviceEvent, EventsInv
<1>6. QED
  BY <1>2, <1>3, <1>4, <1>5

LEMMA EventsStep ==
  ASSUME EventsInv, [EventsNext]_eventVars
  PROVE  EventsInv'
<1>1. ASSUME NEW e \in Entry, Register(e)
      PROVE  EventsInv'
  <2>1. CASE lost
    BY <1>1, <2>1, FailsKeeps DEF Register, EventsInv
  <2>2. CASE ~lost
    BY <1>1, <2>2, RestKeeps DEF Register, ClientRuns, deviceVars
  <2>3. QED
    BY <2>1, <2>2
<1>2. ASSUME NEW l \in Listener, DeregisterAll(l)
      PROVE  EventsInv'
  <2>1. CASE lost
    BY <1>2, <2>1, FailsKeeps DEF DeregisterAll, EventsInv
  <2>2. CASE ~lost
    BY <1>2, <2>2, UnlinkedKeeps DEF DeregisterAll, ClientRuns
  <2>3. QED
    BY <2>1, <2>2
<1>3. CASE UNCHANGED eventVars
  <2>1. UNCHANGED <<entries, lost, stale, callbacks, frames, released, slip, asked, fate>>
    BY <1>3 DEF eventVars
  <2>2. ListsSurvive'
    BY <2>1 DEF EventsInv, ListsSurvive, FreedOnlyAfterSlip, NullOnlyOfDetails
  <2>3. QED
    BY <2>1, <2>2 DEF EventsInv
<1>4. QED
  BY <1>1, <1>2, <1>3, DispatchKeeps, WalkKeeps, ReturnKeeps, AddCallbackKeeps,
     RemoveCallbackKeeps, ReleaseListenerKeeps, DeregisterKeeps, DevicesKeep
  DEF EventsNext, ListenersNext, DevicesNext

(* The listeners, their callbacks and the walks over them keep step, for   *)
(* any events, dispatched inside any callbacks.                            *)
THEOREM EventsInvariant == EventsSpec => []EventsInv
<1>1. EventsInit => EventsInv
  BY EventsInitially
<1>2. EventsInv /\ [EventsNext]_eventVars => EventsInv'
  BY EventsStep
<1>3. QED
  BY <1>1, <1>2, PTL DEF EventsSpec

(* cspi_event walks a listener's callbacks while they may add and remove   *)
(* each other: whatever they do it runs each of those that were there when *)
(* the event came and have not been removed, and no other.                 *)
THEOREM EventsRunTheirCallbacks == EventsSpec => []RunsItsCallbacks
<1>1. EventsInv => RunsItsCallbacks
  <2> SUFFICES ASSUME EventsInv, NEW i \in DOMAIN frames
               PROVE  /\ ~frames[i].stranger
                      /\ frames[i].cb = Absent => frames[i].due = {}
    BY DEF RunsItsCallbacks
  <2>1. PICK S : S = Sound(callbacks, slip)
    OBVIOUS
  <2>2. frames \in Seq(S)
    BY <2>1 DEF EventsInv
  <2>3. frames[i] \in Sound(callbacks, slip)
    BY <2>1, <2>2
  <2>4. QED
    BY <2>3 DEF Sound, KeepsPace
<1>2. QED
  BY <1>1, EventsInvariant, PTL

(* Freed links and listeners and absent details are read only by a client  *)
(* that did one of the things that ListsSurvive names.                     *)
THEOREM EventsListsSurvive == EventsSpec => []ListsSurvive
<1>1. EventsInv => ListsSurvive
  BY DEF EventsInv
<1>2. QED
  BY <1>1, EventsInvariant, PTL

-----------------------------------------------------------------------------
(* Calls *)

\* What a wrapper does first, and what it may do with a failure.
Regular(s) ==
  s[1] \in {"call", "get"} /\ s[5] \in {"ev", "check", "inverted", "none"}

LEMMA StubsRegular ==
  ASSUME NEW s \in AllStubs
  PROVE  Regular(s)
<1>1. \A member, sent, expects :
        \A after \in {"ev", "check", "inverted", "none"} :
          Regular(Call(member, sent, expects, after))
  BY DEF Regular, Call
<1>2. \A name, type : Regular(Read(name, type))
  BY DEF Regular, Read
<1> HIDE DEF Regular
<1>3. \A x \in AccessibleStubs \cup ActionStubs \cup ApplicationStubs : Regular(x)
  BY <1>1, <1>2, Zenon DEF AccessibleStubs, ActionStubs, ApplicationStubs
<1>4. \A x \in ComponentStubs \cup ComponentStubsMore : Regular(x)
  BY <1>1, <1>2, Zenon DEF ComponentStubs, ComponentStubsMore
<1>5. \A x \in EditableTextStubs \cup EditableTextStubsMore : Regular(x)
  BY <1>1, <1>2, Zenon DEF EditableTextStubs, EditableTextStubsMore
<1>6. \A x \in HyperlinkStubs \cup HypertextStubs \cup ImageStubs : Regular(x)
  BY <1>1, <1>2, Zenon DEF HyperlinkStubs, HypertextStubs, ImageStubs
<1>7. \A x \in SelectionStubs \cup SelectionStubsMore : Regular(x)
  BY <1>1, <1>2, Zenon DEF SelectionStubs, SelectionStubsMore
<1>8. \A x \in TablePropertyStubs \cup TableCellStubs \cup TableHeaderStubs : Regular(x)
  BY <1>1, <1>2, Zenon DEF TablePropertyStubs, TableCellStubs, TableHeaderStubs
<1>9. \A x \in TableSelectedStubs \cup TableSelectionStubs \cup TableIndexStubs : Regular(x)
  BY <1>1, <1>2, Zenon DEF TableSelectedStubs, TableSelectionStubs, TableIndexStubs
<1>10. \A x \in TextStubs \cup TextAroundStubs \cup TextPlaceStubs : Regular(x)
  BY <1>1, <1>2, Zenon DEF TextStubs, TextAroundStubs, TextPlaceStubs
<1>11. \A x \in TextRangeStubs \cup TextSelectionStubs \cup TextAttributeStubs : Regular(x)
  BY <1>1, <1>2, Zenon DEF TextRangeStubs, TextSelectionStubs, TextAttributeStubs
<1>12. \A x \in ValueStubs : Regular(x)
  BY <1>1, <1>2, Zenon DEF ValueStubs
<1>13. PICK interface \in DOMAIN Stubs : s \in Stubs[interface]
  BY DEF AllStubs
<1>14. QED
  BY <1>3, <1>4, <1>5, <1>6, <1>7, <1>8, <1>9, <1>10, <1>11, <1>12, <1>13 DEF Stubs

(* What the exception holds is the failure of a wrapper that leaves it,    *)
(* and the last wrapper told its caller what the property says.            *)
CallsInv ==
  /\ pending \in Seq(Wrapper)
  /\ exception # NoCall => exception \in Wrapper /\ After(exception) # "ev"
  /\ FailuresAreOwn

LEMMA CallsInitially == ASSUME CallsInit PROVE CallsInv
<1>1. OwnFailureReported /\ OthersBlamedRightly
  BY DEF CallsInit, OwnFailureReported, OthersBlamedRightly
<1>2. pending \in Seq(Wrapper)
  BY DEF CallsInit
<1>3. QED
  BY <1>1, <1>2 DEF CallsInit, CallsInv, FailuresAreOwn

LEMMA NoCallIsNoWrapper == NoCall \notin Wrapper /\ After(NoCall) = "ev"
<1>1. NoCall \in Wrapper => Regular(NoCall)
  BY StubsRegular, ClientCallsAssumption
<1>2. NoCall[1] = "none" /\ After(NoCall) = "ev"
  BY DEF NoCall, After
<1>3. QED
  BY <1>1, <1>2 DEF Regular

LEMMA BeginKeeps ==
  ASSUME CallsInv, NEW w \in Wrapper, Begin(w)
  PROVE  CallsInv'
<1>1. CASE w = RelationSet /\ exception # NoCall
  <2>1. told' = <<w, "ok", "abort", exception>> /\ exception' = NoCall /\ pending' = pending
    BY <1>1 DEF Begin
  <2>2. After(exception) # "ev"
    BY <1>1 DEF CallsInv
  <2>3. OwnFailureReported' /\ OthersBlamedRightly'
    BY <2>1, <2>2 DEF OwnFailureReported, OthersBlamedRightly, After
  <2>4. QED
    BY <2>1, <2>3 DEF CallsInv, FailuresAreOwn
<1>2. CASE ~(w = RelationSet /\ exception # NoCall)
  <2>1. pending' = Append(pending, w) /\ UNCHANGED <<exception, told>>
    BY <1>2 DEF Begin
  <2>2. pending' \in Seq(Wrapper)
    BY <2>1 DEF CallsInv
  <2>3. QED
    BY <2>1, <2>2 DEF CallsInv, FailuresAreOwn, OwnFailureReported, OthersBlamedRightly
<1>3. QED
  BY <1>1, <1>2

LEMMA FinishKeeps ==
  ASSUME CallsInv, NEW outcome \in {"ok", "error"}, Finish(outcome)
  PROVE  CallsInv'
<1>1. PICK w : w = pending[Len(pending)]
  OBVIOUS
<1>2. w \in Wrapper /\ pending' \in Seq(Wrapper)
  BY <1>1 DEF CallsInv, Finish
<1>3. PICK thrown : thrown = Thrown(w, outcome)
  OBVIOUS
<1>4. /\ told' = <<w, outcome, Result(w, outcome, thrown), thrown>>
      /\ exception' = Left(w, thrown)
  BY <1>1, <1>3 DEF Finish
<1>5. Way(w) \in {"call", "get"} /\ After(w) \in {"ev", "check", "inverted", "none"}
  BY <1>2, StubsRegular, ClientCallsAssumption DEF Regular, Way, After
<1>6. thrown = exception \/ (thrown = w /\ outcome = "error")
  BY <1>3 DEF Thrown
<1>7. outcome = "error" /\ Way(w) = "call" => thrown # NoCall
  BY <1>2, <1>3, NoCallIsNoWrapper DEF Thrown
<1>8. exception' # NoCall => exception' \in Wrapper /\ After(exception') # "ev"
  <2>1. CASE After(w) = "ev"
    BY <1>4, <2>1 DEF Left
  <2>2. CASE After(w) # "ev"
    BY <1>2, <1>4, <1>6, <2>2 DEF Left, CallsInv
  <2>3. QED
    BY <2>1, <2>2
<1>9. OwnFailureReported'
  <2>1. SUFFICES ASSUME outcome = "error", Way(w) = "call",
                        After(w) \in {"ev", "check"}
                 PROVE  Result(w, outcome, thrown) = "failure"
    BY <1>4, <1>5 DEF OwnFailureReported, Way, After
  <2>2. QED
    BY <1>7, <2>1 DEF Result
<1>10. OthersBlamedRightly'
  <2>1. SUFFICES ASSUME outcome = "ok", Result(w, outcome, thrown) \in {"failure", "abort"}
                 PROVE  (After(w) = "inverted" /\ thrown = NoCall) \/ After(thrown) # "ev"
    BY <1>4 DEF OthersBlamedRightly, After
  <2>2. thrown = exception
    BY <1>6, <2>1
  <2>3. CASE After(w) \in {"ev", "check"}
    <3>1. thrown # NoCall
      BY <2>1, <2>3 DEF Result
    <3>2. QED
      BY <2>2, <3>1 DEF CallsInv
  <2>4. CASE After(w) = "inverted"
    <3>1. thrown = NoCall
      BY <2>1, <2>4 DEF Result
    <3>2. QED
      BY <2>4, <3>1
  <2>5. CASE After(w) = "none"
    BY <2>1, <2>5 DEF Result
  <2>6. QED
    BY <1>5, <2>3, <2>4, <2>5
<1>11. QED
  BY <1>2, <1>8, <1>9, <1>10 DEF CallsInv, FailuresAreOwn

(* Whatever wrappers a client uses, in whatever order and inside each      *)
(* other's calls, the one exception behaves as the invariant says.         *)
THEOREM CallsInvariant == CallsSpec => []CallsInv
<1>1. CallsInit => CallsInv
  BY CallsInitially
<1>2. CallsInv /\ [CallsNext]_callVars => CallsInv'
  <2>1. SUFFICES ASSUME CallsInv, [CallsNext]_callVars PROVE CallsInv'
    OBVIOUS
  <2>2. ASSUME NEW w \in Wrapper, Begin(w) PROVE CallsInv'
    BY <2>1, <2>2, BeginKeeps
  <2>3. ASSUME NEW outcome \in {"ok", "error"}, Finish(outcome) PROVE CallsInv'
    BY <2>1, <2>3, FinishKeeps
  <2>4. CASE UNCHANGED callVars
    BY <2>1, <2>4 DEF callVars, CallsInv, FailuresAreOwn, OwnFailureReported,
                      OthersBlamedRightly
  <2>5. QED
    BY <2>1, <2>2, <2>3, <2>4 DEF CallsNext
<1>3. QED
  BY <1>1, <1>2, PTL DEF CallsSpec

(* A failure of a call is reported by the wrapper that made it, and a call *)
(* that went well is blamed only for a failure that a wrapper was known to *)
(* leave behind: spi-main.c's one exception, for every client.             *)
THEOREM CallsFailuresAreOwn == CallsSpec => []FailuresAreOwn
<1>1. CallsInv => FailuresAreOwn
  BY DEF CallsInv
<1>2. QED
  BY <1>1, CallsInvariant, PTL

-----------------------------------------------------------------------------
(* The client's Accessibles *)

Heaps ==
  [table : [Path -> Struct \cup {Nil}], rc : [Struct -> Int],
   memory : [Struct -> {"new", "used", "freed"}], parent : [Struct -> Struct \cup {Nil}],
   children : [Struct -> SUBSET Struct], live : SUBSET Struct, held : [Struct -> Nat],
   reported : SUBSET Struct,
   state : {"running", "freed", "stray pointer", "stack overflow"}]

In(h, s) == \E p \in Path : h.table[p] = s

(* The table has every Accessible once, and none that was never made; what *)
(* is not in the table and still a child has another parent.               *)
Linked(h) ==
  /\ \A p, q \in Path : h.table[p] # Nil /\ h.table[p] = h.table[q] => p = q
  /\ \A p \in Path : h.table[p] # Nil => h.memory[h.table[p]] # "new"
  /\ \A s, t \in Struct : t \in h.children[s] /\ ~In(h, t) => h.parent[t] # s

More(y, s, n) == [t \in Struct |-> IF t = s THEN y[t] + n ELSE y[t]]

(* y[s]: references to s other than those of the table and of the client.  *)
(* The count adds up, and for what has no count, so do the claims.         *)
Adds(h, y) ==
  h.state = "running" =>
    \A s \in Struct :
      /\ h.memory[s] = "used" =>
           h.rc[s] = One(In(h, s)) + h.held[s] + y[s] /\ h.rc[s] > 0
      /\ h.memory[s] # "used" => One(In(h, s)) + h.held[s] + y[s] = 0
      /\ h.held[s] > 0 => s \in h.live \cup h.reported

HeapOK(h, y) == h \in Heaps /\ Linked(h) /\ Adds(h, y)

\* no freed Accessible in the table without a stolen reference
FreedIsOut(h) ==
  \A p \in Path :
    h.table[p] # Nil /\ h.memory[h.table[p]] = "freed" => stolen[h.table[p]] > 0

Stole == \E s \in Struct : stolen[s] > 0 \/ s \in overheard

(* The memory was found freed through a parent or a child that is not in   *)
(* the table, or some reference was stolen, or about to be.                *)
Excused(h) ==
  h.state = "freed" =>
    \/ Stole
    \/ \E s, t \in Struct : /\ h.memory[s] = "used" /\ ~In(h, t)
                            /\ t = h.parent[s] \/ (t \in h.children[s] /\ h.parent[t] # s)

Others == [s \in Struct |-> kept[s] + One(mine = s) - stolen[s]]

ObjectsTypeOK ==
  /\ heap \in Heaps /\ kept \in [Struct -> Nat] /\ stolen \in [Struct -> Nat]
  /\ atDesktop \in Struct \cup {Nil, "gone"} /\ mine \in Struct \cup {Nil}
  /\ adding \in SUBSET Path /\ visits \in Seq(Struct \X SUBSET Struct)
  /\ hears \in {"nobody", "returns", "keeps"}

Carries(c, s) == \E e \in c : e[1] = s

(* What is kept suffices for the desktop, for the sources of events and    *)
(* for what listeners have to drop; who drops more is the desktop when the *)
(* application leaves, or a listener that had nothing to drop.             *)
EventRefsInv ==
  /\ carried \subseteq Struct \X (Struct \cup {Nil})
  /\ owed \in [Struct -> Nat] /\ overheard \subseteq Struct
  /\ \A s \in Struct : owed[s] + One(s = atDesktop) + One(Carries(carried, s)) <= kept[s]
  /\ \A s \in Struct : stolen[s] > 0 => atDesktop = "gone" \/ s \in overheard

(* A handler in its loop has a reference of its own; the calls of          *)
(* unref_object_and_children are for children of their callers' objects,   *)
(* which are all there until the first of them returns; the application    *)
(* is leaving.                                                             *)
HandlersInv ==
  /\ adding # {} \/ visits # <<>> => mine # Nil
  /\ adding # {} => visits = <<>>
  /\ visits # <<>> => visits[Len(visits)][1] = mine /\ atDesktop = "gone"
  /\ \A i \in DOMAIN visits : visits[i][2] \subseteq children[visits[i][1]]
  /\ state = "running" /\ ~Stole =>
       \A i \in DOMAIN visits : memory[visits[i][1]] = "used"

ObjectsInv ==
  /\ ObjectsTypeOK /\ HeapOK(heap, Others) /\ HandlersInv
  /\ FreedIsOut(heap) /\ Excused(heap) /\ EventRefsInv

\* a heap with other components
LEMMA HeapWith ==
  ASSUME NEW h \in Heaps
  PROVE  /\ \A x \in [Path -> Struct \cup {Nil}] : [h EXCEPT !.table = x] \in Heaps
         /\ \A x \in [Struct -> Int], y \in SUBSET Struct :
              [h EXCEPT !.rc = x, !.live = y] \in Heaps
BY DEF Heaps

LEMMA HeapParts ==
  ASSUME NEW h \in Heaps
  PROVE  /\ h.table \in [Path -> Struct \cup {Nil}] /\ h.rc \in [Struct -> Int]
         /\ h.memory \in [Struct -> {"new", "used", "freed"}]
         /\ h.parent \in [Struct -> Struct \cup {Nil}]
         /\ h.children \in [Struct -> SUBSET Struct]
         /\ h.live \in SUBSET Struct /\ h.held \in [Struct -> Nat]
         /\ h.reported \in SUBSET Struct
BY DEF Heaps

LEMMA TableEntry ==
  ASSUME NEW h \in Heaps, NEW q \in Path, h.table[q] # Nil
  PROVE  h.table[q] \in Struct
BY HeapParts

\* some claims more, or less
LEMMA ClaimsChanged ==
  ASSUME NEW y \in [Struct -> Int], NEW s \in Struct, NEW n \in Int
  PROVE  /\ More(y, s, n) \in [Struct -> Int]
         /\ \A t \in Struct : More(y, s, n)[t] = IF t = s THEN y[t] + n ELSE y[t]
BY DEF More

\* a heap with the same table, memory and pointers
LEMMA SameLinks ==
  ASSUME NEW h, NEW g, Linked(h), g.table = h.table, g.memory = h.memory,
         g.parent = h.parent, g.children = h.children
  PROVE  Linked(g)
BY DEF Linked, In

\* and the same counts
LEMMA SameCounts ==
  ASSUME NEW h, NEW g, NEW y, Adds(h, y), g.table = h.table, g.memory = h.memory,
         g.rc = h.rc, g.held = h.held, g.live = h.live, g.reported = h.reported,
         g.state = h.state
  PROVE  Adds(g, y)
<1>1. \A t : One(In(g, t)) = One(In(h, t))
  BY DEF In
<1>2. CASE g.state = "running"
  <2> SUFFICES ASSUME NEW t \in Struct
               PROVE  /\ g.memory[t] = "used" =>
                           g.rc[t] = One(In(g, t)) + g.held[t] + y[t] /\ g.rc[t] > 0
                      /\ g.memory[t] # "used" => One(In(g, t)) + g.held[t] + y[t] = 0
                      /\ g.held[t] > 0 => t \in g.live \cup g.reported
    BY DEF Adds
  <2>1. /\ h.memory[t] = "used" => h.rc[t] = One(In(h, t)) + h.held[t] + y[t] /\ h.rc[t] > 0
        /\ h.memory[t] # "used" => One(In(h, t)) + h.held[t] + y[t] = 0
        /\ h.held[t] > 0 => t \in h.live \cup h.reported
    BY <1>2 DEF Adds
  <2>2. QED
    BY <1>1, <2>1
<1>3. QED
  BY <1>2 DEF Adds

\* what is broken stays a heap, and nobody counts there any more
LEMMA BrokenKeeps ==
  ASSUME NEW h \in Heaps, Linked(h)
  PROVE  LET g == Broken(h) IN
         /\ g \in Heaps /\ g.state # "running" /\ \A y : HeapOK(g, y)
         /\ g.table = h.table /\ g.memory = h.memory /\ g.parent = h.parent
         /\ g.children = h.children /\ g.held = h.held /\ g.rc = h.rc
         /\ g.live = h.live /\ g.reported = h.reported
         /\ h.state # "running" => g = h
<1>1. PICK g : g = Broken(h)
  OBVIOUS
<1>2. /\ g \in Heaps /\ g.state # "running"
      /\ g.table = h.table /\ g.memory = h.memory /\ g.parent = h.parent
      /\ g.children = h.children /\ g.held = h.held /\ g.rc = h.rc
      /\ g.live = h.live /\ g.reported = h.reported
      /\ h.state # "running" => g = h
  BY <1>1 DEF Broken, Heaps
<1>3. Linked(g)
  BY <1>2, SameLinks
<1>4. \A y : HeapOK(g, y)
  BY <1>2, <1>3 DEF HeapOK, Adds
<1>5. QED
  BY <1>1, <1>2, <1>4

LEMMA ChildRefKeeps ==
  ASSUME NEW h, NEW y \in [Struct -> Int], HeapOK(h, y), NEW s \in Struct, Fine(h, s)
  PROVE  LET g == Ref(h, s) IN
         /\ HeapOK(g, More(y, s, 1))
         /\ g.table = h.table /\ g.memory = h.memory /\ g.parent = h.parent
         /\ g.children = h.children /\ g.held = h.held
         /\ g.state = "running" /\ g.rc[s] = h.rc[s] + 1 /\ s \in g.live
<1>1. h \in Heaps /\ Linked(h) /\ Adds(h, y)
  BY DEF HeapOK
<1>2. PICK g : g = [h EXCEPT !.rc[s] = @ + 1, !.live = @ \cup {s}]
  OBVIOUS
<1>3. g \in Heaps
  <2>1. h.rc \in [Struct -> Int] /\ h.live \in SUBSET Struct
    BY <1>1 DEF Heaps
  <2>2. [h.rc EXCEPT ![s] = @ + 1] \in [Struct -> Int] /\ h.live \cup {s} \in SUBSET Struct
    BY <2>1
  <2>3. g = [h EXCEPT !.rc = [h.rc EXCEPT ![s] = @ + 1], !.live = h.live \cup {s}]
    BY <1>2, <1>1 DEF Heaps
  <2>4. QED
    BY <1>1, <2>2, <2>3, HeapWith
<1>4. /\ g.table = h.table /\ g.memory = h.memory /\ g.parent = h.parent
      /\ g.children = h.children /\ g.held = h.held /\ g.state = h.state
      /\ g.live = h.live \cup {s} /\ g.reported = h.reported
      /\ g.rc = [h.rc EXCEPT ![s] = @ + 1]
  BY <1>1, <1>2 DEF Heaps
<1>5. Linked(g)
  BY <1>1, <1>4, SameLinks
<1>6. g.state = "running" /\ h.state = "running" /\ h.memory[s] = "used"
  BY <1>4 DEF Fine
<1>7. PICK z \in [Struct -> Int] :
        /\ z = More(y, s, 1)
        /\ \A t \in Struct : z[t] = IF t = s THEN y[t] + 1 ELSE y[t]
  BY ClaimsChanged
<1>8. Adds(g, z)
  <2> SUFFICES ASSUME NEW t \in Struct
               PROVE  /\ g.memory[t] = "used" =>
                           g.rc[t] = One(In(g, t)) + g.held[t] + z[t] /\ g.rc[t] > 0
                      /\ g.memory[t] # "used" => One(In(g, t)) + g.held[t] + z[t] = 0
                      /\ g.held[t] > 0 => t \in g.live \cup g.reported
    BY DEF Adds
  <2>1. /\ h.memory[t] = "used" => h.rc[t] = One(In(h, t)) + h.held[t] + y[t] /\ h.rc[t] > 0
        /\ h.memory[t] # "used" => One(In(h, t)) + h.held[t] + y[t] = 0
        /\ h.held[t] > 0 => t \in h.live \cup h.reported
    BY <1>1, <1>6 DEF Adds
  <2>2. In(g, t) = In(h, t)
    BY <1>4 DEF In
  <2>3. h.held[t] \in Nat /\ h.rc[t] \in Int /\ y[t] \in Int /\ One(In(h, t)) \in Nat
    BY <1>1, HeapParts DEF One
  <2>4. /\ z[t] = (IF t = s THEN y[t] + 1 ELSE y[t])
        /\ g.rc[t] = (IF t = s THEN h.rc[t] + 1 ELSE h.rc[t])
    BY <1>1, <1>4, <1>7, HeapParts
  <2>5. QED
    BY <1>4, <1>6, <2>1, <2>2, <2>3, <2>4
<1>9. Ref(h, s) = g
  BY <1>2 DEF Ref
<1>10. g.rc[s] = h.rc[s] + 1
  BY <1>1, <1>4, HeapParts
<1>11. QED
  BY <1>3, <1>4, <1>5, <1>6, <1>7, <1>8, <1>9, <1>10 DEF HeapOK

\* g is h with a reference to s dropped, of those that y has
Dropped(h, g, s, y) ==
  /\ HeapOK(g, More(y, s, -1))
  /\ g.table = h.table /\ g.parent = h.parent /\ g.children = h.children
  /\ g.state \in {"running", "stack overflow"}
  /\ g.state # "running" => g.memory = h.memory
  /\ \A t \in Struct : t # s => g.memory[t] = h.memory[t]
  /\ g.memory[s] # "new"
  /\ h.rc[s] > 1 => g.memory[s] = "used"

LEMMA ChildUnrefKeeps ==
  ASSUME NEW h, NEW y \in [Struct -> Int], HeapOK(h, y), NEW s \in Struct, Fine(h, s),
         NEW defunct
  PROVE  Dropped(h, Unref(h, s, defunct), s, y)
<1>1. h \in Heaps /\ Linked(h) /\ Adds(h, y) /\ h.state = "running" /\ h.memory[s] = "used"
  BY DEF HeapOK, Fine
<1>2. PICK n : n = h.rc[s] - 1
  OBVIOUS
<1>3. /\ n \in Nat /\ h.rc[s] = n + 1 /\ h.held[s] \in Nat /\ y[s] \in Int /\ h.rc[s] \in Int
      /\ h.rc[s] = One(In(h, s)) + h.held[s] + y[s] /\ One(In(h, s)) \in Nat
  BY <1>1, <1>2, HeapParts DEF Adds, One
<1>4. PICK z \in [Struct -> Int] :
        /\ z = More(y, s, -1)
        /\ \A t \in Struct : z[t] = IF t = s THEN y[t] - 1 ELSE y[t]
  BY ClaimsChanged
<1>5. PICK g : g = Unref(h, s, defunct)
  OBVIOUS
<1> SUFFICES /\ HeapOK(g, z)
             /\ g.table = h.table /\ g.parent = h.parent /\ g.children = h.children
             /\ g.state \in {"running", "stack overflow"}
             /\ g.state # "running" => g.memory = h.memory
             /\ \A t \in Struct : t # s => g.memory[t] = h.memory[t]
             /\ g.memory[s] # "new"
             /\ h.rc[s] > 1 => g.memory[s] = "used"
  BY <1>4, <1>5, Zenon DEF Dropped
<1>6. ASSUME h.state = "running",
             NEW after \in Nat, after >= n,
             /\ g \in Heaps /\ g.table = h.table /\ g.parent = h.parent
             /\ g.children = h.children /\ g.state = "running"
             /\ g.rc = [h.rc EXCEPT ![s] = after]
             /\ g.held = [h.held EXCEPT ![s] = @ + after - n]
             /\ g.memory = [h.memory EXCEPT ![s] = IF after = 0 THEN "freed" ELSE @]
             /\ g.live \cup g.reported = h.live \cup h.reported \cup {s}
                \/ (g.live \cup g.reported = h.live \cup h.reported /\ after = n)
      PROVE  /\ HeapOK(g, z)
             /\ \A t \in Struct : t # s => g.memory[t] = h.memory[t]
             /\ g.memory[s] # "new"
             /\ h.rc[s] > 1 => g.memory[s] = "used"
  <2>1. /\ h.rc \in [Struct -> Int] /\ h.held \in [Struct -> Nat]
        /\ h.memory \in [Struct -> {"new", "used", "freed"}]
    BY <1>1, HeapParts
  <2>2. /\ g.rc[s] = after /\ g.held[s] = h.held[s] + after - n
        /\ g.memory[s] = (IF after = 0 THEN "freed" ELSE "used")
        /\ \A t \in Struct : t # s => /\ g.memory[t] = h.memory[t] /\ g.rc[t] = h.rc[t]
                                      /\ g.held[t] = h.held[t]
    BY <1>1, <1>6, <2>1
  <2>3. \A t : In(g, t) = In(h, t)
    BY <1>6 DEF In
  <2>4. Linked(g)
    <3>1. \A p \in Path : h.table[p] # Nil => h.table[p] \in Struct
      BY <1>1, HeapParts
    <3>2. \A p \in Path : h.table[p] # Nil => g.memory[h.table[p]] # "new"
      BY <1>1, <2>2, <3>1 DEF Linked
    <3>3. QED
      BY <1>1, <1>6, <2>3, <3>2 DEF Linked
  <2>5. Adds(g, z)
    <3> SUFFICES ASSUME NEW t \in Struct
                 PROVE  /\ g.memory[t] = "used" =>
                             g.rc[t] = One(In(g, t)) + g.held[t] + z[t] /\ g.rc[t] > 0
                        /\ g.memory[t] # "used" => One(In(g, t)) + g.held[t] + z[t] = 0
                        /\ g.held[t] > 0 => t \in g.live \cup g.reported
      BY DEF Adds
    <3>1. /\ h.memory[t] = "used" => h.rc[t] = One(In(h, t)) + h.held[t] + y[t] /\ h.rc[t] > 0
          /\ h.memory[t] # "used" => One(In(h, t)) + h.held[t] + y[t] = 0
          /\ h.held[t] > 0 => t \in h.live \cup h.reported
      BY <1>1 DEF Adds
    <3>2. CASE t # s
      BY <1>4, <1>6, <2>2, <2>3, <3>1, <3>2
    <3>3. CASE t = s
      <4>1. z[s] = y[s] - 1
        BY <1>4
      <4>2. One(In(g, s)) + g.held[s] + z[s] = after
        BY <1>3, <2>2, <2>3, <4>1
      <4>3. g.held[s] > 0 => s \in g.live \cup g.reported
        BY <1>3, <1>6, <2>2, <3>1, <3>3
      <4>4. QED
        BY <2>2, <3>3, <4>2, <4>3
    <3>4. QED
      BY <3>2, <3>3
  <2>6. QED
    BY <1>3, <1>6, <2>2, <2>4, <2>5 DEF HeapOK
<1>7. CASE ~Reports(h, s, n, defunct)
  <2>1. g = [h EXCEPT !.rc[s] = n] /\ n # 0
    BY <1>2, <1>5, <1>7, Fine(h, s) DEF Unref, Reports
  <2>2. h.rc \in [Struct -> Int] /\ [h.rc EXCEPT ![s] = n] \in [Struct -> Int]
    BY <1>1, <1>3, HeapParts
  <2>3. g \in Heaps
    BY <1>1, <2>1, <2>2 DEF Heaps
  <2>4. /\ g.table = h.table /\ g.parent = h.parent /\ g.children = h.children
        /\ g.state = h.state /\ g.rc = [h.rc EXCEPT ![s] = n] /\ g.held = h.held
        /\ g.memory = h.memory /\ g.live = h.live /\ g.reported = h.reported
    BY <1>1, <2>1 DEF Heaps
  <2>5. h.held = [h.held EXCEPT ![s] = @ + n - n]
    BY <1>1, <1>3, HeapParts
  <2>6. h.memory = [h.memory EXCEPT ![s] = IF n = 0 THEN "freed" ELSE @]
    BY <1>1, <2>1, HeapParts
  <2>7. QED
    BY <1>1, <1>3, <1>4, <1>5, <1>6, <2>3, <2>4, <2>5, <2>6
<1>8. CASE Reports(h, s, n, defunct) /\ hears = "returns"
  <2>1. g = [h EXCEPT !.state = "stack overflow"]
    BY <1>2, <1>5, <1>8, Fine(h, s) DEF Unref
  <2>2. /\ g \in Heaps /\ g.table = h.table /\ g.parent = h.parent /\ g.children = h.children
        /\ g.state = "stack overflow" /\ g.memory = h.memory
    BY <1>1, <2>1 DEF Heaps
  <2>3. Linked(g)
    BY <1>1, <2>2, SameLinks
  <2>4. QED
    BY <1>1, <1>4, <1>5, <2>2, <2>3 DEF HeapOK, Adds
<1>9. CASE Reports(h, s, n, defunct) /\ hears # "returns"
  <2>1. PICK after : after = IF hears = "keeps" /\ n <= 1 THEN 2 ELSE n
    OBVIOUS
  <2>2. after \in Nat /\ after >= n
    BY <1>3, <2>1
  <2>3. g = [h EXCEPT !.rc[s] = after, !.held[s] = @ + after - n, !.live = @ \ {s},
                      !.reported = @ \cup {s},
                      !.memory[s] = IF after = 0 THEN "freed" ELSE @]
    BY <1>2, <1>5, <1>9, <2>1, Fine(h, s) DEF Unref
  <2>4. /\ [h.rc EXCEPT ![s] = after] \in [Struct -> Int]
        /\ [h.held EXCEPT ![s] = @ + after - n] \in [Struct -> Nat]
        /\ [h.memory EXCEPT ![s] = IF after = 0 THEN "freed" ELSE @]
             \in [Struct -> {"new", "used", "freed"}]
        /\ h.live \ {s} \in SUBSET Struct /\ h.reported \cup {s} \in SUBSET Struct
    BY <1>1, <1>3, <2>2, HeapParts
  <2>5. g \in Heaps
    BY <1>1, <2>3, <2>4 DEF Heaps
  <2>6. /\ g.table = h.table /\ g.parent = h.parent /\ g.children = h.children
        /\ g.state = h.state /\ g.rc = [h.rc EXCEPT ![s] = after]
        /\ g.held = [h.held EXCEPT ![s] = @ + after - n]
        /\ g.memory = [h.memory EXCEPT ![s] = IF after = 0 THEN "freed" ELSE @]
        /\ g.live = h.live \ {s} /\ g.reported = h.reported \cup {s}
    BY <1>1, <2>3 DEF Heaps
  <2>7. g.live \cup g.reported = h.live \cup h.reported \cup {s}
    BY <2>6
  <2>8. g.state = "running"
    BY <1>1, <2>6
  <2>9. /\ HeapOK(g, z)
        /\ \A t \in Struct : t # s => g.memory[t] = h.memory[t]
        /\ g.memory[s] # "new"
        /\ h.rc[s] > 1 => g.memory[s] = "used"
    <3>1. /\ g \in Heaps /\ g.table = h.table /\ g.parent = h.parent
          /\ g.children = h.children /\ g.state = "running"
          /\ g.rc = [h.rc EXCEPT ![s] = after]
          /\ g.held = [h.held EXCEPT ![s] = @ + after - n]
          /\ g.memory = [h.memory EXCEPT ![s] = IF after = 0 THEN "freed" ELSE @]
          /\ g.live \cup g.reported = h.live \cup h.reported \cup {s}
             \/ (g.live \cup g.reported = h.live \cup h.reported /\ after = n)
      BY <2>5, <2>6, <2>7, <2>8, Zenon
    <3>2. QED
      BY <1>1, <1>6, <2>2, <3>1, Zenon
  <2>10. QED
    BY <1>4, <1>5, <2>6, <2>8, <2>9
<1>10. QED
  BY <1>7, <1>8, <1>9

\* g is h with a reference to what is at p
Found(h, g, p, a, y) ==
  /\ a = g.table[p] /\ HeapOK(g, More(y, a, 1)) /\ FreedIsOut(g)
  /\ g.parent = h.parent /\ g.children = h.children
  /\ \A q \in Path : q # p => g.table[q] = h.table[q]
  /\ \A t \in Struct : t # a => g.memory[t] = h.memory[t]
  /\ \A t \in Struct : h.memory[t] = "used" => g.memory[t] = "used"
  /\ \A t \in Struct : In(h, t) => In(g, t)
  /\ g.state = "running" => h.state = "running" /\ g.memory[a] = "used" /\ g.rc[a] > 1
  /\ g.state # "running" => g.state = h.state \/ Stole

LEMMA ChildFound ==
  ASSUME NEW h, NEW y \in [Struct -> Int], HeapOK(h, y), FreedIsOut(h), NEW p \in Path,
         \E t \in Struct : h.memory[t] = "new"
  PROVE  \E a \in Struct : Found(h, RefAccessible(h, p), p, a, y)
<1>1. h \in Heaps /\ Linked(h) /\ Adds(h, y)
  BY DEF HeapOK
<1>2. PICK g : g = RefAccessible(h, p)
  OBVIOUS
<1>3. CASE h.table[p] # Nil
  <2>1. PICK a \in Struct : a = h.table[p]
    BY <1>1, <1>3, HeapParts
  <2>2. g = Ref(h, a)
    BY <1>2, <1>3, <2>1 DEF RefAccessible
  <2>3. CASE Fine(h, a)
    <3>1. /\ HeapOK(g, More(y, a, 1))
          /\ g.table = h.table /\ g.memory = h.memory /\ g.parent = h.parent
          /\ g.children = h.children
          /\ g.state = "running" /\ g.rc[a] = h.rc[a] + 1
      BY <2>2, <2>3, ChildRefKeeps
    <3>2. h.state = "running" /\ h.memory[a] = "used"
      BY <2>3 DEF Fine
    <3>3. h.rc[a] > 0 /\ h.rc[a] \in Int
      BY <1>1, <3>2, HeapParts DEF Adds
    <3>4. FreedIsOut(g)
      BY <3>1 DEF FreedIsOut
    <3>5. g.rc[a] > 1
      BY <3>1, <3>3
    <3>6. \A t : In(h, t) => In(g, t)
      BY <3>1 DEF In
    <3>7. QED
      BY <1>2, <1>3, <2>1, <3>1, <3>2, <3>4, <3>5, <3>6 DEF Found
  <2>4. CASE ~Fine(h, a)
    <3>1. g = Broken(h)
      BY <2>2, <2>4 DEF Ref
    <3>2. /\ g.state # "running" /\ HeapOK(g, More(y, a, 1))
          /\ g.table = h.table /\ g.memory = h.memory /\ g.parent = h.parent
          /\ g.children = h.children
          /\ h.state # "running" => g = h
      BY <1>1, <3>1, BrokenKeeps
    <3>3. FreedIsOut(g)
      BY <3>2 DEF FreedIsOut
    <3>4. \A t : In(h, t) => In(g, t)
      BY <3>2 DEF In
    <3>5. h.state = "running" => Stole
      <4>1. h.memory[a] # "new"
        BY <1>1, <1>3, <2>1 DEF Linked
      <4>2. SUFFICES ASSUME h.state = "running" PROVE stolen[a] > 0
        BY DEF Stole
      <4>3. h.memory[a] # "used"
        BY <2>4, <4>2 DEF Fine
      <4>4. h.memory[a] = "freed"
        BY <1>1, <4>1, <4>3, HeapParts
      <4>5. QED
        BY <1>3, <2>1, <4>4 DEF FreedIsOut
    <3>6. QED
      BY <1>2, <1>3, <2>1, <3>2, <3>3, <3>4, <3>5 DEF Found
  <2>5. QED
    BY <2>3, <2>4
<1>4. CASE h.table[p] = Nil
  <2>1. PICK a \in Struct : a = New(h) /\ h.memory[a] = "new"
    BY DEF New
  <2>2. g = [h EXCEPT !.table[p] = a, !.memory[a] = "used", !.rc[a] = 2]
    BY <1>2, <1>4, <2>1 DEF RefAccessible
  <2>3. /\ h.table \in [Path -> Struct \cup {Nil}] /\ h.rc \in [Struct -> Int]
        /\ h.memory \in [Struct -> {"new", "used", "freed"}] /\ h.held \in [Struct -> Nat]
    BY <1>1, HeapParts
  <2>4. /\ [h.table EXCEPT ![p] = a] \in [Path -> Struct \cup {Nil}]
        /\ [h.memory EXCEPT ![a] = "used"] \in [Struct -> {"new", "used", "freed"}]
        /\ [h.rc EXCEPT ![a] = 2] \in [Struct -> Int]
    BY <2>3
  <2>5. g \in Heaps
    BY <1>1, <2>2, <2>4 DEF Heaps
  <2>6. /\ g.table = [h.table EXCEPT ![p] = a] /\ g.parent = h.parent
        /\ g.children = h.children /\ g.state = h.state
        /\ g.rc = [h.rc EXCEPT ![a] = 2] /\ g.held = h.held
        /\ g.memory = [h.memory EXCEPT ![a] = "used"]
        /\ g.live = h.live /\ g.reported = h.reported
    BY <1>1, <2>2 DEF Heaps
  <2>7. /\ g.table[p] = a /\ \A q \in Path : q # p => g.table[q] = h.table[q]
        /\ g.memory[a] = "used" /\ \A t \in Struct : t # a => g.memory[t] = h.memory[t]
        /\ g.rc[a] = 2 /\ \A t \in Struct : t # a => g.rc[t] = h.rc[t]
    BY <2>3, <2>6
  <2>8. \A q \in Path : h.table[q] # a
    <3>1. Nil # a
      BY ObjectsAssumption
    <3>2. QED
      BY <1>1, <2>1, <3>1 DEF Linked
  <2>9. In(g, a) /\ ~In(h, a) /\ \A t \in Struct : t # a => (In(g, t) <=> In(h, t))
    <3>1. \A t \in Struct : t # Nil
      BY ObjectsAssumption
    <3>2. QED
      BY <1>4, <2>7, <2>8, <3>1 DEF In
  <2>10. Linked(g)
    <3>1. \A q, r \in Path : g.table[q] # Nil /\ g.table[q] = g.table[r] => q = r
      BY <1>1, <2>7, <2>8 DEF Linked
    <3>2. \A q \in Path : g.table[q] # Nil => g.memory[g.table[q]] # "new"
      <4> SUFFICES ASSUME NEW q \in Path, g.table[q] # Nil
                   PROVE  g.memory[g.table[q]] # "new"
        OBVIOUS
      <4>1. CASE q = p
        BY <2>7, <4>1
      <4>2. CASE q # p
        <5>1. h.table[q] \in Struct /\ h.table[q] # a /\ h.memory[h.table[q]] # "new"
          BY <1>1, <2>3, <2>7, <2>8, <4>2 DEF Linked
        <5>2. QED
          BY <2>7, <4>2, <5>1
      <4>3. QED
        BY <4>1, <4>2
    <3>3. \A s, t \in Struct : t \in g.children[s] /\ ~In(g, t) => g.parent[t] # s
      BY <1>1, <2>6, <2>9 DEF Linked
    <3>4. QED
      BY <3>1, <3>2, <3>3 DEF Linked
  <2>11. PICK z \in [Struct -> Int] :
           /\ z = More(y, a, 1)
           /\ \A t \in Struct : z[t] = IF t = a THEN y[t] + 1 ELSE y[t]
    <3>1. PICK z : z = More(y, a, 1)
      OBVIOUS
    <3>2. z \in [Struct -> Int] /\ \A t \in Struct : z[t] = IF t = a THEN y[t] + 1 ELSE y[t]
      BY <3>1 DEF More
    <3>3. QED
      BY <3>1, <3>2, Zenon
  <2>12. Adds(g, z)
    <3> SUFFICES ASSUME h.state = "running", NEW t \in Struct
                 PROVE  /\ g.memory[t] = "used" =>
                             g.rc[t] = One(In(g, t)) + g.held[t] + z[t] /\ g.rc[t] > 0
                        /\ g.memory[t] # "used" => One(In(g, t)) + g.held[t] + z[t] = 0
                        /\ g.held[t] > 0 => t \in g.live \cup g.reported
      BY <2>6 DEF Adds
    <3>1. /\ h.memory[t] = "used" => h.rc[t] = One(In(h, t)) + h.held[t] + y[t] /\ h.rc[t] > 0
          /\ h.memory[t] # "used" => One(In(h, t)) + h.held[t] + y[t] = 0
          /\ h.held[t] > 0 => t \in h.live \cup h.reported
      BY <1>1 DEF Adds
    <3>2. CASE t # a
      <4>1. g.rc[t] = h.rc[t] /\ g.held = h.held /\ g.memory[t] = h.memory[t] /\ z[t] = y[t]
        BY <2>6, <2>7, <2>11, <3>2
      <4>2. One(In(g, t)) = One(In(h, t))
        BY <2>9, <3>2 DEF One
      <4>3. QED
        BY <2>6, <3>1, <4>1, <4>2
    <3>3. CASE t = a
      <4>1. h.held[a] \in Nat /\ y[a] \in Int /\ h.held[a] + y[a] = 0
        BY <2>1, <2>3, <2>9, <3>1, <3>3 DEF One
      <4>2. z[a] = y[a] + 1 /\ One(In(g, a)) = 1
        BY <2>9, <2>11 DEF One
      <4>3. QED
        BY <2>6, <2>7, <3>1, <3>3, <4>1, <4>2
    <3>4. QED
      BY <3>2, <3>3
  <2>13. FreedIsOut(g)
    <3> SUFFICES ASSUME NEW q \in Path, g.table[q] # Nil, g.memory[g.table[q]] = "freed"
                 PROVE  stolen[g.table[q]] > 0
      BY DEF FreedIsOut
    <3>1. q # p /\ g.table[q] = h.table[q]
      BY <2>7
    <3>2. h.table[q] \in Struct /\ h.table[q] # a
      BY <2>3, <2>8, <3>1
    <3>3. QED
      BY <2>7, <3>1, <3>2 DEF FreedIsOut
  <2>14. \A t \in Struct : h.memory[t] = "used" => g.memory[t] = "used"
    BY <2>1, <2>7
  <2>15. QED
    BY <1>2, <2>5, <2>6, <2>7, <2>9, <2>10, <2>11, <2>12, <2>13, <2>14 DEF HeapOK, Found
<1>5. QED
  BY <1>3, <1>4

LEMMA ClaimsRestored ==
  ASSUME NEW y \in [Struct -> Int], NEW s \in Struct
  PROVE  More(More(y, s, 1), s, -1) = y
<1>1. PICK z : z = More(y, s, 1)
  OBVIOUS
<1>2. z \in [Struct -> Int] /\ \A t \in Struct : z[t] = IF t = s THEN y[t] + 1 ELSE y[t]
  BY <1>1, ClaimsChanged
<1>3. PICK w : w = More(z, s, -1)
  OBVIOUS
<1>4. w \in [Struct -> Int] /\ \A t \in Struct : w[t] = IF t = s THEN z[t] - 1 ELSE z[t]
  BY <1>2, <1>3 DEF More
<1>5. ASSUME NEW t \in Struct PROVE w[t] = y[t]
  <2>1. y[t] \in Int
    OBVIOUS
  <2>2. /\ w[t] = (IF t = s THEN z[t] - 1 ELSE z[t])
        /\ z[t] = (IF t = s THEN y[t] + 1 ELSE y[t])
    BY <1>2, <1>4
  <2>3. QED
    BY <2>1, <2>2
<1>6. w = y
  BY <1>4, <1>5
<1>7. QED
  BY <1>1, <1>3, <1>6

\* g is h after something was looked up at p
Touched(h, g, p, y) ==
  /\ g.table[p] \in Struct /\ HeapOK(g, y) /\ FreedIsOut(g)
  /\ g.parent = h.parent /\ g.children = h.children
  /\ \A q \in Path : q # p => g.table[q] = h.table[q]
  /\ \A t \in Struct : h.memory[t] = "used" => g.memory[t] = "used"
  /\ \A t \in Struct : In(h, t) => In(g, t)
  /\ g.state = "running" => h.state = "running"
  /\ g.state = "freed" => g.state = h.state \/ Stole

LEMMA ChildTouched ==
  ASSUME NEW h, NEW y \in [Struct -> Int], HeapOK(h, y), FreedIsOut(h), NEW p \in Path,
         \E t \in Struct : h.memory[t] = "new"
  PROVE  Touched(h, Touch(h, p), p, y)
<1>1. PICK f : f = RefAccessible(h, p)
  OBVIOUS
<1>a. PICK a \in Struct : Found(h, f, p, a, y)
  BY <1>1, ChildFound
<1>2. /\ a = f.table[p] /\ HeapOK(f, More(y, a, 1)) /\ FreedIsOut(f)
      /\ f.parent = h.parent /\ f.children = h.children
      /\ \A q \in Path : q # p => f.table[q] = h.table[q]
      /\ \A t \in Struct : h.memory[t] = "used" => f.memory[t] = "used"
      /\ \A t \in Struct : In(h, t) => In(f, t)
      /\ f.state = "running" => h.state = "running" /\ f.memory[a] = "used" /\ f.rc[a] > 1
      /\ f.state # "running" => f.state = h.state \/ Stole
  BY <1>a DEF Found
<1>3. PICK g : g = Unref(f, a, FALSE)
  OBVIOUS
<1>4. Touch(h, p) = g
  BY <1>1, <1>2, <1>3 DEF Touch
<1>5. CASE f.state = "running"
  <2>1. Fine(f, a)
    BY <1>2, <1>5 DEF Fine
  <2>2. PICK z \in [Struct -> Int] : z = More(y, a, 1) /\ HeapOK(f, z)
    BY <1>2, ClaimsChanged
  <2>3. Dropped(f, g, a, z)
    BY <1>3, <2>1, <2>2, ChildUnrefKeeps
  <2>4. /\ HeapOK(g, y)
        /\ g.table = f.table /\ g.parent = f.parent /\ g.children = f.children
        /\ g.state \in {"running", "stack overflow"}
        /\ \A t \in Struct : t # a => g.memory[t] = f.memory[t]
        /\ g.memory[a] = "used"
    BY <1>2, <1>5, <2>2, <2>3, ClaimsRestored DEF Dropped
  <2>5. \A t \in Struct : g.memory[t] = f.memory[t]
    BY <1>2, <1>5, <2>4
  <2>6. FreedIsOut(g)
    <3>1. \A q \in Path : f.table[q] # Nil => f.table[q] \in Struct
      BY <1>2, HeapParts DEF HeapOK
    <3> SUFFICES ASSUME NEW q \in Path, g.table[q] # Nil, g.memory[g.table[q]] = "freed"
                 PROVE  stolen[g.table[q]] > 0
      BY DEF FreedIsOut
    <3>2. f.table[q] = g.table[q] /\ f.memory[f.table[q]] = "freed"
      BY <2>4, <2>5, <3>1
    <3>3. QED
      BY <1>2, <3>2 DEF FreedIsOut
  <2>7. \A t \in Struct : In(h, t) => In(g, t)
    <3>1. \A t \in Struct : In(f, t) => In(g, t)
      BY <2>4 DEF In
    <3>2. QED
      BY <1>2, <3>1
  <2>8. QED
    BY <1>2, <1>4, <1>5, <2>4, <2>5, <2>6, <2>7 DEF Touched
<1>6. CASE f.state # "running"
  <2>1. g = Broken(f)
    BY <1>3, <1>6 DEF Unref, Fine
  <2>2. g = f /\ HeapOK(g, y)
    BY <1>2, <1>6, <2>1, BrokenKeeps DEF HeapOK
  <2>3. QED
    BY <1>2, <1>4, <1>6, <2>2 DEF Touched
<1>7. QED
  BY <1>5, <1>6

\* g is h after one of those that have a claim to s let go of it
LetGo(h, g, s, y) ==
  /\ HeapOK(g, More(y, s, -1)) /\ FreedIsOut(g) /\ Excused(g)
  /\ g.table = h.table /\ g.parent = h.parent /\ g.children = h.children
  /\ g.state = "running" => h.state = "running"
  /\ h.rc[s] > 1 /\ h.memory[s] = "used" => g.memory[s] = "used"

LEMMA ClaimDropped ==
  ASSUME NEW h, NEW y \in [Struct -> Int], HeapOK(h, y), FreedIsOut(h), Excused(h),
         NEW s \in Struct, stolen \in [Struct -> Nat], y[s] + stolen[s] > 0,
         NEW defunct
  PROVE  LetGo(h, Unref(h, s, defunct), s, y)
<1>1. h \in Heaps /\ Linked(h) /\ Adds(h, y)
  BY DEF HeapOK
<1>2. PICK g : g = Unref(h, s, defunct)
  OBVIOUS
<1>3. \A n \in Nat : n + y[s] = 0 => stolen[s] > 0
  OBVIOUS
<1>4. CASE Fine(h, s)
  <2>1. Dropped(h, g, s, y)
    BY <1>2, <1>4, ChildUnrefKeeps
  <2>2. h.state = "running" /\ h.memory[s] = "used" /\ \A t : In(g, t) = In(h, t)
    BY <1>4, <2>1 DEF Fine, Dropped, In
  <2>3. \A t \in Struct : t # s => g.memory[t] = h.memory[t]
    BY <2>1 DEF Dropped
  <2>4. FreedIsOut(g)
    <3> SUFFICES ASSUME NEW q \in Path, g.table[q] # Nil, g.memory[g.table[q]] = "freed"
                 PROVE  stolen[g.table[q]] > 0
      BY DEF FreedIsOut
    <3>1. g.table[q] = h.table[q] /\ h.table[q] \in Struct
      <4>1. g.table = h.table
        BY <2>1 DEF Dropped
      <4>2. QED
        BY <1>1, <4>1, TableEntry
    <3>2. CASE h.table[q] # s
      BY <2>3, <3>1, <3>2 DEF FreedIsOut
    <3>3. CASE h.table[q] = s
      <4>1. g.state = "running" /\ In(g, s)
        BY <2>1, <2>2, <3>1, <3>3 DEF Dropped, In
      <4>2. PICK w \in [Struct -> Int] : w = More(y, s, -1) /\ w[s] = y[s] - 1
        <5>1. PICK w : w = More(y, s, -1)
          OBVIOUS
        <5>2. w \in [Struct -> Int] /\ w[s] = y[s] - 1
          BY <5>1 DEF More
        <5>3. QED
          BY <5>1, <5>2, Zenon
      <4>3. g \in Heaps /\ Adds(g, w)
        BY <2>1, <4>2 DEF Dropped, HeapOK
      <4>4. One(In(g, s)) + g.held[s] + w[s] = 0
        BY <3>1, <3>3, <4>1, <4>3 DEF Adds
      <4>5. g.held[s] \in Nat /\ One(In(g, s)) = 1 /\ y[s] \in Int
        BY <4>1, <4>3, HeapParts DEF One
      <4>6. QED
        BY <1>3, <3>1, <3>3, <4>2, <4>4, <4>5
    <3>4. QED
      BY <3>2, <3>3
  <2>5. Excused(g)
    BY <2>1 DEF Dropped, Excused
  <2>6. QED
    BY <1>2, <2>1, <2>2, <2>4, <2>5 DEF Dropped, LetGo
<1>5. CASE ~Fine(h, s)
  <2>1. g = Broken(h)
    BY <1>2, <1>5 DEF Unref
  <2>2. /\ g.state # "running" /\ HeapOK(g, More(y, s, -1))
        /\ g.table = h.table /\ g.memory = h.memory /\ g.parent = h.parent
        /\ g.children = h.children
        /\ h.state # "running" => g = h
    BY <1>1, <2>1, BrokenKeeps
  <2>3. FreedIsOut(g)
    BY <2>2 DEF FreedIsOut
  <2>4. CASE h.state = "running"
    <3>1. h.memory[s] # "used"
      BY <1>5, <2>4 DEF Fine
    <3>2. One(In(h, s)) + h.held[s] + y[s] = 0
      BY <1>1, <2>4, <3>1 DEF Adds
    <3>3. One(In(h, s)) \in Nat /\ h.held[s] \in Nat
      BY <1>1, HeapParts DEF One
    <3>4. stolen[s] > 0
      BY <1>3, <3>2, <3>3
    <3>5. QED
      BY <1>2, <2>2, <2>3, <3>4 DEF Excused, Stole, LetGo
  <2>5. CASE h.state # "running"
    BY <1>2, <2>2, <2>3, <2>5 DEF LetGo
  <2>6. QED
    BY <2>4, <2>5
<1>6. QED
  BY <1>4, <1>5

SamePlaces(h, g) ==
  g.table = h.table /\ g.memory = h.memory /\ g.rc = h.rc /\ g.state = h.state

\* what is in the table gets another parent, or other children
LEMMA Repointed ==
  ASSUME NEW h, NEW y, HeapOK(h, y), NEW a \in Struct, NEW up \in Struct \cup {Nil},
         NEW kids \in SUBSET Struct,
         In(h, a) \/ up = h.parent[a], \A t \in kids : t \in h.children[a] \/ In(h, t)
  PROVE  LET g == [h EXCEPT !.parent[a] = up, !.children[a] = kids] IN
         HeapOK(g, y) /\ SamePlaces(h, g)
<1>1. h \in Heaps /\ Linked(h) /\ Adds(h, y)
  BY DEF HeapOK
<1>2. PICK g : g = [h EXCEPT !.parent[a] = up, !.children[a] = kids]
  OBVIOUS
<1>3. /\ [h.parent EXCEPT ![a] = up] \in [Struct -> Struct \cup {Nil}]
      /\ [h.children EXCEPT ![a] = kids] \in [Struct -> SUBSET Struct]
  BY <1>1, HeapParts
<1>4. g \in Heaps
  BY <1>1, <1>2, <1>3 DEF Heaps
<1>5. /\ g.table = h.table /\ g.memory = h.memory /\ g.rc = h.rc /\ g.state = h.state
      /\ g.held = h.held /\ g.live = h.live /\ g.reported = h.reported
      /\ g.parent = [h.parent EXCEPT ![a] = up]
      /\ g.children = [h.children EXCEPT ![a] = kids]
  BY <1>1, <1>2 DEF Heaps
<1>6. \A t : In(g, t) = In(h, t)
  BY <1>5 DEF In
<1>7. \A s, t \in Struct : t \in g.children[s] /\ ~In(g, t) => g.parent[t] # s
  <2> SUFFICES ASSUME NEW s \in Struct, NEW t \in Struct, t \in g.children[s], ~In(h, t)
               PROVE  g.parent[t] # s
    BY <1>6
  <2>1. g.parent[t] = h.parent[t]
    BY <1>1, <1>5, HeapParts
  <2>2. t \in h.children[s]
    BY <1>1, <1>5, HeapParts
  <2>3. QED
    BY <1>1, <2>1, <2>2 DEF Linked
<1>8. Linked(g)
  BY <1>1, <1>5, <1>7 DEF Linked
<1>9. Adds(g, y)
  BY <1>1, <1>5, SameCounts
<1>10. QED
  BY <1>2, <1>4, <1>5, <1>8, <1>9 DEF HeapOK, SamePlaces

\* cspi_dbus_handle_remove_accessible, up to where the table drops its reference
TakenFrom(g, p, a) == [Orphan(g, a) EXCEPT !.table[p] = Nil]

LEMMA TakenOut ==
  ASSUME NEW g, NEW y \in [Struct -> Int], HeapOK(g, y), FreedIsOut(g), NEW p \in Path,
         NEW a \in Struct, a = g.table[p], g.state = "running", g.memory[a] = "used",
         Orphan(g, a).state = "running"
  PROVE  /\ HeapOK(TakenFrom(g, p, a), More(y, a, 1)) /\ FreedIsOut(TakenFrom(g, p, a))
         /\ TakenFrom(g, p, a).state = "running"
<1>1. g \in Heaps /\ Linked(g) /\ Adds(g, y) /\ a # Nil
  BY ObjectsAssumption DEF HeapOK
<1>2. PICK o : o = Orphan(g, a)
  OBVIOUS
<1>3. PICK up \in Struct \cup {Nil} : up = g.parent[a]
  BY <1>1, HeapParts
<1>4. \E kids \in [Struct -> SUBSET Struct] :
        /\ o = [g EXCEPT !.children = kids]
        /\ \A s \in Struct : kids[s] \subseteq g.children[s]
        /\ up # Nil => a \notin kids[up]
  <2>1. CASE up = Nil
    <3>1. o = g /\ g.children \in [Struct -> SUBSET Struct]
      BY <1>1, <1>2, <1>3, <2>1, HeapParts DEF Orphan
    <3>2. g = [g EXCEPT !.children = g.children]
      BY <1>1 DEF Heaps
    <3>3. QED
      BY <2>1, <3>1, <3>2
  <2>2. CASE up # Nil
    <3>1. up \in Struct /\ g.children \in [Struct -> SUBSET Struct]
      BY <1>1, <2>2, HeapParts
    <3>2. Fine(g, up)
      <4>1. Broken(g).state # "running"
        BY <1>1, BrokenKeeps
      <4>2. QED
        BY <1>3, <2>2, <4>1 DEF Orphan
    <3>3. o = [g EXCEPT !.children[up] = @ \ {a}]
      BY <1>2, <1>3, <2>2, <3>2 DEF Orphan
    <3>4. PICK kids : kids = [g.children EXCEPT ![up] = @ \ {a}]
      OBVIOUS
    <3>5. o = [g EXCEPT !.children = kids]
      BY <1>1, <3>3, <3>4 DEF Heaps
    <3>6. /\ kids \in [Struct -> SUBSET Struct] /\ a \notin kids[up]
          /\ \A s \in Struct : kids[s] \subseteq g.children[s]
      BY <3>1, <3>4
    <3>7. QED
      BY <3>5, <3>6
  <2>3. QED
    BY <2>1, <2>2
<1>5. PICK kids \in [Struct -> SUBSET Struct] :
        /\ o = [g EXCEPT !.children = kids]
        /\ \A s \in Struct : kids[s] \subseteq g.children[s]
        /\ up # Nil => a \notin kids[up]
  BY <1>4
<1>6. PICK h : h = [o EXCEPT !.table[p] = Nil]
  OBVIOUS
<1>7. PICK table1 \in [Path -> Struct \cup {Nil}] :
        /\ table1 = [g.table EXCEPT ![p] = Nil]
        /\ table1[p] = Nil /\ \A q \in Path : q # p => table1[q] = g.table[q]
  <2>1. PICK table1 : table1 = [g.table EXCEPT ![p] = Nil]
    OBVIOUS
  <2>2. /\ table1 \in [Path -> Struct \cup {Nil}] /\ table1[p] = Nil
        /\ \A q \in Path : q # p => table1[q] = g.table[q]
    BY <1>1, <2>1, HeapParts
  <2>3. QED
    BY <2>1, <2>2, Zenon
<1>8. h = [g EXCEPT !.children = kids, !.table = table1]
  BY <1>1, <1>5, <1>6, <1>7 DEF Heaps
<1>9. /\ h \in Heaps /\ h.table = table1 /\ h.children = kids /\ h.parent = g.parent
      /\ h.rc = g.rc /\ h.memory = g.memory /\ h.held = g.held /\ h.live = g.live
      /\ h.reported = g.reported /\ h.state = "running"
  BY <1>1, <1>8 DEF Heaps
<1>10. \A q \in Path : q # p => g.table[q] # a
  BY <1>1 DEF Linked
<1>11. In(g, a) /\ ~In(h, a) /\ \A t \in Struct : t # a => (In(h, t) <=> In(g, t))
  <2>1. \A t \in Struct : t # Nil
    BY ObjectsAssumption
  <2>2. QED
    BY <1>7, <1>9, <1>10, <2>1 DEF In
<1>12. Linked(h)
  <2>1. \A q, r \in Path : h.table[q] # Nil /\ h.table[q] = h.table[r] => q = r
    BY <1>1, <1>7, <1>9 DEF Linked
  <2>2. \A q \in Path : h.table[q] # Nil => h.memory[h.table[q]] # "new"
    BY <1>1, <1>7, <1>9 DEF Linked
  <2>3. ASSUME NEW s \in Struct, NEW t \in Struct, t \in h.children[s], ~In(h, t)
        PROVE  h.parent[t] # s
    <3>1. CASE t = a
      <4>1. h.parent[a] = up /\ s # Nil
        BY <1>3, <1>9, ObjectsAssumption
      <4>2. QED
        BY <1>5, <1>9, <2>3, <3>1, <4>1
    <3>2. CASE t # a
      <4>1. t \in g.children[s] /\ ~In(g, t)
        BY <1>5, <1>9, <1>11, <2>3, <3>2
      <4>2. QED
        BY <1>1, <1>9, <4>1 DEF Linked
    <3>3. QED
      BY <3>1, <3>2
  <2>4. QED
    BY <2>1, <2>2, <2>3 DEF Linked
<1>13. PICK z \in [Struct -> Int] :
         /\ z = More(y, a, 1)
         /\ \A t \in Struct : z[t] = IF t = a THEN y[t] + 1 ELSE y[t]
  <2>1. PICK z : z = More(y, a, 1)
    OBVIOUS
  <2>2. z \in [Struct -> Int] /\ \A t \in Struct : z[t] = IF t = a THEN y[t] + 1 ELSE y[t]
    BY <2>1 DEF More
  <2>3. QED
    BY <2>1, <2>2, Zenon
<1>14. Adds(h, z)
  <2> SUFFICES ASSUME NEW t \in Struct
               PROVE  /\ h.memory[t] = "used" =>
                           h.rc[t] = One(In(h, t)) + h.held[t] + z[t] /\ h.rc[t] > 0
                      /\ h.memory[t] # "used" => One(In(h, t)) + h.held[t] + z[t] = 0
                      /\ h.held[t] > 0 => t \in h.live \cup h.reported
    BY DEF Adds
  <2>1. /\ g.memory[t] = "used" => g.rc[t] = One(In(g, t)) + g.held[t] + y[t] /\ g.rc[t] > 0
        /\ g.memory[t] # "used" => One(In(g, t)) + g.held[t] + y[t] = 0
        /\ g.held[t] > 0 => t \in g.live \cup g.reported
    BY <1>1 DEF Adds
  <2>2. g.held[t] \in Nat /\ y[t] \in Int
    BY <1>1, HeapParts
  <2>3. One(In(h, t)) + g.held[t] + z[t] = One(In(g, t)) + g.held[t] + y[t]
    <3>1. CASE t = a
      <4>1. One(In(h, t)) = 0 /\ One(In(g, t)) = 1 /\ z[t] = y[t] + 1
        BY <1>11, <1>13, <3>1 DEF One
      <4>2. QED
        BY <2>2, <4>1
    <3>2. CASE t # a
      <4>1. One(In(h, t)) = One(In(g, t))
        BY <1>11, <3>2 DEF One
      <4>2. z[t] = y[t]
        BY <1>13, <3>2
      <4>3. QED
        BY <4>1, <4>2
    <3>3. QED
      BY <3>1, <3>2
  <2>4. QED
    BY <1>9, <2>1, <2>3
<1>15. FreedIsOut(h)
  BY <1>7, <1>9 DEF FreedIsOut
<1>16. QED
  BY <1>2, <1>6, <1>9, <1>12, <1>13, <1>14, <1>15 DEF HeapOK, TakenFrom

\* an operation on the heap that nobody else takes part in
LEMMA HeapBecomes ==
  ASSUME NEW h, NEW y, HeapOK(h, y), FreedIsOut(h), Excused(h) \/ overheard' # {},
         Becomes(h), Others' = y, stolen' = stolen,
         overheard \subseteq overheard', overheard' \subseteq Struct
  PROVE  /\ heap' = h /\ (heap \in Heaps)' /\ HeapOK(heap, Others)'
         /\ FreedIsOut(heap)' /\ Excused(heap)'
<1>1. h \in Heaps
  BY DEF HeapOK
<1>2. heap' = h
  BY <1>1 DEF Becomes, heap, Heaps
<1>3. (heap \in Heaps)' /\ HeapOK(heap, Others)'
  BY <1>1, <1>2
<1>4. FreedIsOut(heap)'
  BY <1>2 DEF FreedIsOut
<1>5. Excused(heap)'
  <2>1. \A t : In(heap, t)' = In(h, t)
    BY <1>2 DEF In
  <2>2. CASE Stole \/ overheard' # {}
    BY <2>2 DEF Excused, Stole
  <2>3. CASE \E s, t \in Struct : /\ h.memory[s] = "used" /\ ~In(h, t)
                                  /\ t = h.parent[s] \/ (t \in h.children[s] /\ h.parent[t] # s)
    BY <1>2, <2>1, <2>3, Zenon DEF Excused
  <2>4. CASE h.state # "freed"
    BY <1>2, <2>4 DEF Excused
  <2>5. QED
    BY <2>2, <2>3, <2>4 DEF Excused
<1>6. QED
  BY <1>2, <1>3, <1>4, <1>5

LEMMA OthersType ==
  ASSUME ObjectsTypeOK
  PROVE  /\ Others \in [Struct -> Int]
         /\ \A s \in Struct : Others[s] = kept[s] + One(mine = s) - stolen[s]
<1>1. \A s \in Struct : kept[s] + One(mine = s) - stolen[s] \in Int
  BY DEF ObjectsTypeOK, One
<1>2. QED
  BY <1>1 DEF Others

\* the claims that are neither the table's nor the client's change by one
LEMMA OthersMove ==
  ASSUME ObjectsTypeOK, NEW s \in Struct, NEW n \in Int,
         \A t \in Struct : kept'[t] + One(mine' = t) - stolen'[t] =
             (IF t = s THEN kept[t] + One(mine = t) - stolen[t] + n
              ELSE kept[t] + One(mine = t) - stolen[t])
  PROVE  Others' = More(Others, s, n)
<1>1. \A t \in Struct : Others[t] = kept[t] + One(mine = t) - stolen[t]
  BY OthersType
<1>2. \A t \in Struct : kept'[t] + One(mine' = t) - stolen'[t] =
        IF t = s THEN Others[t] + n ELSE Others[t]
  BY <1>1
<1>3. QED
  BY <1>2 DEF Others, More

LEMMA IdleHandlers ==
  ASSUME ObjectsInv, mine = Nil
  PROVE  adding = {} /\ visits = <<>>
BY DEF ObjectsInv, HandlersInv

LEMMA NoVisits ==
  ASSUME visits' = <<>>, adding' # {} => mine' # Nil
  PROVE  HandlersInv'
BY DEF HandlersInv

\* an operation on the heap in which nobody is visited and nothing is stolen
LEMMA HeapSettles ==
  ASSUME ObjectsInv, NEW h, NEW y, HeapOK(h, y), FreedIsOut(h),
         Excused(h) \/ overheard' # {}, Becomes(h),
         Others' = y, UNCHANGED <<hears, stolen>>,
         visits' = <<>>, adding' # {} => mine' # Nil, adding' \in SUBSET Path,
         mine' \in Struct \cup {Nil}, kept' \in [Struct -> Nat],
         atDesktop' \in Struct \cup {Nil, "gone"},
         EventRefsInv', overheard \subseteq overheard'
  PROVE  ObjectsInv'
<1>0. overheard' \subseteq Struct
  BY DEF EventRefsInv
<1>1. /\ (heap \in Heaps)' /\ HeapOK(heap, Others)' /\ FreedIsOut(heap)' /\ Excused(heap)'
  BY <1>0, HeapBecomes
<1>2. ObjectsTypeOK'
  <2>1. visits' \in Seq(Struct \X SUBSET Struct)
    OBVIOUS
  <2>2. QED
    BY <1>1, <2>1 DEF ObjectsInv, ObjectsTypeOK
<1>3. HandlersInv'
  BY NoVisits
<1>4. QED
  BY <1>1, <1>2, <1>3 DEF ObjectsInv

\* the references for events are as they were
LEMMA SameEventRefs ==
  ASSUME EventRefsInv, UNCHANGED <<atDesktop, eventRefs, kept, stolen>>
  PROVE  EventRefsInv' /\ overheard \subseteq overheard' /\ overheard' \subseteq Struct
BY DEF EventRefsInv, eventRefs

LEMMA HeapFields ==
  /\ heap.table = table /\ heap.rc = rc /\ heap.memory = memory /\ heap.parent = parent
  /\ heap.children = children /\ heap.live = live /\ heap.held = held
  /\ heap.reported = reported /\ heap.state = state
BY DEF heap

\* what is looked up in the heap, which is idle
LEMMA IdleFound ==
  ASSUME ObjectsInv, Idle, Room, NEW p \in Path
  PROVE  LET g == RefAccessible(heap, p)
             a == g.table[p]
         IN
         /\ a \in Struct /\ HeapOK(g, More(Others, a, 1)) /\ FreedIsOut(g) /\ Excused(g)
         /\ g.parent = parent /\ g.children = children /\ In(g, a)
         /\ \E t \in Struct : g.memory[t] = "new"
         /\ \A t \in Struct : memory[t] = "used" => g.memory[t] = "used"
         /\ g.state = "running" => g.memory[a] = "used" /\ g.rc[a] > 1
         /\ g.state # "running" => Stole
<1>1. PICK g : g = RefAccessible(heap, p)
  OBVIOUS
<1>2. /\ HeapOK(heap, Others) /\ FreedIsOut(heap) /\ Others \in [Struct -> Int]
      /\ \E t \in Struct : heap.memory[t] = "new"
  BY HeapFields, OthersType DEF ObjectsInv, Room
<1>a. PICK a \in Struct : Found(heap, g, p, a, Others)
  BY <1>1, <1>2, ChildFound
<1>3. /\ a = g.table[p] /\ HeapOK(g, More(Others, a, 1)) /\ FreedIsOut(g)
      /\ g.parent = heap.parent /\ g.children = heap.children
      /\ \A t \in Struct : t # a => g.memory[t] = heap.memory[t]
      /\ \A t \in Struct : heap.memory[t] = "used" => g.memory[t] = "used"
      /\ g.state = "running" => heap.state = "running" /\ g.memory[a] = "used" /\ g.rc[a] > 1
      /\ g.state # "running" => g.state = heap.state \/ Stole
  BY <1>a DEF Found
<1>4. In(g, a)
  BY <1>3 DEF In
<1>5. \E t \in Struct : g.memory[t] = "new"
  BY <1>3, HeapFields DEF Room
<1>6. g.state # "running" => Stole
  BY <1>3, HeapFields DEF Idle, Excused, ObjectsInv
<1>7. Excused(g)
  BY <1>6 DEF Excused
<1>8. QED
  BY <1>1, <1>3, <1>4, <1>5, <1>6, <1>7, HeapFields

FoundAt(p) == RefAccessible(heap, p).table[p]

\* handle_addition, up to its loop
Updated(p, q) ==
  LET g == RefAccessible(heap, p)
      a == g.table[p]
      h == IF q = Nil THEN g ELSE Touch(g, q)
  IN  IF h.state # "running" THEN h
      ELSE [h EXCEPT !.parent[a] = IF q = Nil THEN Nil ELSE h.table[q], !.children[a] = {}]

LEMMA UpdatedHeap ==
  ASSUME ObjectsInv, Idle, Room, NEW p \in Path, NEW q \in Path \cup {Nil}
  PROVE  /\ FoundAt(p) \in Struct
         /\ HeapOK(Updated(p, q), More(Others, FoundAt(p), 1))
         /\ FreedIsOut(Updated(p, q)) /\ Excused(Updated(p, q))
<1>1. ObjectsTypeOK
  BY DEF ObjectsInv
<1>3. PICK g : g = RefAccessible(heap, p)
  OBVIOUS
<1>4. PICK a \in Struct :
        /\ a = g.table[p]
        /\ HeapOK(g, More(Others, a, 1)) /\ FreedIsOut(g) /\ Excused(g) /\ In(g, a)
        /\ \E t \in Struct : g.memory[t] = "new"
        /\ g.state # "running" => Stole
  BY <1>3, IdleFound
<1>5. PICK y \in [Struct -> Int] : y = More(Others, a, 1)
  <2>1. Others \in [Struct -> Int]
    BY <1>1, OthersType
  <2>2. QED
    BY <2>1, ClaimsChanged
<1>6. PICK h : h = IF q = Nil THEN g ELSE Touch(g, q)
  OBVIOUS
<1>7. /\ HeapOK(h, y) /\ FreedIsOut(h) /\ Excused(h) /\ In(h, a)
      /\ q # Nil => h.table[q] \in Struct
  <2>1. CASE q = Nil
    BY <1>4, <1>5, <1>6, <2>1
  <2>2. CASE q # Nil
    <3>1. /\ h = Touch(g, q) /\ HeapOK(g, y) /\ FreedIsOut(g) /\ q \in Path
          /\ \E t \in Struct : g.memory[t] = "new"
      BY <1>4, <1>5, <1>6, <2>2
    <3>a. Touched(g, h, q, y)
      BY <3>1, ChildTouched
    <3>2. /\ h.table[q] \in Struct /\ HeapOK(h, y) /\ FreedIsOut(h)
          /\ \A t \in Struct : In(g, t) => In(h, t)
          /\ h.state = "freed" => h.state = g.state \/ Stole
      BY <3>a DEF Touched
    <3>3. Excused(h)
      BY <1>4, <3>2 DEF Excused
    <3>4. QED
      BY <1>4, <3>1, <3>2, <3>3
  <2>3. QED
    BY <2>1, <2>2
<1>8. PICK up \in Struct \cup {Nil} : up = IF q = Nil THEN Nil ELSE h.table[q]
  BY <1>7
<1>9. PICK k : k = IF h.state # "running" THEN h
                   ELSE [h EXCEPT !.parent[a] = up, !.children[a] = {}]
  OBVIOUS
<1>10. HeapOK(k, y) /\ FreedIsOut(k) /\ Excused(k)
  <2>1. CASE h.state # "running"
    BY <1>7, <1>9, <2>1
  <2>2. CASE h.state = "running"
    <3>1. PICK kids \in SUBSET Struct : kids = {}
      OBVIOUS
    <3>2. /\ HeapOK(h, y) /\ (In(h, a) \/ up = h.parent[a])
          /\ \A t \in kids : t \in h.children[a] \/ In(h, t)
      BY <1>7, <3>1
    <3>3. k = [h EXCEPT !.parent[a] = up, !.children[a] = kids]
      BY <1>9, <2>2, <3>1
    <3>4. HeapOK(k, y) /\ SamePlaces(h, k)
      BY <3>2, <3>3, Repointed
    <3>5. FreedIsOut(k) /\ Excused(k)
      BY <1>7, <2>2, <3>4 DEF FreedIsOut, Excused, SamePlaces
    <3>6. QED
      BY <3>4, <3>5
  <2>3. QED
    BY <2>1, <2>2
<1>11. k = Updated(p, q) /\ a = FoundAt(p)
  BY <1>3, <1>4, <1>6, <1>8, <1>9 DEF Updated, FoundAt
<1>12. QED
  BY <1>4, <1>5, <1>10, <1>11

LEMMA UpdateKeeps ==
  ASSUME ObjectsInv, NEW u \in Updates, UpdateAccessible(u)
  PROVE  ObjectsInv'
<1>1. /\ Idle /\ Room /\ adding = {} /\ visits = <<>> /\ mine = Nil /\ state = "running"
      /\ ObjectsTypeOK
  BY IdleHandlers DEF UpdateAccessible, Idle, ObjectsInv
<1>2. u[1] \in Path /\ u[2] \in Path \cup {Nil} /\ u[3] \in SUBSET Path
  BY ObjectsAssumption
<1>3. PICK a : a = FoundAt(u[1])
  OBVIOUS
<1>4. PICK k : k = Updated(u[1], u[2])
  OBVIOUS
<1>5. PICK y : y = More(Others, a, 1)
  OBVIOUS
<1>10. Becomes(k) /\ mine' = a
  BY <1>3, <1>4, Zenon DEF UpdateAccessible, Updated, FoundAt
<1>11. a \in Struct /\ HeapOK(k, y) /\ FreedIsOut(k) /\ Excused(k)
  BY <1>1, <1>2, <1>3, <1>4, <1>5, UpdatedHeap
<1>12. /\ adding' = u[3]
       /\ UNCHANGED <<visits, atDesktop, hears, eventRefs, kept, stolen>>
  BY DEF UpdateAccessible
<1>13. Others' = y
  <2>1. a \in Struct /\ a # Nil
    BY <1>11, ObjectsAssumption
  <2>2. \A t \in Struct : kept'[t] + One(mine' = t) - stolen'[t] =
          (IF t = a THEN kept[t] + One(mine = t) - stolen[t] + 1
           ELSE kept[t] + One(mine = t) - stolen[t])
    <3>1. \A t \in Struct : kept[t] \in Int /\ stolen[t] \in Int /\ t # Nil
      BY <1>1, ObjectsAssumption DEF ObjectsTypeOK
    <3>2. QED
      BY <1>1, <1>10, <1>12, <2>1, <3>1 DEF One
  <2>3. QED
    BY <1>1, <1>5, <2>1, <2>2, OthersMove
<1>14. /\ adding' \in SUBSET Path /\ mine' \in Struct \cup {Nil} /\ mine' # Nil
       /\ visits' = <<>> /\ kept' \in [Struct -> Nat] /\ atDesktop' \in Struct \cup {Nil, "gone"}
       /\ EventRefsInv' /\ overheard \subseteq overheard'
  BY SameEventRefs, <1>1, <1>2, <1>10, <1>11, <1>12, ObjectsAssumption DEF ObjectsInv, ObjectsTypeOK
<1>15. QED
  BY <1>10, <1>11, <1>12, <1>13, <1>14, HeapSettles

LEMMA AddChildKeeps ==
  ASSUME ObjectsInv, NEW p \in Path, AddChild(p)
  PROVE  ObjectsInv'
<1>1. /\ state = "running" /\ Room /\ adding # {} /\ visits = <<>> /\ mine \in Struct
      /\ ObjectsTypeOK
  BY DEF AddChild, ObjectsInv, HandlersInv, ObjectsTypeOK
<1>2. PICK y \in [Struct -> Int] : y = Others
  BY <1>1, OthersType
<1>3. PICK a \in Struct : a = mine
  BY <1>1
<1>4. PICK h : h = Touch(heap, p)
  OBVIOUS
<1>5. Touched(heap, h, p, y)
  <2>1. HeapOK(heap, y) /\ FreedIsOut(heap) /\ \E t \in Struct : heap.memory[t] = "new"
    BY <1>1, <1>2, HeapFields DEF ObjectsInv, Room
  <2>2. QED
    BY <1>4, <2>1, ChildTouched
<1>6. /\ HeapOK(h, y) /\ FreedIsOut(h) /\ Excused(h) /\ h \in Heaps
      /\ h.table[p] \in Struct /\ In(h, h.table[p])
  BY <1>1, <1>5, HeapFields DEF Touched, Excused, In, HeapOK
<1>7. PICK kids \in SUBSET Struct : kids = h.children[a] \cup {h.table[p]}
  BY <1>6, HeapParts
<1>8. PICK k : k = IF h.state # "running" THEN h ELSE [h EXCEPT !.children[a] = kids]
  OBVIOUS
<1>9. Becomes(k)
  BY <1>3, <1>4, <1>7, <1>8, Zenon DEF AddChild
<1>10. HeapOK(k, y) /\ FreedIsOut(k) /\ Excused(k)
  <2>1. CASE h.state # "running"
    BY <1>6, <1>8, <2>1
  <2>2. CASE h.state = "running"
    <3>1. PICK up \in Struct \cup {Nil} : up = h.parent[a]
      BY <1>6, HeapParts
    <3>2. /\ HeapOK(h, y) /\ (In(h, a) \/ up = h.parent[a])
          /\ \A t \in kids : t \in h.children[a] \/ In(h, t)
      BY <1>6, <1>7, <3>1
    <3>3. k = [h EXCEPT !.parent[a] = up, !.children[a] = kids]
      <4>1. h.parent = [h.parent EXCEPT ![a] = up]
        BY <1>6, <3>1, HeapParts
      <4>2. QED
        BY <1>6, <1>8, <2>2, <4>1 DEF Heaps
    <3>4. HeapOK(k, y) /\ SamePlaces(h, k)
      BY <3>2, <3>3, Repointed
    <3>5. FreedIsOut(k) /\ Excused(k)
      BY <1>6, <2>2, <3>4 DEF FreedIsOut, Excused, SamePlaces
    <3>6. QED
      BY <3>4, <3>5
  <2>3. QED
    BY <2>1, <2>2
<1>11. /\ adding' = adding \ {p}
       /\ UNCHANGED <<mine, visits, atDesktop, hears, eventRefs, kept, stolen>>
  BY DEF AddChild
<1>12. Others' = y
  BY <1>2, <1>11 DEF Others
<1>13. /\ adding' \in SUBSET Path /\ mine' \in Struct \cup {Nil} /\ mine' # Nil
       /\ visits' = <<>> /\ kept' \in [Struct -> Nat] /\ atDesktop' \in Struct \cup {Nil, "gone"}
       /\ EventRefsInv' /\ overheard \subseteq overheard'
  BY SameEventRefs, <1>1, <1>11, ObjectsAssumption DEF ObjectsInv, ObjectsTypeOK
<1>14. QED
  BY <1>9, <1>10, <1>11, <1>12, <1>13, HeapSettles

LEMMA AdditionDoneKeeps ==
  ASSUME ObjectsInv, AdditionDone
  PROVE  ObjectsInv'
<1>1. /\ state = "running" /\ adding = {} /\ visits = <<>> /\ mine \in Struct
      /\ ObjectsTypeOK
  BY DEF AdditionDone, ObjectsInv, ObjectsTypeOK
<1>2. PICK y \in [Struct -> Int] : y = Others
  BY <1>1, OthersType
<1>3. PICK a \in Struct : a = mine
  BY <1>1
<1>4. PICK k : k = Unref(heap, a, FALSE)
  OBVIOUS
<1>5. /\ Becomes(k) /\ mine' = Nil
      /\ UNCHANGED <<adding, visits, atDesktop, hears, eventRefs, kept, stolen>>
  BY <1>3, <1>4 DEF AdditionDone
<1>6. y[a] + stolen[a] > 0
  <2>1. kept[a] \in Nat /\ stolen[a] \in Nat /\ One(mine = a) = 1
    BY <1>1, <1>3 DEF ObjectsTypeOK, One
  <2>2. QED
    BY <1>1, <1>2, <2>1, OthersType
<1>7. LetGo(heap, k, a, y)
  <2>1. HeapOK(heap, y) /\ FreedIsOut(heap) /\ Excused(heap) /\ stolen \in [Struct -> Nat]
    BY <1>1, <1>2 DEF ObjectsInv, ObjectsTypeOK
  <2>2. QED
    BY <1>4, <1>6, <2>1, ClaimDropped
<1>8. Others' = More(y, a, -1)
  <2>1. \A t \in Struct : kept'[t] + One(mine' = t) - stolen'[t] =
          (IF t = a THEN kept[t] + One(mine = t) - stolen[t] + -1
           ELSE kept[t] + One(mine = t) - stolen[t])
    <3>1. \A t \in Struct : kept[t] \in Int /\ stolen[t] \in Int /\ t # Nil
      BY <1>1, ObjectsAssumption DEF ObjectsTypeOK
    <3>2. QED
      BY <1>3, <1>5, <3>1 DEF One
  <2>2. QED
    BY <1>1, <1>2, <2>1, OthersMove
<1>9. /\ adding' \in SUBSET Path /\ mine' \in Struct \cup {Nil} /\ adding' = {}
      /\ visits' = <<>> /\ kept' \in [Struct -> Nat] /\ atDesktop' \in Struct \cup {Nil, "gone"}
      /\ EventRefsInv' /\ overheard \subseteq overheard'
  BY SameEventRefs, <1>1, <1>5 DEF ObjectsInv, ObjectsTypeOK
<1>10. HeapOK(k, More(y, a, -1)) /\ FreedIsOut(k) /\ Excused(k)
  BY <1>7 DEF LetGo
<1>11. QED
  BY <1>5, <1>8, <1>9, <1>10, HeapSettles

\* the claims that others have are those of y
LEMMA OthersBecome ==
  ASSUME NEW y \in [Struct -> Int],
         \A s \in Struct : kept'[s] + One(mine' = s) - stolen'[s] = y[s]
  PROVE  Others' = y
BY DEF Others

LEMMA OneMore ==
  ASSUME NEW A \in BOOLEAN, NEW B \in BOOLEAN, NEW C \in BOOLEAN, A => B \/ C
  PROVE  One(A) \in Nat /\ One(B) \in Nat /\ One(C) \in Nat /\ One(A) <= One(B) + One(C)
BY DEF One

\* a source more
LEMMA CarriesMore ==
  ASSUME NEW a, NEW w, carried' = carried \cup {<<a, w>>}, NEW s
  PROVE  /\ One(Carries(carried', s)) <= One(Carries(carried, s)) + One(s = a)
         /\ One(Carries(carried', s)) \in Nat /\ One(Carries(carried, s)) \in Nat
         /\ One(s = a) \in Nat
<1>1. PICK A \in BOOLEAN, B \in BOOLEAN, C \in BOOLEAN :
        A = Carries(carried', s) /\ B = Carries(carried, s) /\ C = (s = a)
  BY DEF Carries
<1>2. A => B \/ C
  <2> SUFFICES ASSUME NEW e \in carried \cup {<<a, w>>}, e[1] = s
               PROVE  s = a \/ \E f \in carried : f[1] = s
    BY <1>1 DEF Carries
  <2>1. CASE e = <<a, w>>
    BY <2>1
  <2>2. CASE e \in carried
    BY <2>2
  <2>3. QED
    BY <2>1, <2>2
<1>3. One(A) \in Nat /\ One(B) \in Nat /\ One(C) \in Nat /\ One(A) <= One(B) + One(C)
  BY <1>2, OneMore
<1>4. QED
  BY <1>1, <1>3

\* what an event keeps: its source, and its value
LEMMA EventRefsMore ==
  ASSUME ObjectsInv, NEW a \in Struct, NEW b \in Struct \cup {Nil}, NEW w \in Struct \cup {Nil},
         carried' = carried \cup {<<a, w>>},
         kept' = [s \in Struct |-> kept[s] + One(s = a) + One(s = b)],
         owed' = [s \in Struct |-> owed[s] + One(s = b)],
         UNCHANGED <<atDesktop, overheard, stolen>>
  PROVE  /\ EventRefsInv' /\ overheard \subseteq overheard' /\ kept' \in [Struct -> Nat]
         /\ \A s \in Struct : kept'[s] = kept[s] + One(s = a) + One(s = b)
<1>1. EventRefsInv /\ kept \in [Struct -> Nat]
  BY DEF ObjectsInv, ObjectsTypeOK
<1>2. \A s \in Struct : One(s = a) \in Nat /\ One(s = b) \in Nat /\ One(s = atDesktop) \in Nat
  BY DEF One
<1>3. /\ kept' \in [Struct -> Nat] /\ owed' \in [Struct -> Nat]
      /\ \A s \in Struct : kept'[s] = kept[s] + One(s = a) + One(s = b)
      /\ \A s \in Struct : owed'[s] = owed[s] + One(s = b)
  BY <1>1, <1>2 DEF EventRefsInv
<1>4. ASSUME NEW s \in Struct
      PROVE  owed'[s] + One(s = atDesktop') + One(Carries(carried', s)) <= kept'[s]
  <2>1. /\ One(Carries(carried', s)) <= One(Carries(carried, s)) + One(s = a)
        /\ One(Carries(carried', s)) \in Nat /\ One(Carries(carried, s)) \in Nat
    BY CarriesMore
  <2>2. owed[s] + One(s = atDesktop) + One(Carries(carried, s)) <= kept[s]
    BY <1>1 DEF EventRefsInv
  <2>3. owed[s] \in Nat /\ kept[s] \in Nat
    BY <1>1 DEF EventRefsInv
  <2>4. QED
    BY <1>2, <1>3, <2>1, <2>2, <2>3
<1>5. carried' \subseteq Struct \X (Struct \cup {Nil})
  BY <1>1 DEF EventRefsInv
<1>6. EventRefsInv'
  BY <1>1, <1>3, <1>4, <1>5 DEF EventRefsInv
<1>7. QED
  BY <1>3, <1>6

\* cspi_dbus_handle_event, whose value is looked up after its source
LEMMA EventFound ==
  ASSUME ObjectsInv, Idle, Room, NEW p \in Path, NEW q \in Path,
         NEW g, g = RefAccessible(heap, p), NEW h, h = RefAccessible(g, q)
  PROVE  \E a, b \in Struct :
           /\ a = g.table[p] /\ b = h.table[q]
           /\ HeapOK(h, More(More(Others, a, 1), b, 1)) /\ FreedIsOut(h) /\ Excused(h)
<1>1. PICK a \in Struct :
        /\ a = g.table[p] /\ HeapOK(g, More(Others, a, 1)) /\ FreedIsOut(g)
        /\ \E t \in Struct : g.memory[t] = "new"
        /\ g.state # "running" => Stole
  BY IdleFound
<1>2. Others \in [Struct -> Int]
  BY OthersType DEF ObjectsInv
<1>3. PICK y \in [Struct -> Int] : y = More(Others, a, 1)
  BY <1>2, ClaimsChanged
<1>4. PICK b \in Struct : Found(g, h, q, b, y)
  BY <1>1, <1>3, ChildFound
<1>5. /\ b = h.table[q] /\ HeapOK(h, More(y, b, 1)) /\ FreedIsOut(h)
      /\ h.state # "running" => h.state = g.state \/ Stole
  BY <1>4 DEF Found
<1>6. Excused(h)
  BY <1>1, <1>5 DEF Excused
<1>7. QED
  BY <1>1, <1>3, <1>5, <1>6

LEMMA EventArrivesKeeps ==
  ASSUME ObjectsInv, NEW p \in Path, NEW q \in Path \cup {Nil}, EventArrives(p, q)
  PROVE  ObjectsInv'
<1>1. /\ Idle /\ Room /\ adding = {} /\ visits = <<>> /\ mine = Nil /\ ObjectsTypeOK
      /\ UNCHANGED <<handlerVars, atDesktop, hears, overheard, stolen>>
  BY IdleHandlers DEF EventArrives, Expected, Idle, ObjectsInv
<1>2. PICK g : g = RefAccessible(heap, p)
  OBVIOUS
<1>3. PICK h : h = IF q = Nil THEN g ELSE RefAccessible(g, q)
  OBVIOUS
<1>4. PICK a, b : a = g.table[p] /\ b = IF q = Nil THEN Nil ELSE h.table[q]
  OBVIOUS
<1>5. /\ Becomes(h) /\ carried' = carried \cup {<<a, b>>}
      /\ kept' = [s \in Struct |-> kept[s] + One(s = a) + One(s = b)]
      /\ owed' = [s \in Struct |-> owed[s] + One(s = b)]
  BY <1>2, <1>3, <1>4 DEF EventArrives
<1>6. Others \in [Struct -> Int]
  BY <1>1, OthersType
<1>7. \E y \in [Struct -> Int] :
        /\ a \in Struct /\ b \in Struct \cup {Nil}
        /\ HeapOK(h, y) /\ FreedIsOut(h) /\ Excused(h)
        /\ \A s \in Struct : y[s] = Others[s] + One(s = a) + One(s = b)
  <2>1. CASE q = Nil
    <3>1. a \in Struct /\ HeapOK(h, More(Others, a, 1)) /\ FreedIsOut(h) /\ Excused(h)
      BY <1>1, <1>2, <1>3, <1>4, <2>1, IdleFound
    <3>2. PICK y : y = More(Others, a, 1)
      OBVIOUS
    <3>3. /\ y \in [Struct -> Int]
          /\ \A s \in Struct : y[s] = IF s = a THEN Others[s] + 1 ELSE Others[s]
      BY <1>6, <3>1, <3>2, ClaimsChanged
    <3>4. \A s \in Struct : s # b /\ Others[s] \in Int
      BY <1>4, <1>6, <2>1, ObjectsAssumption
    <3>5. \A s \in Struct : y[s] = Others[s] + One(s = a) + One(s = b)
      BY <3>3, <3>4 DEF One
    <3>6. QED
      BY <1>4, <2>1, <3>1, <3>2, <3>3, <3>5
  <2>2. CASE q # Nil
    <3>1. /\ a \in Struct /\ b \in Struct
          /\ HeapOK(h, More(More(Others, a, 1), b, 1)) /\ FreedIsOut(h) /\ Excused(h)
      BY <1>1, <1>2, <1>3, <1>4, <2>2, EventFound
    <3>2. PICK z : z = More(Others, a, 1)
      OBVIOUS
    <3>3. /\ z \in [Struct -> Int]
          /\ \A s \in Struct : z[s] = IF s = a THEN Others[s] + 1 ELSE Others[s]
      BY <1>6, <3>2 DEF More
    <3>4. PICK y : y = More(z, b, 1)
      OBVIOUS
    <3>5. /\ y \in [Struct -> Int]
          /\ \A s \in Struct : y[s] = IF s = b THEN z[s] + 1 ELSE z[s]
      BY <3>3, <3>4 DEF More
    <3>6. \A s \in Struct : Others[s] \in Int
      BY <1>6
    <3>7. \A s \in Struct : y[s] = Others[s] + One(s = a) + One(s = b)
      BY <3>3, <3>5, <3>6 DEF One
    <3>8. QED
      BY <3>1, <3>2, <3>4, <3>5, <3>7
  <2>3. QED
    BY <2>1, <2>2
<1>8. PICK y \in [Struct -> Int] :
        /\ a \in Struct /\ b \in Struct \cup {Nil}
        /\ HeapOK(h, y) /\ FreedIsOut(h) /\ Excused(h)
        /\ \A s \in Struct : y[s] = Others[s] + One(s = a) + One(s = b)
  BY <1>7
<1>9. /\ EventRefsInv' /\ overheard \subseteq overheard' /\ kept' \in [Struct -> Nat]
      /\ \A s \in Struct : kept'[s] = kept[s] + One(s = a) + One(s = b)
  BY <1>1, <1>5, <1>8, EventRefsMore
<1>10. Others' = y
  <2>1. ASSUME NEW s \in Struct PROVE kept'[s] + One(mine' = s) - stolen'[s] = y[s]
    <3>1. Others[s] = kept[s] + One(mine = s) - stolen[s]
      BY <1>1, OthersType
    <3>2. /\ kept[s] \in Nat /\ stolen[s] \in Nat /\ One(mine = s) \in Nat
          /\ One(s = a) \in Nat /\ One(s = b) \in Nat
      BY <1>1 DEF ObjectsTypeOK, One
    <3>3. mine' = mine /\ stolen' = stolen
      BY <1>1 DEF handlerVars
    <3>4. QED
      BY <1>8, <1>9, <3>1, <3>2, <3>3
  <2>2. QED
    BY <2>1, OthersBecome
<1>11. /\ adding' \in SUBSET Path /\ mine' \in Struct \cup {Nil} /\ adding' = {}
       /\ visits' = <<>> /\ atDesktop' \in Struct \cup {Nil, "gone"}
  BY <1>1 DEF ObjectsTypeOK, handlerVars
<1>12. QED
  BY <1>1, <1>5, <1>8, <1>9, <1>10, <1>11, HeapSettles

LEMMA EventUnreadKeeps ==
  ASSUME ObjectsInv, NEW p \in Path, NEW w \in Struct \cup {Nil}, EventUnread(p, w)
  PROVE  ObjectsInv'
<1>1. /\ Idle /\ Room /\ adding = {} /\ visits = <<>> /\ mine = Nil /\ ObjectsTypeOK
      /\ UNCHANGED <<handlerVars, atDesktop, hears, owed, overheard, stolen>>
  BY IdleHandlers DEF EventUnread, Expected, Idle, ObjectsInv
<1>2. PICK h : h = RefAccessible(heap, p)
  OBVIOUS
<1>3. PICK a \in Struct :
        a = h.table[p] /\ HeapOK(h, More(Others, a, 1)) /\ FreedIsOut(h) /\ Excused(h)
  BY <1>1, <1>2, IdleFound
<1>4. PICK k : k = IF w = Nil THEN Astray(h) ELSE h
  OBVIOUS
<1>5. /\ Becomes(k) /\ carried' = carried \cup {<<a, w>>}
      /\ kept' = [s \in Struct |-> kept[s] + One(s = a)]
  BY <1>2, <1>3, <1>4 DEF EventUnread
<1>6. PICK y \in [Struct -> Int] : y = More(Others, a, 1)
  <2>1. Others \in [Struct -> Int]
    BY <1>1, OthersType
  <2>2. QED
    BY <2>1, ClaimsChanged
<1>7. HeapOK(k, y) /\ FreedIsOut(k) /\ Excused(k)
  <2>1. CASE k = h
    BY <1>3, <1>6, <2>1
  <2>2. CASE k = Astray(h)
    <3>1. h \in Heaps /\ Linked(h)
      BY <1>3 DEF HeapOK
    <3>2. k = [h EXCEPT !.state = IF h.state = "running" THEN "stray pointer" ELSE h.state]
      BY <2>2, <3>1 DEF Astray, Heaps
    <3>3. /\ k \in Heaps /\ k.table = h.table /\ k.memory = h.memory /\ k.parent = h.parent
          /\ k.children = h.children /\ k.state # "running"
          /\ k.state = h.state \/ k.state = "stray pointer"
      BY <3>1, <3>2 DEF Heaps
    <3>4. Linked(k)
      BY <3>1, <3>3, SameLinks
    <3>5. HeapOK(k, y) /\ FreedIsOut(k)
      BY <1>3, <3>3, <3>4 DEF HeapOK, Adds, FreedIsOut
    <3>6. Excused(k)
      <4>1. \A t : In(k, t) = In(h, t)
        BY <3>3 DEF In
      <4>2. CASE h.state = "freed"
        <5>1. \/ Stole
              \/ \E s, t \in Struct :
                   /\ h.memory[s] = "used" /\ ~In(h, t)
                   /\ t = h.parent[s] \/ (t \in h.children[s] /\ h.parent[t] # s)
          BY <1>3, <4>2 DEF Excused
        <5>2. CASE Stole
          BY <5>2 DEF Excused
        <5>3. CASE ~Stole
          <6>1. PICK s \in Struct, t \in Struct :
                  /\ h.memory[s] = "used" /\ ~In(h, t)
                  /\ t = h.parent[s] \/ (t \in h.children[s] /\ h.parent[t] # s)
            BY <5>1, <5>3
          <6>2. /\ k.memory[s] = "used" /\ ~In(k, t)
                /\ t = k.parent[s] \/ (t \in k.children[s] /\ k.parent[t] # s)
            BY <3>3, <4>1, <6>1
          <6>3. QED
            BY <6>2 DEF Excused
        <5>4. QED
          BY <5>2, <5>3
      <4>3. CASE h.state # "freed"
        BY <3>3, <4>3 DEF Excused
      <4>4. QED
        BY <4>2, <4>3
    <3>7. QED
      BY <3>5, <3>6
  <2>3. QED
    BY <1>4, <2>1, <2>2
<1>b. PICK b \in Struct \cup {Nil} : b = Nil
  OBVIOUS
<1>8. \A s \in Struct : kept[s] \in Nat /\ owed[s] \in Nat /\ One(s = a) \in Nat /\ One(s = b) = 0
  BY <1>1, <1>b, ObjectsAssumption DEF ObjectsInv, ObjectsTypeOK, EventRefsInv, One
<1>9. /\ kept' = [s \in Struct |-> kept[s] + One(s = a) + One(s = b)]
      /\ owed' = [s \in Struct |-> owed[s] + One(s = b)]
  <2>1. \A s \in Struct : /\ kept[s] + One(s = a) = kept[s] + One(s = a) + One(s = b)
                          /\ owed[s] = owed[s] + One(s = b)
    BY <1>8
  <2>2. owed' = [s \in Struct |-> owed[s]]
    BY <1>1 DEF ObjectsInv, EventRefsInv
  <2>3. QED
    BY <1>5, <2>1, <2>2
<1>10. /\ EventRefsInv' /\ overheard \subseteq overheard' /\ kept' \in [Struct -> Nat]
       /\ \A s \in Struct : kept'[s] = kept[s] + One(s = a) + One(s = b)
  BY <1>1, <1>5, <1>9, EventRefsMore
<1>11. Others' = y
  <2>1. \A s \in Struct : kept'[s] + One(mine' = s) - stolen'[s] =
          (IF s = a THEN kept[s] + One(mine = s) - stolen[s] + 1
           ELSE kept[s] + One(mine = s) - stolen[s])
    <3> SUFFICES ASSUME NEW s \in Struct
                 PROVE  kept'[s] + One(mine' = s) - stolen'[s] =
                          (IF s = a THEN kept[s] + One(mine = s) - stolen[s] + 1
                           ELSE kept[s] + One(mine = s) - stolen[s])
      OBVIOUS
    <3>1. mine' = mine /\ stolen' = stolen /\ stolen[s] \in Nat /\ One(mine = s) \in Nat
      BY <1>1 DEF handlerVars, ObjectsTypeOK, One
    <3>2. kept'[s] = IF s = a THEN kept[s] + 1 ELSE kept[s]
      BY <1>8, <1>10 DEF One
    <3>3. QED
      BY <1>8, <3>1, <3>2
  <2>2. QED
    BY <1>1, <1>6, <2>1, OthersMove
<1>12. /\ adding' \in SUBSET Path /\ mine' \in Struct \cup {Nil} /\ adding' = {}
       /\ visits' = <<>> /\ atDesktop' \in Struct \cup {Nil, "gone"}
  BY <1>1 DEF ObjectsTypeOK, handlerVars
<1>13. QED
  BY <1>1, <1>5, <1>7, <1>10, <1>11, <1>12, HeapSettles

\* the application at the desktop is kept
LEMMA RegisterKeeps ==
  ASSUME ObjectsInv, RegisterApplication
  PROVE  ObjectsInv'
<1>1. /\ Idle /\ Room /\ adding = {} /\ visits = <<>> /\ mine = Nil /\ ObjectsTypeOK
      /\ RootPath \in Path /\ atDesktop = Nil
      /\ UNCHANGED <<handlerVars, hears, eventRefs, stolen>>
  BY IdleHandlers, ObjectsAssumption DEF RegisterApplication, Idle, ObjectsInv
<1>2. PICK k : k = RefAccessible(heap, RootPath)
  OBVIOUS
<1>3. PICK a \in Struct :
        a = k.table[RootPath] /\ HeapOK(k, More(Others, a, 1)) /\ FreedIsOut(k) /\ Excused(k)
  BY <1>1, <1>2, IdleFound
<1>4. kept' = [kept EXCEPT ![a] = @ + 1] /\ atDesktop' = a /\ Becomes(k)
  BY <1>2, <1>3 DEF RegisterApplication
<1>5. /\ kept' \in [Struct -> Nat]
      /\ \A s \in Struct : kept'[s] = IF s = a THEN kept[s] + 1 ELSE kept[s]
  BY <1>1, <1>4 DEF ObjectsTypeOK
<1>6. Others' = More(Others, a, 1)
  <2>1. \A s \in Struct : kept'[s] + One(mine' = s) - stolen'[s] =
          (IF s = a THEN kept[s] + One(mine = s) - stolen[s] + 1
           ELSE kept[s] + One(mine = s) - stolen[s])
    <3>1. \A s \in Struct : kept[s] \in Int /\ stolen[s] \in Int /\ One(mine = s) \in Int
      BY <1>1 DEF ObjectsTypeOK, One
    <3>2. mine' = mine /\ stolen' = stolen
      BY <1>1 DEF handlerVars
    <3>3. QED
      BY <1>5, <3>1, <3>2
  <2>2. QED
    BY <1>1, <2>1, OthersMove
<1>7. EventRefsInv' /\ overheard \subseteq overheard'
  <2>1. EventRefsInv /\ carried' = carried /\ owed' = owed /\ overheard' = overheard
    BY <1>1 DEF ObjectsInv, eventRefs
  <2>2. ASSUME NEW s \in Struct
        PROVE  owed'[s] + One(s = atDesktop') + One(Carries(carried', s)) <= kept'[s]
    <3>1. owed[s] + One(s = atDesktop) + One(Carries(carried, s)) <= kept[s]
      BY <2>1 DEF EventRefsInv
    <3>2. /\ owed[s] \in Nat /\ kept[s] \in Nat /\ One(Carries(carried, s)) \in Nat
          /\ One(s = atDesktop) = 0 /\ One(s = atDesktop') = IF s = a THEN 1 ELSE 0
      BY <1>1, <1>4, <2>1, ObjectsAssumption DEF ObjectsTypeOK, EventRefsInv, One
    <3>3. QED
      BY <1>5, <2>1, <3>1, <3>2
  <2>3. \A s \in Struct : stolen'[s] > 0 => s \in overheard'
    BY <1>1, <2>1, ObjectsAssumption DEF EventRefsInv
  <2>4. QED
    BY <2>1, <2>2, <2>3 DEF EventRefsInv
<1>8. /\ adding' \in SUBSET Path /\ mine' \in Struct \cup {Nil} /\ adding' = {}
      /\ visits' = <<>> /\ atDesktop' \in Struct \cup {Nil, "gone"}
  BY <1>1, <1>4 DEF ObjectsTypeOK, handlerVars
<1>9. QED
  BY <1>1, <1>3, <1>4, <1>5, <1>6, <1>7, <1>8, HeapSettles

\* the parent of what is removed was there, or nobody need be surprised
LEMMA OrphanKeeps ==
  ASSUME NEW g, NEW y, HeapOK(g, y), FreedIsOut(g), Excused(g), NEW a \in Struct,
         g.state = "running" => g.memory[a] = "used", Orphan(g, a).state # "running"
  PROVE  /\ \A z : HeapOK(Orphan(g, a), z)
         /\ FreedIsOut(Orphan(g, a)) /\ Excused(Orphan(g, a))
<1>1. g \in Heaps /\ Linked(g) /\ g.parent \in [Struct -> Struct \cup {Nil}]
  BY HeapParts DEF HeapOK
<1>2. PICK h : h = Orphan(g, a)
  OBVIOUS
<1>3. PICK up \in Struct \cup {Nil} : up = g.parent[a]
  BY <1>1
<1>4. CASE g.state # "running"
  <2>1. Broken(g) = g
    BY <1>1, <1>4, BrokenKeeps
  <2>2. h = g
    BY <1>2, <1>4, <2>1 DEF Orphan, Fine
  <2>3. \A z : HeapOK(g, z)
    BY <1>1, <1>4 DEF HeapOK, Adds
  <2>4. QED
    BY <1>2, <2>2, <2>3
<1>5. CASE g.state = "running"
  <2>1. up # Nil /\ ~Fine(g, up)
    <3>1. h.state # "running"
      BY <1>2
    <3>2. h = IF up = Nil THEN g ELSE IF ~Fine(g, up) THEN Broken(g)
              ELSE [g EXCEPT !.children[up] = @ \ {a}]
      BY <1>2, <1>3 DEF Orphan
    <3>3. [g EXCEPT !.children[up] = @ \ {a}].state = "running"
      BY <1>1, <1>5 DEF Heaps
    <3>4. QED
      BY <1>5, <3>1, <3>2, <3>3
  <2>2. h = Broken(g)
    BY <1>2, <1>3, <2>1 DEF Orphan
  <2>3. /\ \A z : HeapOK(h, z)
        /\ h.table = g.table /\ h.memory = g.memory /\ h.parent = g.parent
    BY <1>1, <2>2, BrokenKeeps
  <2>4. FreedIsOut(h)
    BY <2>3 DEF FreedIsOut
  <2>5. g.memory[up] # "used" /\ up \in Struct
    BY <1>3, <1>5, <2>1 DEF Fine
  <2>6. CASE In(g, up)
    <3>1. PICK q \in Path : g.table[q] = up
      BY <2>6 DEF In
    <3>2. g.memory[up] # "new"
      BY <1>1, <2>1, <3>1 DEF Linked
    <3>3. g.memory[up] = "freed"
      BY <1>1, <2>5, <3>2, HeapParts
    <3>4. stolen[up] > 0
      BY <2>1, <3>1, <3>3 DEF FreedIsOut
    <3>5. QED
      BY <1>2, <2>3, <2>4, <2>5, <3>4 DEF Excused, Stole
  <2>7. CASE ~In(g, up)
    <3>1. ~In(h, up)
      BY <2>3, <2>7 DEF In
    <3>2. h.memory[a] = "used" /\ up = h.parent[a]
      BY <1>3, <1>5, <2>3
    <3>3. Excused(h)
      BY <2>5, <3>1, <3>2 DEF Excused
    <3>4. QED
      BY <1>2, <2>3, <2>4, <3>3
  <2>8. QED
    BY <2>6, <2>7
<1>6. QED
  BY <1>4, <1>5

\* and what is removed loses the table's reference and the handler's
LEMMA RemovedHeap ==
  ASSUME ObjectsInv, Idle, Room, NEW p \in Path, NEW g, g = RefAccessible(heap, p),
         NEW a, a = FoundAt(p), NEW h, h = Orphan(g, a),
         NEW k, k = IF h.state # "running" THEN h
                    ELSE Unref(Unref([h EXCEPT !.table[p] = Nil], a, FALSE), a, TRUE)
  PROVE  HeapOK(k, Others) /\ FreedIsOut(k) /\ Excused(k)
<1>1. ObjectsTypeOK /\ stolen \in [Struct -> Nat]
  BY DEF ObjectsInv, ObjectsTypeOK
<1>2. PICK y0 \in [Struct -> Int] : y0 = Others
  BY <1>1, OthersType
<1>3. PICK y1 : y1 = More(y0, a, 1)
  OBVIOUS
<1>4. /\ a \in Struct /\ HeapOK(g, y1) /\ FreedIsOut(g) /\ Excused(g) /\ a = g.table[p]
      /\ g.state = "running" => g.memory[a] = "used"
  BY <1>2, <1>3, IdleFound DEF FoundAt
<1>5. PICK y2 : y2 = More(y1, a, 1)
  OBVIOUS
<1>6. y1 \in [Struct -> Int] /\ y1[a] = y0[a] + 1
  BY <1>3, <1>4 DEF More
<1>7. y2 \in [Struct -> Int] /\ y2[a] = y1[a] + 1
  BY <1>4, <1>5, <1>6 DEF More
<1>8. y0[a] \in Int /\ stolen[a] \in Nat /\ y0[a] + stolen[a] >= 0
  <2>1. kept[a] \in Nat /\ stolen[a] \in Nat /\ One(mine = a) \in Nat
    BY <1>1, <1>4 DEF ObjectsTypeOK, One
  <2>2. y0[a] = kept[a] + One(mine = a) - stolen[a]
    BY <1>1, <1>2, <1>4, OthersType
  <2>3. QED
    BY <2>1, <2>2
<1>9. CASE h.state # "running"
  <2>1. (\A z : HeapOK(h, z)) /\ FreedIsOut(h) /\ Excused(h)
    BY <1>4, <1>9, OrphanKeeps
  <2>2. QED
    BY <1>9, <2>1
<1>10. CASE h.state = "running"
  <2>1. g.state = "running" /\ g.memory[a] = "used"
    <3>1. g.state # "running" => Broken(g) = g
      BY <1>4, BrokenKeeps DEF HeapOK
    <3>2. g.state # "running" => h = g
      BY <3>1 DEF Orphan, Fine
    <3>3. QED
      BY <1>4, <1>10, <3>2
  <2>2. PICK h1 : h1 = [h EXCEPT !.table[p] = Nil]
    OBVIOUS
  <2>3. HeapOK(h1, y2) /\ FreedIsOut(h1) /\ h1.state = "running"
    <3>1. h1 = TakenFrom(g, p, a)
      BY <2>2 DEF TakenFrom
    <3>2. Orphan(g, a).state = "running"
      BY <1>10
    <3>3. QED
      BY <1>4, <1>5, <1>6, <2>1, <3>1, <3>2, TakenOut
  <2>4. Excused(h1)
    BY <2>3 DEF Excused
  <2>5. PICK h2 : h2 = Unref(h1, a, FALSE)
    OBVIOUS
  <2>6. LetGo(h1, h2, a, y2)
    <3>1. y2[a] + stolen[a] > 0
      BY <1>6, <1>7, <1>8
    <3>2. QED
      BY <1>1, <1>4, <1>7, <2>3, <2>4, <2>5, <3>1, ClaimDropped
  <2>7. More(y2, a, -1) = y1
    BY <1>4, <1>5, <1>6, ClaimsRestored
  <2>8. HeapOK(h2, y1) /\ FreedIsOut(h2) /\ Excused(h2)
    BY <2>6, <2>7 DEF LetGo
  <2>9. LetGo(h2, Unref(h2, a, TRUE), a, y1)
    <3>1. y1[a] + stolen[a] > 0
      BY <1>6, <1>8
    <3>2. QED
      BY <1>1, <1>4, <1>6, <2>8, <3>1, ClaimDropped
  <2>10. More(y1, a, -1) = y0
    BY <1>3, <1>4, ClaimsRestored
  <2>11. k = Unref(h2, a, TRUE)
    BY <1>10, <2>2, <2>5
  <2>12. QED
    BY <1>2, <2>9, <2>10, <2>11 DEF LetGo
<1>11. QED
  BY <1>9, <1>10

LEMMA RemoveKeeps ==
  ASSUME ObjectsInv, NEW p \in Path, RemoveAccessible(p)
  PROVE  ObjectsInv'
<1>1. /\ Idle /\ Room /\ adding = {} /\ visits = <<>> /\ mine = Nil /\ ObjectsTypeOK
      /\ UNCHANGED <<handlerVars, atDesktop, hears, eventRefs, kept, stolen>>
  BY IdleHandlers DEF RemoveAccessible, Idle, ObjectsInv
<1>2. PICK g : g = RefAccessible(heap, p)
  OBVIOUS
<1>3. PICK a : a = FoundAt(p)
  OBVIOUS
<1>4. PICK h : h = Orphan(g, a)
  OBVIOUS
<1>5. PICK k : k = IF h.state # "running" THEN h
                   ELSE Unref(Unref([h EXCEPT !.table[p] = Nil], a, FALSE), a, TRUE)
  OBVIOUS
<1>6. Becomes(k)
  BY <1>2, <1>3, <1>4, <1>5, Zenon DEF RemoveAccessible, FoundAt
<1>7. HeapOK(k, Others) /\ FreedIsOut(k) /\ Excused(k)
  BY <1>1, <1>2, <1>3, <1>4, <1>5, RemovedHeap
<1>8. PICK y : y = Others
  OBVIOUS
<1>9. Others' = y
  BY <1>1, <1>8 DEF Others, handlerVars
<1>10. /\ adding' \in SUBSET Path /\ mine' \in Struct \cup {Nil} /\ adding' = {}
       /\ visits' = <<>> /\ kept' \in [Struct -> Nat] /\ atDesktop' \in Struct \cup {Nil, "gone"}
       /\ EventRefsInv' /\ overheard \subseteq overheard'
  BY SameEventRefs, <1>1 DEF ObjectsInv, ObjectsTypeOK, handlerVars
<1>11. QED
  BY <1>1, <1>6, <1>7, <1>8, <1>9, <1>10, HeapSettles

\* the client has more references, or fewer, and claims no others for that
Given(h, s, n) == [h EXCEPT !.held[s] = @ + n]

LEMMA HeldMoves ==
  ASSUME NEW h, NEW y \in [Struct -> Int], HeapOK(h, y), NEW s \in Struct,
         NEW n \in Int, NEW m \in Int, n + m = 0, h.held[s] + n \in Nat,
         h.held[s] + n > 0 => s \in h.live \cup h.reported
  PROVE  HeapOK(Given(h, s, n), More(y, s, m)) /\ SamePlaces(h, Given(h, s, n))
<1>1. h \in Heaps /\ Linked(h) /\ Adds(h, y) /\ h.held \in [Struct -> Nat]
  BY HeapParts DEF HeapOK
<1>2. PICK held1 : held1 = [h.held EXCEPT ![s] = @ + n]
  OBVIOUS
<1>3. /\ held1 \in [Struct -> Nat] /\ held1[s] = h.held[s] + n
      /\ \A t \in Struct : t # s => held1[t] = h.held[t]
  BY <1>1, <1>2
<1>4. PICK g : g = [h EXCEPT !.held[s] = @ + n]
  OBVIOUS
<1>5. g = [h EXCEPT !.held = held1]
  BY <1>1, <1>2, <1>4 DEF Heaps
<1>6. /\ g \in Heaps /\ g.table = h.table /\ g.memory = h.memory /\ g.rc = h.rc
      /\ g.state = h.state /\ g.parent = h.parent /\ g.children = h.children
      /\ g.live = h.live /\ g.reported = h.reported /\ g.held = held1
  BY <1>1, <1>3, <1>5 DEF Heaps
<1>7. Linked(g)
  BY <1>1, <1>6, SameLinks
<1>8. PICK z \in [Struct -> Int] :
        /\ z = More(y, s, m)
        /\ \A t \in Struct : z[t] = IF t = s THEN y[t] + m ELSE y[t]
  <2>1. PICK z : z = More(y, s, m)
    OBVIOUS
  <2>2. z \in [Struct -> Int] /\ \A t \in Struct : z[t] = IF t = s THEN y[t] + m ELSE y[t]
    BY <2>1 DEF More
  <2>3. QED
    BY <2>1, <2>2, Zenon
<1>9. Adds(g, z)
  <2> SUFFICES ASSUME g.state = "running", NEW t \in Struct
               PROVE  /\ g.memory[t] = "used" =>
                           g.rc[t] = One(In(g, t)) + g.held[t] + z[t] /\ g.rc[t] > 0
                      /\ g.memory[t] # "used" => One(In(g, t)) + g.held[t] + z[t] = 0
                      /\ g.held[t] > 0 => t \in g.live \cup g.reported
    BY DEF Adds
  <2>1. /\ h.memory[t] = "used" => h.rc[t] = One(In(h, t)) + h.held[t] + y[t] /\ h.rc[t] > 0
        /\ h.memory[t] # "used" => One(In(h, t)) + h.held[t] + y[t] = 0
        /\ h.held[t] > 0 => t \in h.live \cup h.reported
    BY <1>1, <1>6 DEF Adds
  <2>2. One(In(g, t)) = One(In(h, t)) /\ One(In(h, t)) \in Nat
    BY <1>6 DEF In, One
  <2>3. held1[t] + z[t] = h.held[t] + y[t]
    <3>1. h.held[t] \in Nat /\ y[t] \in Int
      BY <1>1
    <3>2. CASE t = s
      BY <1>3, <1>8, <3>1, <3>2
    <3>3. CASE t # s
      BY <1>3, <1>8, <3>3
    <3>4. QED
      BY <3>2, <3>3
  <2>4. held1[t] > 0 => t \in h.live \cup h.reported
    BY <1>3, <2>1
  <2>5. held1[t] \in Nat /\ z[t] \in Int /\ h.held[t] \in Nat /\ y[t] \in Int
    BY <1>1, <1>3
  <2>6. QED
    BY <1>6, <2>1, <2>2, <2>3, <2>4, <2>5
<1>10. QED
  BY <1>4, <1>6, <1>7, <1>8, <1>9 DEF HeapOK, SamePlaces, Given

\* the client has a reference more to what it has a pointer to
LEMMA TakenHeap ==
  ASSUME ObjectsInv, NEW t \in Struct, NEW k, k = Taken(Ref(heap, t), t)
  PROVE  /\ HeapOK(k, Others) /\ FreedIsOut(k)
         /\ k.table = heap.table /\ k.memory = heap.memory
         /\ k.parent = heap.parent /\ k.children = heap.children
         /\ Fine(heap, t) => Excused(k)
<1>1. HeapOK(heap, Others) /\ heap \in Heaps /\ Linked(heap) /\ FreedIsOut(heap) /\ ObjectsTypeOK
  BY DEF ObjectsInv, HeapOK
<1>2. PICK y \in [Struct -> Int] : y = Others
  BY <1>1, OthersType
<1>3. PICK h : h = Ref(heap, t)
  OBVIOUS
<1>4. k = [h EXCEPT !.held[t] = IF h.state = "running" THEN @ + 1 ELSE @]
  BY <1>3 DEF Taken
<1>5. CASE Fine(heap, t)
  <2>1. PICK z : z = More(y, t, 1)
    OBVIOUS
  <2>2. z \in [Struct -> Int]
    BY <2>1 DEF More
  <2>3. /\ HeapOK(h, z) /\ h.table = heap.table /\ h.memory = heap.memory
        /\ h.parent = heap.parent /\ h.children = heap.children
        /\ h.state = "running" /\ t \in h.live
    BY <1>1, <1>2, <1>3, <1>5, <2>1, ChildRefKeeps
  <2>4. k = Given(h, t, 1)
    BY <1>4, <2>3 DEF Given
  <2>5. h.held[t] + 1 \in Nat /\ h \in Heaps
    BY <2>3, HeapParts DEF HeapOK
  <2>6. HeapOK(k, More(z, t, -1)) /\ SamePlaces(h, k)
    <3>1. HeapOK(Given(h, t, 1), More(z, t, -1)) /\ SamePlaces(h, Given(h, t, 1))
      BY <2>2, <2>3, <2>5, HeldMoves
    <3>2. QED
      BY <2>4, <3>1
  <2>7. More(z, t, -1) = y
    BY <2>1, ClaimsRestored
  <2>8. FreedIsOut(k) /\ Excused(k)
    BY <1>1, <2>3, <2>6 DEF SamePlaces, FreedIsOut, Excused
  <2>9. k.parent = h.parent /\ k.children = h.children
    BY <1>4, <2>5 DEF Heaps
  <2>10. QED
    BY <1>2, <2>3, <2>6, <2>7, <2>8, <2>9 DEF SamePlaces
<1>6. CASE ~Fine(heap, t)
  <2>1. h = Broken(heap)
    BY <1>3, <1>6 DEF Ref
  <2>2. /\ h \in Heaps /\ h.state # "running" /\ HeapOK(h, y)
        /\ h.table = heap.table /\ h.memory = heap.memory /\ h.parent = heap.parent
        /\ h.children = heap.children
    BY <1>1, <2>1, BrokenKeeps
  <2>3. k = h
    <3>1. k = [h EXCEPT !.held = [h.held EXCEPT ![t] = h.held[t]]]
      BY <1>4, <2>2 DEF Heaps
    <3>2. [h.held EXCEPT ![t] = h.held[t]] = h.held
      BY <2>2, HeapParts
    <3>3. QED
      BY <2>2, <3>1, <3>2 DEF Heaps
  <2>4. FreedIsOut(h)
    BY <1>1, <2>2 DEF FreedIsOut
  <2>5. QED
    BY <1>2, <1>6, <2>2, <2>3, <2>4
<1>7. QED
  BY <1>5, <1>6

LEMMA TakesKeeps ==
  ASSUME ObjectsInv, NEW s \in Struct, NEW t \in Struct, ClientTakes(s, t)
  PROVE  ObjectsInv'
<1>1. /\ Idle /\ state = "running" /\ adding = {} /\ visits = <<>> /\ mine = Nil
      /\ ObjectsTypeOK /\ memory[s] = "used"
      /\ t \in {s, parent[s]} \cup children[s]
      /\ UNCHANGED <<handlerVars, atDesktop, hears, eventRefs, kept, stolen>>
  BY IdleHandlers DEF ClientTakes, Idle, ObjectsInv
<1>2. PICK y : y = Others
  OBVIOUS
<1>3. PICK k : k = Taken(Ref(heap, t), t)
  OBVIOUS
<1>4. Becomes(k)
  BY <1>3 DEF ClientTakes
<1>5. /\ HeapOK(k, y) /\ FreedIsOut(k)
      /\ k.table = heap.table /\ k.memory = heap.memory
      /\ k.parent = heap.parent /\ k.children = heap.children
      /\ Fine(heap, t) => Excused(k)
  BY <1>2, <1>3, TakenHeap
<1>6. heap \in Heaps /\ Linked(heap) /\ FreedIsOut(heap)
  BY DEF ObjectsInv, HeapOK
<1>7. Excused(k)
  <2> SUFFICES ASSUME ~Fine(heap, t) PROVE Excused(k)
    BY <1>5
  <2>1. heap.memory[t] # "used" /\ heap.memory[s] = "used" /\ t # s
    BY <1>1, HeapFields DEF Fine
  <2>2. CASE In(heap, t)
    <3>1. PICK q \in Path : heap.table[q] = t
      BY <2>2 DEF In
    <3>2. t # Nil
      BY ObjectsAssumption
    <3>3. heap.memory[t] # "new"
      BY <1>6, <3>1, <3>2 DEF Linked
    <3>4. heap.memory[t] = "freed"
      BY <1>6, <2>1, <3>3, HeapParts
    <3>5. stolen[t] > 0
      BY <1>6, <3>1, <3>2, <3>4 DEF FreedIsOut
    <3>6. QED
      BY <3>5 DEF Excused, Stole
  <2>3. CASE ~In(heap, t)
    <3>1. ~In(k, t)
      BY <1>5, <2>3 DEF In
    <3>2. t = heap.parent[s] \/ (t \in heap.children[s] /\ heap.parent[t] # s)
      <4>1. t \in {s, heap.parent[s]} \cup heap.children[s]
        BY <1>1, HeapFields
      <4>2. t \in heap.children[s] => heap.parent[t] # s
        BY <1>6, <2>3 DEF Linked
      <4>3. QED
        BY <2>1, <4>1, <4>2
    <3>3. k.memory[s] = "used" /\ (t = k.parent[s] \/ (t \in k.children[s] /\ k.parent[t] # s))
      BY <1>5, <2>1, <3>2
    <3>4. QED
      BY <3>1, <3>3 DEF Excused
  <2>4. QED
    BY <2>2, <2>3
<1>8. Others' = y
  BY <1>1, <1>2 DEF Others, handlerVars
<1>9. /\ adding' \in SUBSET Path /\ mine' \in Struct \cup {Nil} /\ adding' = {}
      /\ visits' = <<>> /\ kept' \in [Struct -> Nat] /\ atDesktop' \in Struct \cup {Nil, "gone"}
      /\ EventRefsInv' /\ overheard \subseteq overheard'
  BY SameEventRefs, <1>1 DEF ObjectsInv, ObjectsTypeOK, handlerVars
<1>10. QED
  BY <1>1, <1>4, <1>5, <1>7, <1>8, <1>9, HeapSettles

LEMMA TakesValueKeeps ==
  ASSUME ObjectsInv, NEW e \in carried, ClientTakesValue(e)
  PROVE  ObjectsInv'
<1>1. /\ Idle /\ state = "running" /\ adding = {} /\ visits = <<>> /\ mine = Nil
      /\ ObjectsTypeOK /\ EventRefsInv
      /\ UNCHANGED <<handlerVars, atDesktop, hears, carried, owed, kept, stolen>>
  BY IdleHandlers DEF ClientTakesValue, Idle, ObjectsInv
<1>2. PICK v \in Struct : v = e[2]
  BY <1>1 DEF ClientTakesValue, EventRefsInv
<1>3. PICK y : y = Others
  OBVIOUS
<1>4. PICK k : k = Taken(Ref(heap, v), v)
  OBVIOUS
<1>5. Becomes(k) /\ overheard' = IF owed[v] = 0 THEN overheard \cup {v} ELSE overheard
  BY <1>2, <1>4 DEF ClientTakesValue
<1>6. HeapOK(k, y) /\ FreedIsOut(k) /\ (Fine(heap, v) => Excused(k))
  BY <1>3, <1>4, TakenHeap
<1>7. Excused(k) \/ overheard' # {}
  <2>1. CASE Fine(heap, v)
    BY <1>6, <2>1
  <2>2. CASE owed[v] = 0
    BY <1>5, <2>2
  <2>3. CASE ~Fine(heap, v) /\ owed[v] # 0
    <3>1. One(In(heap, v)) + heap.held[v] + Others[v] = 0
      BY <1>1, <2>3, HeapFields DEF ObjectsInv, HeapOK, Adds, Fine
    <3>2. One(In(heap, v)) \in Nat /\ heap.held[v] \in Nat /\ One(mine = v) \in Nat
      BY <1>1, HeapParts DEF ObjectsTypeOK, One
    <3>3. /\ owed[v] \in Nat /\ kept[v] \in Nat /\ stolen[v] \in Nat
          /\ One(v = atDesktop) \in Nat /\ One(Carries(carried, v)) \in Nat
          /\ owed[v] + One(v = atDesktop) + One(Carries(carried, v)) <= kept[v]
      BY <1>1 DEF ObjectsTypeOK, EventRefsInv, One
    <3>4. Others[v] = kept[v] + One(mine = v) - stolen[v]
      BY <1>1, OthersType
    <3>5. kept[v] > 0
      BY <2>3, <3>3
    <3>6. stolen[v] > 0
      BY <3>1, <3>2, <3>3, <3>4, <3>5
    <3>7. QED
      BY <3>6 DEF Excused, Stole
  <2>4. QED
    BY <2>1, <2>2, <2>3
<1>8. Others' = y
  BY <1>1, <1>3 DEF Others, handlerVars
<1>9. EventRefsInv' /\ overheard \subseteq overheard'
  BY <1>1, <1>5 DEF EventRefsInv
<1>10. /\ adding' \in SUBSET Path /\ mine' \in Struct \cup {Nil} /\ adding' = {}
       /\ visits' = <<>> /\ kept' \in [Struct -> Nat] /\ atDesktop' \in Struct \cup {Nil, "gone"}
  BY <1>1 DEF ObjectsTypeOK, handlerVars
<1>11. QED
  BY <1>1, <1>5, <1>6, <1>7, <1>8, <1>9, <1>10, HeapSettles

LEMMA DropsKeeps ==
  ASSUME ObjectsInv, NEW s \in Struct, ClientDrops(s)
  PROVE  ObjectsInv'
<1>1. /\ Idle /\ state = "running" /\ adding = {} /\ visits = <<>> /\ mine = Nil
      /\ ObjectsTypeOK /\ held[s] > 0 /\ stolen \in [Struct -> Nat]
      /\ UNCHANGED <<handlerVars, atDesktop, hears, eventRefs, kept, stolen>>
  BY IdleHandlers DEF ClientDrops, Idle, ObjectsInv, ObjectsTypeOK
<1>2. PICK y \in [Struct -> Int] : y = Others
  BY <1>1, OthersType
<1>3. /\ HeapOK(heap, y) /\ heap \in Heaps /\ FreedIsOut(heap) /\ Adds(heap, y)
      /\ heap.held[s] \in Nat /\ heap.held[s] > 0 /\ heap.state = "running"
  BY <1>1, <1>2, HeapFields, HeapParts DEF ObjectsInv, HeapOK
<1>4. PICK h : h = Given(heap, s, -1)
  OBVIOUS
<1>5. h = [heap EXCEPT !.held[s] = @ - 1]
  <2>1. heap.held[s] + -1 = heap.held[s] - 1
    BY <1>3
  <2>2. QED
    BY <1>4, <2>1 DEF Given
<1>6. PICK z : z = More(y, s, 1)
  OBVIOUS
<1>7. z \in [Struct -> Int] /\ z[s] = y[s] + 1
  BY <1>6 DEF More
<1>8. HeapOK(h, z) /\ SamePlaces(heap, h)
  <2>1. heap.held[s] + -1 \in Nat /\ s \in heap.live \cup heap.reported
    BY <1>3 DEF Adds
  <2>2. QED
    <3>1. HeapOK(Given(heap, s, -1), More(y, s, 1)) /\ SamePlaces(heap, Given(heap, s, -1))
      BY <1>3, <2>1, HeldMoves
    <3>2. QED
      BY <1>4, <1>6, <3>1
<1>9. FreedIsOut(h) /\ Excused(h)
  BY <1>3, <1>8 DEF SamePlaces, FreedIsOut, Excused
<1>10. PICK k : k = Unref(h, s, FALSE)
  OBVIOUS
<1>11. Becomes(k)
  BY <1>5, <1>10 DEF ClientDrops
<1>12. z[s] + stolen[s] > 0
  <2>1. kept[s] \in Nat /\ stolen[s] \in Nat /\ One(mine = s) \in Nat
    BY <1>1 DEF ObjectsTypeOK, One
  <2>2. y[s] = kept[s] + One(mine = s) - stolen[s]
    BY <1>1, <1>2, OthersType
  <2>3. QED
    BY <1>7, <2>1, <2>2
<1>13. LetGo(h, k, s, z)
  BY <1>1, <1>7, <1>8, <1>9, <1>10, <1>12, ClaimDropped
<1>14. More(z, s, -1) = y
  BY <1>6, ClaimsRestored
<1>15. HeapOK(k, y) /\ FreedIsOut(k) /\ Excused(k)
  BY <1>13, <1>14 DEF LetGo
<1>16. Others' = y
  BY <1>1, <1>2 DEF Others, handlerVars
<1>17. /\ adding' \in SUBSET Path /\ mine' \in Struct \cup {Nil} /\ adding' = {}
       /\ visits' = <<>> /\ kept' \in [Struct -> Nat] /\ atDesktop' \in Struct \cup {Nil, "gone"}
       /\ EventRefsInv' /\ overheard \subseteq overheard'
  BY SameEventRefs, <1>1 DEF ObjectsInv, ObjectsTypeOK, handlerVars
<1>18. QED
  BY <1>1, <1>11, <1>15, <1>16, <1>17, HeapSettles

\* a reference is dropped that its dropper does not have
LEMMA Theft ==
  ASSUME NEW h, NEW y \in [Struct -> Int], HeapOK(h, y), FreedIsOut(h), NEW s \in Struct,
         NEW k, Dropped(h, k, s, y), k.state = "running", Becomes(k), ObjectsTypeOK,
         stolen' = [stolen EXCEPT ![s] = @ + 1], y = Others, kept' = kept, mine' = mine
  PROVE  /\ heap' = k /\ (heap \in Heaps)' /\ HeapOK(heap, Others)'
         /\ FreedIsOut(heap)' /\ Excused(heap)' /\ Stole'
         /\ stolen' \in [Struct -> Nat] /\ \A t \in Struct : t # s => stolen'[t] = stolen[t]
<1>1. /\ stolen' \in [Struct -> Nat] /\ stolen'[s] = stolen[s] + 1 /\ stolen[s] \in Nat
      /\ \A t \in Struct : t # s => stolen'[t] = stolen[t]
  BY DEF ObjectsTypeOK
<1>2. PICK took \in [Struct -> Nat] :
        /\ took = stolen' /\ took[s] = stolen[s] + 1
        /\ \A t \in Struct : t # s => took[t] = stolen[t]
  BY <1>1
<1>3. Others' = More(y, s, -1)
  <2>1. \A t \in Struct : kept'[t] + One(mine' = t) - stolen'[t] =
          (IF t = s THEN kept[t] + One(mine = t) - stolen[t] + -1
           ELSE kept[t] + One(mine = t) - stolen[t])
    <3> SUFFICES ASSUME NEW t \in Struct
                 PROVE  kept[t] + One(mine = t) - took[t] =
                          (IF t = s THEN kept[t] + One(mine = t) - stolen[t] + -1
                           ELSE kept[t] + One(mine = t) - stolen[t])
      BY <1>2
    <3>1. kept[t] \in Int /\ stolen[t] \in Int /\ One(mine = t) \in Int
      BY DEF ObjectsTypeOK, One
    <3>2. CASE t = s
      BY <1>2, <3>1, <3>2
    <3>3. CASE t # s
      BY <1>2, <3>1, <3>3
    <3>4. QED
      BY <3>2, <3>3
  <2>2. QED
    BY <2>1, OthersMove
<1>4. /\ HeapOK(k, More(y, s, -1)) /\ k.table = h.table /\ k \in Heaps /\ h \in Heaps
      /\ \A t \in Struct : t # s => k.memory[t] = h.memory[t]
  BY DEF Dropped, HeapOK
<1>5. heap' = k
  BY <1>4 DEF Becomes, heap, Heaps
<1>6. HeapOK(heap, Others)' /\ (heap \in Heaps)'
  BY <1>3, <1>4, <1>5
<1>7. FreedIsOut(heap)'
  <2>1. ASSUME NEW q \in Path, k.table[q] # Nil, k.memory[k.table[q]] = "freed"
        PROVE  took[k.table[q]] > 0
    <3>1. k.table[q] \in Struct /\ k.table[q] = h.table[q]
      BY <1>4, <2>1, TableEntry
    <3>2. CASE k.table[q] = s
      BY <1>1, <1>2, <3>2
    <3>3. CASE k.table[q] # s
      <4>1. stolen[h.table[q]] > 0
        BY <1>4, <2>1, <3>1, <3>3 DEF FreedIsOut
      <4>2. QED
        BY <1>2, <3>1, <3>3, <4>1
    <3>4. QED
      BY <3>2, <3>3
  <2>2. QED
    BY <1>2, <1>5, <2>1 DEF FreedIsOut
<1>8. Excused(heap)'
  BY <1>5 DEF Excused
<1>9. Stole'
  BY <1>1 DEF Stole
<1>10. QED
  BY <1>1, <1>5, <1>6, <1>7, <1>8, <1>9

\* an event's copy for a listener holds on to the source as long as it lasts
LEMMA SourceHeard ==
  ASSUME ObjectsInv, Idle, NEW a \in Struct, kept[a] > 0,
         NEW g, g = Unref(Ref(heap, a), a, FALSE)
  PROVE  HeapOK(g, Others) /\ FreedIsOut(g) /\ Excused(g)
<1>1. /\ HeapOK(heap, Others) /\ FreedIsOut(heap) /\ heap \in Heaps /\ Linked(heap)
      /\ heap.state = "running" /\ ObjectsTypeOK /\ stolen \in [Struct -> Nat]
  BY HeapFields DEF ObjectsInv, HeapOK, Idle, ObjectsTypeOK
<1>2. PICK y \in [Struct -> Int] : y = Others
  BY <1>1, OthersType
<1>3. PICK h : h = Ref(heap, a)
  OBVIOUS
<1>4. y[a] + stolen[a] > 0 /\ y[a] = kept[a] + One(mine = a) - stolen[a] /\ y[a] \in Int
  <2>1. kept[a] \in Nat /\ stolen[a] \in Nat /\ One(mine = a) \in Nat
    BY <1>1 DEF ObjectsTypeOK, One
  <2>2. y[a] = kept[a] + One(mine = a) - stolen[a]
    BY <1>1, <1>2, OthersType
  <2>3. QED
    BY <2>1, <2>2
<1>5. CASE Fine(heap, a)
  <2>1. PICK z : z = More(y, a, 1)
    OBVIOUS
  <2>2. z \in [Struct -> Int] /\ z[a] = y[a] + 1
    BY <2>1, ClaimsChanged DEF More
  <2>3. HeapOK(h, z) /\ h.table = heap.table /\ h.memory = heap.memory /\ h.state = "running"
    BY <1>1, <1>2, <1>3, <1>5, <2>1, ChildRefKeeps
  <2>4. FreedIsOut(h) /\ Excused(h)
    BY <1>1, <2>3 DEF FreedIsOut, Excused
  <2>5. z[a] + stolen[a] > 0
    BY <1>1, <1>4, <2>2
  <2>6. LetGo(h, g, a, z)
    BY <1>1, <1>3, <2>2, <2>3, <2>4, <2>5, ClaimDropped
  <2>7. More(z, a, -1) = y
    BY <2>1, ClaimsRestored
  <2>8. QED
    BY <1>2, <2>6, <2>7 DEF LetGo
<1>6. CASE ~Fine(heap, a)
  <2>1. h = Broken(heap)
    BY <1>3, <1>6 DEF Ref
  <2>2. /\ h \in Heaps /\ Linked(h) /\ h.state # "running" /\ HeapOK(h, y)
        /\ h.table = heap.table /\ h.memory = heap.memory
    BY <1>1, <2>1, BrokenKeeps DEF HeapOK
  <2>3. g = h
    <3>1. g = Broken(h)
      BY <1>3, <2>2 DEF Unref, Fine
    <3>2. QED
      BY <2>2, <3>1, BrokenKeeps
  <2>4. FreedIsOut(h)
    BY <1>1, <2>2 DEF FreedIsOut
  <2>5. stolen[a] > 0
    <3>1. One(In(heap, a)) + heap.held[a] + y[a] = 0
      BY <1>1, <1>2, <1>6 DEF HeapOK, Adds, Fine
    <3>2. One(In(heap, a)) \in Nat /\ heap.held[a] \in Nat
      BY <1>1, HeapParts DEF One
    <3>3. QED
      BY <1>1, <1>4, <3>1, <3>2
  <2>6. QED
    BY <1>2, <2>2, <2>3, <2>4, <2>5 DEF Excused, Stole
<1>7. QED
  BY <1>5, <1>6

LEMMA EventHeardKeeps ==
  ASSUME ObjectsInv, NEW e \in carried, EventHeard(e)
  PROVE  ObjectsInv'
<1>1. /\ Idle /\ state = "running" /\ adding = {} /\ visits = <<>> /\ mine = Nil
      /\ ObjectsTypeOK /\ EventRefsInv /\ stolen \in [Struct -> Nat]
      /\ UNCHANGED <<handlerVars, atDesktop, hears, carried>>
  BY IdleHandlers DEF EventHeard, Idle, ObjectsInv, ObjectsTypeOK
<1>2. PICK a \in Struct, v \in Struct \cup {Nil} : a = e[1] /\ v = e[2]
  BY <1>1 DEF EventRefsInv
<1>3. PICK g : g = Unref(Ref(heap, a), a, FALSE)
  OBVIOUS
<1>4. PICK h : h = IF v = Nil THEN g ELSE Unref(g, v, FALSE)
  OBVIOUS
<1>5. PICK due : due = One(v # Nil /\ owed[v] > 0)
  OBVIOUS
<1>6. /\ Becomes(h)
      /\ kept' = [s \in Struct |-> IF s = v THEN kept[s] - due ELSE kept[s]]
      /\ owed' = [s \in Struct |-> IF s = v THEN owed[s] - due ELSE owed[s]]
      /\ overheard' = (IF v # Nil /\ due = 0 THEN overheard \cup {v} ELSE overheard)
      /\ stolen' = [s \in Struct |-> stolen[s]
                      + One(s = v /\ (v # Nil /\ due = 0) /\ h.state = "running")]
  BY <1>2, <1>3, <1>4, <1>5, Zenon DEF EventHeard
<1>7. PICK y \in [Struct -> Int] : y = Others
  BY <1>1, OthersType
<1>8. HeapOK(g, y) /\ FreedIsOut(g) /\ Excused(g)
  <2>1. One(Carries(carried, a)) = 1
    BY <1>2 DEF One, Carries
  <2>2. /\ owed[a] + One(a = atDesktop) + One(Carries(carried, a)) <= kept[a]
        /\ owed[a] \in Nat /\ One(a = atDesktop) \in Nat /\ kept[a] \in Nat
    BY <1>1 DEF EventRefsInv, ObjectsTypeOK, One
  <2>3. kept[a] > 0
    BY <2>1, <2>2
  <2>4. QED
    BY <1>1, <1>3, <1>7, <2>3, SourceHeard
<1>9. /\ adding' \in SUBSET Path /\ mine' \in Struct \cup {Nil} /\ adding' = {} /\ mine' = mine
      /\ visits' = <<>> /\ atDesktop' \in Struct \cup {Nil, "gone"} /\ atDesktop' = atDesktop
  BY <1>1 DEF ObjectsTypeOK, handlerVars
<1>10. \A s \in Struct : kept[s] \in Nat /\ owed[s] \in Nat /\ stolen[s] \in Nat
  BY <1>1 DEF ObjectsTypeOK, EventRefsInv
<1>11. /\ kept = [s \in Struct |-> kept[s]] /\ owed = [s \in Struct |-> owed[s]]
       /\ stolen = [s \in Struct |-> stolen[s]]
  BY <1>1 DEF ObjectsTypeOK, EventRefsInv
<1>12. Nil \notin Struct
  BY ObjectsAssumption
\* nothing to drop
<1>13. CASE v = Nil
  <2>1. kept' = kept /\ owed' = owed /\ overheard' = overheard
    BY <1>6, <1>11, <1>12, <1>13
  <2>2. stolen' = stolen
    <3>1. stolen' = [s \in Struct |-> stolen[s] + 0]
      BY <1>6, <1>12, <1>13 DEF One
    <3>2. \A s \in Struct : stolen[s] + 0 = stolen[s]
      BY <1>10
    <3>3. QED
      BY <1>11, <3>1, <3>2
  <2>3. EventRefsInv' /\ overheard \subseteq overheard' /\ kept' \in [Struct -> Nat]
    BY <1>1, <1>9, <2>1, <2>2, SameEventRefs DEF eventRefs, ObjectsTypeOK
  <2>4. Others' = y
    BY <1>7, <1>9, <2>1, <2>2 DEF Others
  <2>5. QED
    BY <1>1, <1>4, <1>6, <1>8, <1>9, <1>13, <2>2, <2>3, <2>4, HeapSettles
\* a reference that was taken for the value
<1>14. CASE v # Nil /\ owed[v] > 0
  <2>1. v \in Struct /\ due = 1 /\ h = Unref(g, v, FALSE)
    BY <1>4, <1>5, <1>14 DEF One
  <2>2. stolen' = stolen
    <3>1. stolen' = [s \in Struct |-> stolen[s] + 0]
      BY <1>6, <2>1 DEF One
    <3>2. \A s \in Struct : stolen[s] + 0 = stolen[s]
      BY <1>10
    <3>3. QED
      BY <1>11, <3>1, <3>2
  <2>3. overheard' = overheard
    BY <1>6, <2>1
  <2>4. \A s \in Struct :
          /\ owed[s] + One(s = atDesktop) + One(Carries(carried, s)) <= kept[s]
          /\ One(s = atDesktop) \in Nat /\ One(Carries(carried, s)) \in Nat
    BY <1>1 DEF EventRefsInv, One
  <2>5. kept[v] > 0 /\ kept[v] - 1 \in Nat /\ owed[v] - 1 \in Nat
    BY <1>10, <1>14, <2>1, <2>4
  <2>6. /\ kept' \in [Struct -> Nat] /\ owed' \in [Struct -> Nat]
        /\ \A s \in Struct : /\ kept'[s] = IF s = v THEN kept[s] - 1 ELSE kept[s]
                             /\ owed'[s] = IF s = v THEN owed[s] - 1 ELSE owed[s]
    BY <1>6, <1>10, <2>1, <2>5
  <2>7. EventRefsInv'
    <3>1. ASSUME NEW s \in Struct
          PROVE  owed'[s] + One(s = atDesktop) + One(Carries(carried, s)) <= kept'[s]
      BY <1>10, <2>4, <2>6
    <3>2. QED
      BY <1>1, <1>9, <2>2, <2>3, <2>6, <3>1 DEF EventRefsInv
  <2>8. LetGo(g, h, v, y)
    <3>1. y[v] + stolen[v] > 0
      <4>1. y[v] = kept[v] + One(mine = v) - stolen[v] /\ One(mine = v) \in Nat
        BY <1>1, <1>7, <2>1, OthersType DEF One
      <4>2. QED
        BY <1>10, <2>1, <2>5, <4>1
    <3>2. QED
      BY <1>1, <1>8, <2>1, <3>1, ClaimDropped
  <2>9. Others' = More(y, v, -1)
    <3>1. \A s \in Struct : kept'[s] + One(mine' = s) - stolen'[s] =
            (IF s = v THEN kept[s] + One(mine = s) - stolen[s] + -1
             ELSE kept[s] + One(mine = s) - stolen[s])
      <4> SUFFICES ASSUME NEW s \in Struct
                   PROVE  kept'[s] + One(mine = s) - stolen[s] =
                            (IF s = v THEN kept[s] + One(mine = s) - stolen[s] + -1
                             ELSE kept[s] + One(mine = s) - stolen[s])
        BY <1>9, <2>2
      <4>1. One(mine = s) \in Nat
        BY DEF One
      <4>2. QED
        BY <1>10, <2>6, <4>1
    <3>2. QED
      BY <1>1, <1>7, <2>1, <3>1, OthersMove
  <2>10. HeapOK(h, More(y, v, -1)) /\ FreedIsOut(h) /\ Excused(h)
    BY <2>8 DEF LetGo
  <2>11. QED
    BY <1>1, <1>6, <1>9, <2>2, <2>3, <2>6, <2>7, <2>9, <2>10, HeapSettles
\* a reference that was not
<1>15. CASE v # Nil /\ owed[v] = 0
  <2>1. v \in Struct /\ due = 0 /\ h = Unref(g, v, FALSE)
    BY <1>4, <1>5, <1>15 DEF One
  <2>2. overheard' = overheard \cup {v}
    BY <1>6, <2>1, <1>15
  <2>3. kept' = kept /\ owed' = owed
    <3>1. \A s \in Struct : kept[s] - 0 = kept[s] /\ owed[s] - 0 = owed[s]
      BY <1>10
    <3>2. /\ kept' = [s \in Struct |-> kept[s]]
          /\ owed' = [s \in Struct |-> owed[s]]
      BY <1>6, <2>1, <3>1
    <3>3. QED
      BY <1>11, <3>2
  <2>4. h.state # "running" => stolen' = stolen
    <3>1. h.state # "running" => stolen' = [s \in Struct |-> stolen[s] + 0]
      BY <1>6 DEF One
    <3>2. \A s \in Struct : stolen[s] + 0 = stolen[s]
      BY <1>10
    <3>3. QED
      BY <1>11, <3>1, <3>2
  <2>5. CASE Fine(g, v) /\ h.state = "running"
    <3>1. Dropped(g, h, v, y)
      BY <1>7, <1>8, <2>1, <2>5, ChildUnrefKeeps
    <3>2. stolen' = [stolen EXCEPT ![v] = @ + 1]
      <4>1. \A s \in Struct : stolen[s] + 0 = stolen[s]
        BY <1>10
      <4>2. stolen' = [s \in Struct |-> IF s = v THEN stolen[s] + 1 ELSE stolen[s]]
        BY <1>6, <1>15, <2>1, <2>5, <4>1 DEF One
      <4>3. QED
        BY <1>1, <4>2
    <3>3. /\ (heap \in Heaps)' /\ HeapOK(heap, Others)' /\ FreedIsOut(heap)' /\ Excused(heap)'
          /\ stolen' \in [Struct -> Nat]
          /\ \A s \in Struct : s # v => stolen'[s] = stolen[s]
      BY <1>1, <1>6, <1>7, <1>8, <1>9, <2>1, <2>3, <2>5, <3>1, <3>2, Theft
    <3>4. EventRefsInv'
      <4>1. \A s \in Struct : stolen'[s] > 0 => atDesktop = "gone" \/ s \in overheard'
        BY <1>1, <2>2, <3>3 DEF EventRefsInv
      <4>2. QED
        BY <1>1, <1>9, <2>1, <2>2, <2>3, <4>1 DEF EventRefsInv
    <3>5. visits' \in Seq(Struct \X SUBSET Struct)
      BY <1>9
    <3>6. ObjectsTypeOK'
      BY <1>1, <1>9, <2>3, <3>3, <3>5 DEF ObjectsTypeOK
    <3>7. HandlersInv'
      BY <1>9, NoVisits
    <3>8. QED
      BY <3>3, <3>4, <3>6, <3>7 DEF ObjectsInv
  <2>6. CASE h.state # "running"
    <3>1. HeapOK(h, y) /\ FreedIsOut(h)
      <4>1. CASE Fine(g, v)
        <5>1. Dropped(g, h, v, y)
          BY <1>7, <1>8, <2>1, <4>1, ChildUnrefKeeps
        <5>2. h.table = g.table /\ h.memory = g.memory /\ h \in Heaps /\ Linked(h)
          BY <2>6, <5>1 DEF Dropped, HeapOK
        <5>3. QED
          BY <1>8, <2>6, <5>2 DEF HeapOK, Adds, FreedIsOut
      <4>2. CASE ~Fine(g, v)
        <5>1. h = Broken(g)
          BY <2>1, <4>2 DEF Unref
        <5>2. HeapOK(h, y) /\ h.table = g.table /\ h.memory = g.memory
          BY <1>8, <5>1, BrokenKeeps DEF HeapOK
        <5>3. QED
          BY <1>8, <5>2 DEF FreedIsOut
      <4>3. QED
        BY <4>1, <4>2
    <3>2. stolen' = stolen /\ Others' = y /\ kept' \in [Struct -> Nat]
      BY <1>1, <1>7, <1>9, <2>3, <2>4, <2>6 DEF Others, ObjectsTypeOK
    <3>3. EventRefsInv' /\ overheard \subseteq overheard' /\ overheard' # {}
      BY <1>1, <1>9, <2>1, <2>2, <2>3, <3>2 DEF EventRefsInv
    <3>4. QED
      BY <1>1, <1>6, <1>9, <3>1, <3>2, <3>3, HeapSettles
  <2>7. h.state = "running" => Fine(g, v)
    <3>1. ~Fine(g, v) => h = Broken(g)
      BY <2>1 DEF Unref
    <3>2. Broken(g).state # "running"
      BY <1>8, BrokenKeeps DEF HeapOK
    <3>3. QED
      BY <3>1, <3>2
  <2>8. QED
    BY <2>5, <2>6, <2>7
<1>16. QED
  BY <1>10, <1>13, <1>14, <1>15

LEMMA EventOverKeeps ==
  ASSUME ObjectsInv, NEW e \in carried, EventOver(e)
  PROVE  ObjectsInv'
<1>1. /\ Idle /\ adding = {} /\ visits = <<>> /\ mine = Nil /\ ObjectsTypeOK /\ EventRefsInv
      /\ carried' = carried \ {e}
      /\ UNCHANGED <<heapVars, handlerVars, atDesktop, hears, owed, overheard, kept, stolen>>
  BY IdleHandlers DEF EventOver, Idle, ObjectsInv
<1>2. PICK h, y : h = heap /\ y = Others
  OBVIOUS
<1>3. Becomes(h)
  BY <1>1, <1>2, HeapFields DEF Becomes, heapVars
<1>4. HeapOK(h, y) /\ FreedIsOut(h) /\ Excused(h)
  BY <1>2 DEF ObjectsInv
<1>5. Others' = y
  BY <1>1, <1>2 DEF Others, handlerVars
<1>6. EventRefsInv' /\ overheard \subseteq overheard'
  <2>1. ASSUME NEW s \in Struct
        PROVE  owed[s] + One(s = atDesktop) + One(Carries(carried', s)) <= kept[s]
    <3>1. PICK A \in BOOLEAN, B \in BOOLEAN : A = Carries(carried', s) /\ B = Carries(carried, s)
      BY DEF Carries
    <3>2. A => B
      BY <1>1, <3>1 DEF Carries
    <3>3. One(A) \in Nat /\ One(B) \in Nat /\ One(A) <= One(B)
      BY <3>2 DEF One
    <3>4. /\ owed[s] + One(s = atDesktop) + One(B) <= kept[s]
          /\ owed[s] \in Nat /\ One(s = atDesktop) \in Nat /\ kept[s] \in Nat
      BY <1>1, <3>1 DEF EventRefsInv, ObjectsTypeOK, One
    <3>5. owed[s] + One(s = atDesktop) + One(A) <= kept[s]
      BY <3>3, <3>4
    <3>6. QED
      BY <3>1, <3>5
  <2>2. QED
    BY <1>1, <2>1 DEF EventRefsInv
<1>7. /\ adding' \in SUBSET Path /\ mine' \in Struct \cup {Nil} /\ adding' = {}
      /\ visits' = <<>> /\ kept' \in [Struct -> Nat] /\ atDesktop' \in Struct \cup {Nil, "gone"}
  BY <1>1 DEF ObjectsTypeOK, handlerVars
<1>8. QED
  BY <1>1, <1>3, <1>4, <1>5, <1>6, <1>7, HeapSettles

(* The calls of unref_object_and_children, of which the outermost is for   *)
(* m: children of its object are left to each, and its object is in ok.    *)
Frames == Struct \X SUBSET Struct

Calls(v, m, kids, ok) ==
  /\ v \in Seq(Frames) /\ (v # <<>> => v[Len(v)][1] = m)
  /\ \A i \in 1 .. Len(v) : v[i][2] \subseteq kids[v[i][1]] /\ v[i][1] \in ok

LEMMA CallsGrow ==
  ASSUME NEW v, NEW m, NEW kids, NEW ok, Calls(v, m, kids, ok), NEW s \in Struct,
         NEW left \in SUBSET Struct, left \subseteq kids[s], s \in ok, v # <<>> \/ s = m
  PROVE  Calls(<<<<s, left>>>> \o v, m, kids, ok)
<1>1. v \in Seq(Frames) /\ Len(v) \in Nat
  BY DEF Calls
<1>2. PICK x : x = <<s, left>>
  OBVIOUS
<1>3. x \in Frames /\ x[1] = s /\ x[2] = left
  BY <1>2 DEF Frames
<1>4. PICK w : w = <<x>> \o v
  OBVIOUS
<1>5. /\ w \in Seq(Frames) /\ Len(w) = Len(v) + 1 /\ w[1] = x
      /\ \A i \in 1 .. Len(v) : w[i + 1] = v[i]
  BY <1>1, <1>3, <1>4, PrependIndexes
<1>6. w[Len(w)][1] = m
  <2>1. CASE v = <<>>
    BY <1>3, <1>5, <2>1
  <2>2. CASE v # <<>>
    <3>1. Len(v) \in 1 .. Len(v)
      BY <1>1, <2>2
    <3>2. w[Len(w)] = v[Len(v)]
      BY <1>5, <3>1
    <3>3. QED
      BY <2>2, <3>2 DEF Calls
  <2>3. QED
    BY <2>1, <2>2
<1>7. \A i \in 1 .. Len(w) : w[i][2] \subseteq kids[w[i][1]] /\ w[i][1] \in ok
  <2> SUFFICES ASSUME NEW i \in 1 .. Len(w)
               PROVE  w[i][2] \subseteq kids[w[i][1]] /\ w[i][1] \in ok
    OBVIOUS
  <2>1. CASE i = 1
    BY <1>3, <1>5, <2>1
  <2>2. CASE i # 1
    <3>1. PICK j \in 1 .. Len(v) : i = j + 1
      <4>1. i - 1 \in 1 .. Len(v) /\ i = (i - 1) + 1
        BY <1>1, <1>5, <2>2
      <4>2. QED
        BY <4>1
    <3>2. w[i] = v[j]
      BY <1>5, <3>1
    <3>3. QED
      BY <3>2 DEF Calls
  <2>3. QED
    BY <2>1, <2>2
<1>8. QED
  BY <1>2, <1>4, <1>5, <1>6, <1>7 DEF Calls

LEMMA CallsReturn ==
  ASSUME NEW v, NEW m, NEW kids, NEW ok, Calls(v, m, kids, ok), v # <<>>
  PROVE  /\ Calls(Tail(v), m, kids, ok)
         /\ Head(v)[1] \in Struct /\ Head(v)[2] \in SUBSET Struct /\ Head(v)[1] \in ok
         /\ Head(v)[2] \subseteq kids[Head(v)[1]]
         /\ Tail(v) = <<>> => Head(v)[1] = m
<1>1. v \in Seq(Frames) /\ Len(v) \in Nat /\ Len(v) > 0
  BY DEF Calls
<1>2. PICK w : w = Tail(v)
  OBVIOUS
<1>3. /\ w \in Seq(Frames) /\ Len(w) = Len(v) - 1 /\ Head(v) = v[1] /\ v[1] \in Frames
      /\ \A i \in 1 .. Len(w) : w[i] = v[i + 1]
  BY <1>1, <1>2
<1>4. w # <<>> => w[Len(w)][1] = m
  <2>1. w # <<>> => Len(w) \in 1 .. Len(w)
    BY <1>3
  <2>2. w # <<>> => w[Len(w)] = v[Len(v)]
    BY <1>1, <1>3, <2>1
  <2>3. QED
    BY <2>2 DEF Calls
<1>5. \A i \in 1 .. Len(w) : w[i][2] \subseteq kids[w[i][1]] /\ w[i][1] \in ok
  <2> SUFFICES ASSUME NEW i \in 1 .. Len(w)
               PROVE  w[i][2] \subseteq kids[w[i][1]] /\ w[i][1] \in ok
    OBVIOUS
  <2>1. PICK j \in 1 .. Len(v) : j = i + 1
    BY <1>1, <1>3
  <2>2. w[i] = v[j]
    BY <1>3, <2>1
  <2>3. QED
    BY <2>2 DEF Calls
<1>6. 1 \in 1 .. Len(v) /\ (w = <<>> => Len(v) = 1)
  BY <1>1, <1>3
<1>7. v[1][2] \subseteq kids[v[1][1]] /\ v[1][1] \in ok /\ (w = <<>> => v[1][1] = m)
  BY <1>6 DEF Calls
<1>8. v[1][1] \in Struct /\ v[1][2] \in SUBSET Struct
  BY <1>3 DEF Frames
<1>9. QED
  BY <1>2, <1>3, <1>4, <1>5, <1>7, <1>8 DEF Calls

\* what the calls of unref_object_and_children need, as long as they need it
Present(h) == {s \in Struct : h.state # "running" \/ Stole \/ h.memory[s] = "used"}

LEMMA HandlersCalls ==
  ASSUME ObjectsInv
  PROVE  Calls(visits, mine, children, Present(heap))
<1>1. /\ visits \in Seq(Frames) /\ DOMAIN visits = 1 .. Len(visits)
      /\ stolen \in [Struct -> Nat]
  BY DEF ObjectsInv, ObjectsTypeOK, Frames
<1>2. ASSUME NEW i \in 1 .. Len(visits)
      PROVE  visits[i][2] \subseteq children[visits[i][1]] /\ visits[i][1] \in Present(heap)
  <2>1. visits[i] \in Frames
    BY <1>1
  <2>2. visits[i][1] \in Struct
    BY <2>1 DEF Frames
  <2>3. visits[i][2] \subseteq children[visits[i][1]]
    BY <1>1 DEF ObjectsInv, HandlersInv
  <2>4. state # "running" \/ Stole \/ memory[visits[i][1]] = "used"
    BY <1>1 DEF ObjectsInv, HandlersInv
  <2>5. QED
    BY <2>2, <2>3, <2>4, HeapFields DEF Present
<1>3. QED
  BY <1>1, <1>2 DEF Calls, ObjectsInv, HandlersInv

LEMMA CallsHandlers ==
  ASSUME NEW h, heap' = h, children' = h.children, NEW m, mine' = m, NEW ok,
         NEW v, visits' = v, Calls(v, m, h.children, ok),
         \A s \in ok : state' = "running" /\ ~Stole' => memory'[s] = "used",
         adding' = {}, m # Nil, atDesktop' = "gone"
  PROVE  HandlersInv'
<1>1. DOMAIN v = 1 .. Len(v)
  BY DEF Calls
<1>2. \A i \in DOMAIN v : v[i][2] \subseteq h.children[v[i][1]] /\ v[i][1] \in ok
  BY <1>1 DEF Calls
<1>3. v # <<>> => v[Len(v)][1] = m
  BY DEF Calls
<1>4. QED
  BY <1>2, <1>3 DEF HandlersInv

\* an Accessible that is not there was stolen, or is out of the table
LEMMA ChildMissing ==
  ASSUME NEW h, NEW y, HeapOK(h, y), FreedIsOut(h), NEW s \in Struct, NEW c \in Struct,
         h.memory[s] = "used" \/ Stole, c \in h.children[s], h.memory[c] # "used"
  PROVE  Excused(h) /\ Excused(Broken(h))
<1>1. h \in Heaps /\ Linked(h)
  BY DEF HeapOK
<1>2. PICK g : g = Broken(h)
  OBVIOUS
<1>3. /\ g.table = h.table /\ g.memory = h.memory /\ g.parent = h.parent
      /\ g.children = h.children
  BY <1>1, <1>2, BrokenKeeps
<1>4. CASE Stole
  BY <1>4 DEF Excused
<1>5. CASE ~Stole
  <2>1. ~In(h, c)
    <3> SUFFICES ASSUME NEW q \in Path, h.table[q] = c PROVE FALSE
      BY DEF In
    <3>1. c # Nil
      BY ObjectsAssumption
    <3>2. h.memory[c] = "freed"
      <4>1. h.memory[c] # "new"
        BY <1>1, <3>1 DEF Linked
      <4>2. QED
        BY <1>1, <4>1, HeapParts
    <3>3. stolen[c] > 0
      BY <3>1, <3>2 DEF FreedIsOut
    <3>4. QED
      BY <1>5, <3>3 DEF Stole
  <2>2. h.parent[c] # s /\ h.memory[s] = "used"
    BY <1>1, <1>5, <2>1 DEF Linked
  <2>3. ~In(g, c)
    BY <1>3, <2>1 DEF In
  <2>4. Excused(h)
    BY <2>1, <2>2 DEF Excused
  <2>5. Excused(g)
    <3>1. g.memory[s] = "used" /\ c \in g.children[s] /\ g.parent[c] # s
      BY <1>3, <2>2
    <3>2. QED
      BY <2>3, <3>1 DEF Excused
  <2>6. QED
    BY <1>2, <2>4, <2>5
<1>6. QED
  BY <1>4, <1>5

LEMMA LeavesKeeps ==
  ASSUME ObjectsInv, DeregisterApplication
  PROVE  ObjectsInv'
<1>1. /\ Idle /\ state = "running" /\ adding = {} /\ visits = <<>> /\ mine = Nil
      /\ ObjectsTypeOK /\ EventRefsInv /\ atDesktop \in Struct
      /\ UNCHANGED <<adding, hears, eventRefs, stolen>>
  BY IdleHandlers DEF DeregisterApplication, Idle, ObjectsInv
<1>2. PICK y \in [Struct -> Int] : y = Others
  BY <1>1, OthersType
<1>3. PICK s \in Struct : s = atDesktop
  BY <1>1
<1>4. /\ mine' = s /\ Visit(s, <<>>) /\ kept' = [kept EXCEPT ![s] = @ - 1]
      /\ atDesktop' = "gone"
  BY <1>3 DEF DeregisterApplication
<1>5. /\ kept' \in [Struct -> Nat] /\ kept'[s] = kept[s] - 1 /\ kept[s] > 0
      /\ \A t \in Struct : t # s => kept'[t] = kept[t]
  <2>1. /\ kept \in [Struct -> Nat] /\ owed[s] \in Nat /\ One(Carries(carried, s)) \in Nat
        /\ owed[s] + 1 + One(Carries(carried, s)) <= kept[s]
    BY <1>1, <1>3 DEF ObjectsTypeOK, EventRefsInv, One
  <2>2. kept[s] > 0 /\ kept[s] - 1 \in Nat
    BY <2>1
  <2>3. QED
    BY <1>4, <2>1, <2>2
<1>6. Others' = y
  <2>1. ASSUME NEW t \in Struct
        PROVE  kept'[t] + One(mine' = t) - stolen'[t] = kept[t] + One(mine = t) - stolen[t]
    <3>1. kept[t] \in Int /\ stolen[t] \in Int /\ t # Nil /\ stolen' = stolen
      BY <1>1, ObjectsAssumption DEF ObjectsTypeOK
    <3>2. CASE t = s
      <4>1. One(mine' = t) = 1 /\ One(mine = t) = 0
        BY <1>1, <1>4, <3>1, <3>2 DEF One
      <4>2. QED
        BY <1>5, <3>1, <3>2, <4>1
    <3>3. CASE t # s
      <4>1. One(mine' = t) = 0 /\ One(mine = t) = 0
        BY <1>1, <1>4, <3>1, <3>3 DEF One
      <4>2. QED
        BY <1>5, <3>1, <3>3, <4>1
    <3>4. QED
      BY <3>2, <3>3
  <2>2. QED
    BY <1>2, <2>1 DEF Others
<1>7. PICK h : h = heap
  OBVIOUS
<1>8. HeapOK(h, y) /\ FreedIsOut(h) /\ Excused(h) /\ h \in Heaps /\ Linked(h) /\ Adds(h, y)
  BY <1>2, <1>7 DEF ObjectsInv, HeapOK
<1>9. /\ adding' \in SUBSET Path /\ adding' = {} /\ mine' \in Struct /\ s # Nil
      /\ "gone" \notin Struct
  BY <1>1, <1>4, ObjectsAssumption DEF ObjectsTypeOK
<1>a. EventRefsInv' /\ overheard \subseteq overheard' /\ overheard' \subseteq Struct
  <2>1. EventRefsInv /\ carried' = carried /\ owed' = owed /\ overheard' = overheard
    BY <1>1 DEF eventRefs
  <2>2. ASSUME NEW t \in Struct
        PROVE  owed'[t] + One(t = atDesktop') + One(Carries(carried', t)) <= kept'[t]
    <3>1. owed[t] + One(t = atDesktop) + One(Carries(carried, t)) <= kept[t]
      BY <2>1 DEF EventRefsInv
    <3>2. /\ owed[t] \in Nat /\ kept[t] \in Nat /\ One(Carries(carried, t)) \in Nat
          /\ One(t = atDesktop') = 0 /\ One(t = atDesktop) = IF t = s THEN 1 ELSE 0
      BY <1>1, <1>3, <1>4, <1>9, <2>1 DEF ObjectsTypeOK, EventRefsInv, One
    <3>3. QED
      BY <1>5, <2>1, <3>1, <3>2
  <2>3. QED
    BY <1>4, <2>1, <2>2 DEF EventRefsInv
<1>10. CASE memory[s] # "used"
  <2>1. visits' = <<>> /\ Becomes(Broken(h))
    BY <1>4, <1>7, <1>10 DEF Visit
  <2>2. PICK k : k = Broken(h)
    OBVIOUS
  <2>3. HeapOK(k, y) /\ FreedIsOut(k)
    <3>1. HeapOK(k, y) /\ k.table = h.table /\ k.memory = h.memory
      BY <1>8, <2>2, BrokenKeeps
    <3>2. QED
      BY <1>8, <3>1 DEF FreedIsOut
  <2>4. Excused(k)
    <3>1. One(In(h, s)) + h.held[s] + y[s] = 0
      BY <1>1, <1>7, <1>8, <1>10, HeapFields DEF Adds
    <3>2. One(In(h, s)) \in Nat /\ h.held[s] \in Nat
      BY <1>8, HeapParts DEF One
    <3>3. /\ y[s] = kept[s] + One(mine = s) - stolen[s] /\ One(mine = s) \in Nat
          /\ kept[s] \in Nat /\ kept[s] > 0 /\ stolen[s] \in Nat
      BY <1>1, <1>2, <1>3, <1>5, OthersType DEF ObjectsTypeOK, One
    <3>4. stolen[s] > 0
      BY <3>1, <3>2, <3>3
    <3>5. QED
      BY <3>4 DEF Excused, Stole
  <2>5. QED
    BY <1>1, <1>4, <1>5, <1>6, <1>9, <1>a, <2>1, <2>2, <2>3, <2>4, HeapSettles
<1>11. CASE memory[s] = "used"
  <2>1. PICK left : left = children[s]
    OBVIOUS
  <2>2. left \in SUBSET Struct /\ left \subseteq h.children[s] /\ h.children[s] = left
    BY <1>7, <1>8, <2>1, HeapFields, HeapParts
  <2>3. visits' = <<<<s, left>>>> \o <<>> /\ UNCHANGED heapVars
    BY <1>4, <1>11, <2>1 DEF Visit
  <2>4. Becomes(h)
    BY <1>7, <2>3 DEF Becomes, heapVars, heap
  <2>5. /\ heap' = h /\ (heap \in Heaps)' /\ HeapOK(heap, Others)'
        /\ FreedIsOut(heap)' /\ Excused(heap)'
    BY <1>1, <1>6, <1>8, <1>a, <2>4, HeapBecomes
  <2>6. Calls(<<>>, s, h.children, {s})
    BY DEF Calls
  <2>7. PICK v : v = <<<<s, left>>>> \o <<>>
    OBVIOUS
  <2>8. Calls(v, s, h.children, {s})
    BY <2>2, <2>6, <2>7, CallsGrow
  <2>9. children' = h.children /\ memory' = h.memory /\ h.memory[s] = "used"
    BY <1>7, <1>11, <2>4, HeapFields DEF Becomes
  <2>10. HandlersInv'
    <3>1. \A t \in {s} : state' = "running" /\ ~Stole' => memory'[t] = "used"
      BY <2>9
    <3>2. visits' = v
      BY <2>3, <2>7
    <3>3. QED
      BY <1>4, <1>9, <2>5, <2>8, <2>9, <3>1, <3>2, CallsHandlers
  <2>11. visits' \in Seq(Struct \X SUBSET Struct)
    BY <2>3, <2>7, <2>8 DEF Calls, Frames
  <2>12. ObjectsTypeOK'
    BY <1>1, <1>4, <1>5, <1>9, <2>5, <2>11 DEF ObjectsTypeOK
  <2>13. QED
    BY <1>a, <2>5, <2>10, <2>12 DEF ObjectsInv
<1>12. QED
  BY <1>10, <1>11

LEMMA VisitChildKeeps ==
  ASSUME ObjectsInv, NEW c \in Struct, VisitChild(c)
  PROVE  ObjectsInv'
<1>1. /\ state = "running" /\ visits # <<>> /\ mine # Nil /\ adding = {}
      /\ ObjectsTypeOK /\ c \in Head(visits)[2] /\ atDesktop = "gone"
      /\ UNCHANGED <<mine, adding, atDesktop, hears, eventRefs, kept, stolen>>
  BY DEF VisitChild, ObjectsInv, HandlersInv
<1>2. PICK y \in [Struct -> Int] : y = Others
  BY <1>1, OthersType
<1>3. PICK h : h = heap
  OBVIOUS
<1>4. PICK m : m = mine
  OBVIOUS
<1>5. PICK ok : ok = Present(h)
  OBVIOUS
<1>6. HeapOK(h, y) /\ FreedIsOut(h) /\ Excused(h) /\ h \in Heaps /\ Linked(h)
  BY <1>2, <1>3 DEF ObjectsInv, HeapOK
<1>7. Calls(visits, m, h.children, ok)
  BY <1>3, <1>4, <1>5, HandlersCalls, HeapFields
<1>8. PICK rest : rest = Tail(visits)
  OBVIOUS
<1>9. PICK s \in Struct, left \in SUBSET Struct :
        s = Head(visits)[1] /\ left = Head(visits)[2] \ {c}
  BY <1>1, <1>7, CallsReturn
<1>10. /\ Calls(rest, m, h.children, ok) /\ s \in ok
       /\ left \subseteq h.children[s] /\ c \in h.children[s]
       /\ rest = <<>> => s = m
  BY <1>1, <1>7, <1>8, <1>9, CallsReturn
<1>11. PICK callers : callers = <<<<s, left>>>> \o rest
  OBVIOUS
<1>12. Calls(callers, m, h.children, ok) /\ callers # <<>>
  <2>1. Calls(callers, m, h.children, ok)
    BY <1>10, <1>11, CallsGrow
  <2>2. rest \in Seq(Frames) /\ <<s, left>> \in Frames
    BY <1>10 DEF Calls, Frames
  <2>3. callers # <<>>
    BY <1>11, <2>2
  <2>4. QED
    BY <2>1, <2>3
<1>13. Visit(c, callers)
  BY <1>8, <1>9, <1>11 DEF VisitChild
<1>14. h.memory[s] = "used" \/ Stole
  BY <1>1, <1>3, <1>5, <1>10, HeapFields DEF Present
<1>15. ASSUME NEW k, NEW v, heap' = k, k \in Heaps, k.children = h.children, visits' = v,
              Calls(v, m, h.children, ok), k.state # "running" \/ k.memory = h.memory
       PROVE  HandlersInv' /\ visits' \in Seq(Struct \X SUBSET Struct)
  <2>1. children' = k.children /\ memory' = k.memory /\ state' = k.state
    BY <1>15 DEF heap
  <2>2. ASSUME NEW t \in ok, state' = "running", ~Stole'
        PROVE  memory'[t] = "used"
    <3>1. ~Stole
      BY <1>1, <2>2 DEF Stole, eventRefs
    <3>2. h.memory[t] = "used"
      BY <1>1, <1>3, <1>5, <3>1, HeapFields DEF Present
    <3>3. QED
      BY <1>15, <2>1, <2>2, <3>2
  <2>4. Calls(v, m, k.children, ok)
    BY <1>15
  <2>5. mine' = m /\ adding' = {} /\ m # Nil /\ atDesktop' = "gone"
    BY <1>1, <1>4
  <2>6. HandlersInv'
    BY <1>15, <2>1, <2>2, <2>4, <2>5, CallsHandlers
  <2>7. QED
    BY <1>15, <2>6 DEF Calls, Frames
<1>16. Others' = y
  BY <1>1, <1>2 DEF Others
<1>17. \E k, v : /\ HeapOK(k, y) /\ FreedIsOut(k) /\ Excused(k) /\ Becomes(k)
                 /\ k.children = h.children /\ visits' = v /\ Calls(v, m, h.children, ok)
                 /\ k.state # "running" \/ k.memory = h.memory
  <2>1. CASE memory[c] = "used"
    <3>1. visits' = <<<<c, children[c]>>>> \o callers /\ UNCHANGED heapVars
      BY <1>13, <2>1 DEF Visit
    <3>2. PICK kids \in SUBSET Struct : kids = children[c] /\ kids = h.children[c]
      BY <1>3, <1>6, HeapFields, HeapParts
    <3>3. PICK v : v = <<<<c, kids>>>> \o callers
      OBVIOUS
    <3>4. c \in ok
      BY <1>3, <1>5, <2>1, HeapFields DEF Present
    <3>5. Calls(v, m, h.children, ok)
      BY <1>12, <3>2, <3>3, <3>4, CallsGrow
    <3>6. Becomes(h)
      BY <1>3, <3>1 DEF Becomes, heapVars, heap
    <3>7. visits' = v
      BY <3>1, <3>2, <3>3
    <3>8. QED
      BY <1>6, <3>5, <3>6, <3>7
  <2>2. CASE memory[c] # "used"
    <3>1. Becomes(Broken(h)) /\ visits' = callers
      BY <1>3, <1>13, <2>2 DEF Visit
    <3>2. PICK k : k = Broken(h)
      OBVIOUS
    <3>3. /\ HeapOK(k, y) /\ k.table = h.table /\ k.memory = h.memory
          /\ k.children = h.children
      BY <1>6, <3>2, BrokenKeeps
    <3>4. FreedIsOut(k)
      BY <1>6, <3>3 DEF FreedIsOut
    <3>5. h.memory[c] # "used"
      BY <1>3, <2>2, HeapFields
    <3>6. Excused(k)
      BY <1>6, <1>10, <1>14, <3>2, <3>5, ChildMissing
    <3>7. QED
      BY <1>12, <3>1, <3>2, <3>3, <3>4, <3>6
  <2>3. QED
    BY <2>1, <2>2
<1>18. PICK k, v : /\ HeapOK(k, y) /\ FreedIsOut(k) /\ Excused(k) /\ Becomes(k)
                   /\ k.children = h.children /\ visits' = v /\ Calls(v, m, h.children, ok)
                   /\ k.state # "running" \/ k.memory = h.memory
  BY <1>17
<1>19. /\ heap' = k /\ (heap \in Heaps)' /\ HeapOK(heap, Others)'
       /\ FreedIsOut(heap)' /\ Excused(heap)'
  BY <1>1, <1>16, <1>18, SameEventRefs, HeapBecomes DEF ObjectsInv
<1>20. HandlersInv' /\ visits' \in Seq(Struct \X SUBSET Struct)
  <2>1. k \in Heaps
    BY <1>18 DEF HeapOK
  <2>2. QED
    BY <1>15, <1>18, <1>19, <2>1
<1>21. ObjectsTypeOK'
  BY <1>1, <1>19, <1>20 DEF ObjectsTypeOK
<1>22. EventRefsInv'
  BY <1>1, SameEventRefs DEF ObjectsInv
<1>23. QED
  BY <1>19, <1>20, <1>21, <1>22 DEF ObjectsInv

\* the last call of unref_object_and_children drops what the desktop had
LEMMA OuterDone ==
  ASSUME ObjectsInv, VisitDone, Tail(visits) = <<>>
  PROVE  ObjectsInv'
<1>1. /\ state = "running" /\ visits # <<>> /\ mine # Nil /\ adding = {}
      /\ ObjectsTypeOK /\ stolen \in [Struct -> Nat]
      /\ UNCHANGED <<adding, atDesktop, hears, eventRefs, kept>>
  BY DEF VisitDone, ObjectsInv, HandlersInv, ObjectsTypeOK
<1>2. PICK y \in [Struct -> Int] : y = Others
  BY <1>1, OthersType
<1>3. PICK s \in Struct : s = Head(visits)[1] /\ s = mine
  <2>1. PICK m, kids, ok : m = mine /\ Calls(visits, m, kids, ok)
    BY HandlersCalls
  <2>2. Head(visits)[1] \in Struct /\ Head(visits)[1] = m
    BY <1>1, <2>1, CallsReturn
  <2>3. QED
    BY <2>1, <2>2
<1>4. PICK k : k = Unref(heap, s, TRUE)
  OBVIOUS
<1>5. Becomes(k) /\ mine' = Nil /\ stolen' = stolen /\ visits' = <<>>
  BY <1>3, <1>4 DEF VisitDone
<1>6. y[s] + stolen[s] > 0
  <2>1. kept[s] \in Nat /\ stolen[s] \in Nat /\ One(mine = s) = 1
    BY <1>1, <1>3 DEF ObjectsTypeOK, One
  <2>2. y[s] = kept[s] + One(mine = s) - stolen[s]
    BY <1>1, <1>2, OthersType
  <2>3. QED
    BY <2>1, <2>2
<1>7. LetGo(heap, k, s, y)
  <2>1. HeapOK(heap, y) /\ FreedIsOut(heap) /\ Excused(heap)
    BY <1>2 DEF ObjectsInv
  <2>2. QED
    BY <1>1, <1>4, <1>6, <2>1, ClaimDropped
<1>8. Others' = More(y, s, -1)
  <2>1. \A t \in Struct : kept'[t] + One(mine' = t) - stolen'[t] =
          (IF t = s THEN kept[t] + One(mine = t) - stolen[t] + -1
           ELSE kept[t] + One(mine = t) - stolen[t])
    <3>1. \A t \in Struct : kept[t] \in Int /\ stolen[t] \in Int /\ t # Nil
      BY <1>1, ObjectsAssumption DEF ObjectsTypeOK
    <3>2. /\ \A t \in Struct : One(mine' = t) = 0 /\ (t # s => One(mine = t) = 0)
          /\ One(mine = s) = 1
      BY <1>3, <1>5, <3>1 DEF One
    <3>3. ASSUME NEW t \in Struct
          PROVE  kept[t] + 0 - stolen[t] = (IF t = s THEN kept[t] + One(mine = t) - stolen[t] + -1
                                            ELSE kept[t] + One(mine = t) - stolen[t])
      BY <3>1, <3>2
    <3>4. QED
      BY <1>1, <1>5, <3>2, <3>3
  <2>2. QED
    BY <1>1, <1>2, <2>1, OthersMove
<1>9. /\ adding' \in SUBSET Path /\ mine' \in Struct \cup {Nil} /\ adding' = {}
      /\ kept' \in [Struct -> Nat] /\ atDesktop' \in Struct \cup {Nil, "gone"}
      /\ EventRefsInv' /\ overheard \subseteq overheard'
  BY SameEventRefs, <1>1, <1>5 DEF ObjectsInv, ObjectsTypeOK
<1>10. HeapOK(k, More(y, s, -1)) /\ FreedIsOut(k) /\ Excused(k)
  BY <1>7 DEF LetGo
<1>11. QED
  BY <1>1, <1>5, <1>8, <1>9, <1>10, HeapSettles

\* the others drop what nobody gave them
LEMMA InnerDone ==
  ASSUME ObjectsInv, VisitDone, Tail(visits) # <<>>
  PROVE  ObjectsInv'
<1>1. /\ state = "running" /\ visits # <<>> /\ mine # Nil /\ adding = {}
      /\ ObjectsTypeOK /\ stolen \in [Struct -> Nat] /\ kept \in [Struct -> Nat]
      /\ EventRefsInv /\ atDesktop = "gone"
      /\ UNCHANGED <<adding, atDesktop, hears, eventRefs, kept>>
  BY DEF VisitDone, ObjectsInv, HandlersInv, ObjectsTypeOK
<1>2. PICK y \in [Struct -> Int] : y = Others
  BY <1>1, OthersType
<1>3. PICK h : h = heap
  OBVIOUS
<1>4. PICK m : m = mine
  OBVIOUS
<1>5. PICK ok : ok = Present(h)
  OBVIOUS
<1>6. HeapOK(h, y) /\ FreedIsOut(h) /\ h \in Heaps /\ Linked(h) /\ h.state = "running"
  BY <1>1, <1>2, <1>3, HeapFields DEF ObjectsInv, HeapOK
<1>7. Calls(visits, m, h.children, ok)
  BY <1>3, <1>4, <1>5, HandlersCalls, HeapFields
<1>8. PICK rest : rest = Tail(visits)
  OBVIOUS
<1>9. PICK s \in Struct : s = Head(visits)[1] /\ s \in ok
  BY <1>1, <1>7, CallsReturn
<1>10. Calls(rest, m, h.children, ok)
  BY <1>1, <1>7, <1>8, CallsReturn
<1>11. PICK k : k = Unref(h, s, TRUE)
  OBVIOUS
<1>12. /\ Becomes(k) /\ mine' = m /\ visits' = rest
       /\ stolen' = IF k.state # "running" THEN stolen ELSE [stolen EXCEPT ![s] = @ + 1]
  BY <1>3, <1>4, <1>8, <1>9, <1>11 DEF VisitDone
<1>13. /\ k \in Heaps /\ Linked(k) /\ k.children = h.children /\ k.table = h.table
       /\ k.state = "running" => Dropped(h, k, s, y)
       /\ k.state # "running" => k.memory = h.memory /\ Excused(k)
  <2>1. CASE Fine(h, s)
    <3>1. Dropped(h, k, s, y)
      BY <1>6, <1>11, <2>1, ChildUnrefKeeps
    <3>2. k.state # "running" => Excused(k)
      BY <3>1 DEF Dropped, Excused
    <3>3. QED
      BY <3>1, <3>2 DEF Dropped, HeapOK
  <2>2. CASE ~Fine(h, s)
    <3>1. k = Broken(h)
      BY <1>11, <2>2 DEF Unref
    <3>2. /\ k \in Heaps /\ k.state # "running" /\ k.children = h.children /\ k.table = h.table
          /\ k.memory = h.memory /\ HeapOK(k, y)
      BY <1>6, <3>1, BrokenKeeps
    <3>3. Stole
      BY <1>5, <1>6, <1>9, <2>2 DEF Present, Fine
    <3>4. QED
      BY <3>2, <3>3 DEF HeapOK, Excused
  <2>3. QED
    BY <2>1, <2>2
<1>14. heap' = k
  BY <1>12, <1>13 DEF Becomes, heap, Heaps
<1>15. children' = k.children /\ memory' = k.memory /\ state' = k.state
  BY <1>14 DEF heap
<1>16. CASE k.state # "running"
  <2>1. stolen' = stolen
    BY <1>12, <1>16
  <2>2. Others' = y
    BY <1>1, <1>2, <1>4, <1>12, <2>1 DEF Others
  <2>3. HeapOK(k, y) /\ FreedIsOut(k) /\ Excused(k)
    BY <1>6, <1>13, <1>16 DEF HeapOK, Adds, FreedIsOut
  <2>4. (heap \in Heaps)' /\ HeapOK(heap, Others)' /\ FreedIsOut(heap)' /\ Excused(heap)'
    BY <1>1, <1>12, <2>1, <2>2, <2>3, SameEventRefs, HeapBecomes
  <2>5. HandlersInv'
    <3>1. \A t \in ok : state' = "running" /\ ~Stole' => memory'[t] = "used"
      BY <1>15, <1>16
    <3>2. Calls(rest, m, k.children, ok) /\ adding' = {} /\ m # Nil /\ atDesktop' = "gone"
      BY <1>1, <1>4, <1>10, <1>13
    <3>3. QED
      BY <1>12, <1>14, <1>15, <3>1, <3>2, CallsHandlers
  <2>6. visits' \in Seq(Struct \X SUBSET Struct) /\ mine' = mine
    BY <1>4, <1>10, <1>12 DEF Calls, Frames
  <2>7. ObjectsTypeOK'
    BY <1>1, <2>1, <2>4, <2>6 DEF ObjectsTypeOK
  <2>8. EventRefsInv'
    BY <1>1, <2>1, SameEventRefs
  <2>9. QED
    BY <2>4, <2>5, <2>7, <2>8 DEF ObjectsInv
<1>17. CASE k.state = "running"
  <2>1. stolen' = [stolen EXCEPT ![s] = @ + 1] /\ mine' = mine
    BY <1>4, <1>12, <1>17
  <2>2. Dropped(h, k, s, y)
    BY <1>13, <1>17
  <2>3. /\ (heap \in Heaps)' /\ HeapOK(heap, Others)' /\ FreedIsOut(heap)' /\ Excused(heap)'
        /\ Stole' /\ stolen' \in [Struct -> Nat]
    BY <1>1, <1>2, <1>6, <1>12, <1>17, <2>1, <2>2, Theft
  <2>4. HandlersInv'
    <3>1. Calls(rest, m, k.children, ok) /\ adding' = {} /\ m # Nil /\ atDesktop' = "gone"
      BY <1>1, <1>4, <1>10, <1>13
    <3>2. QED
      BY <1>12, <1>14, <1>15, <2>3, <3>1, CallsHandlers
  <2>5. visits' \in Seq(Struct \X SUBSET Struct)
    BY <1>10, <1>12 DEF Calls, Frames
  <2>6. ObjectsTypeOK'
    BY <1>1, <2>1, <2>3, <2>5 DEF ObjectsTypeOK
  <2>7. EventRefsInv'
    BY <1>1 DEF EventRefsInv, eventRefs
  <2>8. QED
    BY <2>3, <2>4, <2>6, <2>7 DEF ObjectsInv
<1>18. QED
  BY <1>16, <1>17

LEMMA ObjectsStart ==
  ASSUME ObjectsInit
  PROVE  ObjectsInv
<1>1. /\ \A p \in Path : table[p] = Nil
      /\ \A s \in Struct : /\ memory[s] = "new" /\ children[s] = {} /\ held[s] = 0
                           /\ kept[s] = 0 /\ stolen[s] = 0 /\ owed[s] = 0
      /\ carried = {} /\ overheard = {}
      /\ mine = Nil /\ adding = {} /\ visits = <<>> /\ state = "running" /\ atDesktop = Nil
  BY DEF ObjectsInit
<1>2. \A s \in Struct : s # Nil
  BY ObjectsAssumption
<1>3. ObjectsTypeOK
  <2>1. heap \in Heaps
    BY DEF ObjectsInit, heap, Heaps
  <2>2. visits \in Seq(Struct \X SUBSET Struct)
    BY <1>1
  <2>3. QED
    BY <2>1, <2>2 DEF ObjectsInit, ObjectsTypeOK
<1>4. \A s \in Struct : ~In(heap, s)
  BY <1>1, <1>2, HeapFields DEF In
<1>5. Linked(heap)
  BY <1>1, HeapFields DEF Linked
<1>6. Adds(heap, Others)
  <2> SUFFICES ASSUME NEW s \in Struct
               PROVE  /\ heap.memory[s] # "used" /\ ~(heap.held[s] > 0)
                      /\ One(In(heap, s)) + heap.held[s] + Others[s] = 0
    BY DEF Adds
  <2>1. One(In(heap, s)) = 0 /\ One(mine = s) = 0
    BY <1>1, <1>2, <1>4 DEF One
  <2>2. Others[s] = 0
    BY <1>1, <1>3, <2>1, OthersType
  <2>3. QED
    BY <1>1, <2>1, <2>2, HeapFields
<1>7. HandlersInv
  BY <1>1 DEF HandlersInv
<1>8. FreedIsOut(heap) /\ Excused(heap)
  BY <1>1, HeapFields DEF FreedIsOut, Excused
<1>9. EventRefsInv
  <2>1. \A s \in Struct : One(s = atDesktop) = 0 /\ One(Carries(carried, s)) = 0
    BY <1>1, <1>2 DEF One, Carries
  <2>2. owed \in [Struct -> Nat]
    BY DEF ObjectsInit
  <2>3. /\ carried \subseteq Struct \X (Struct \cup {Nil}) /\ overheard \subseteq Struct
        /\ \A s \in Struct : stolen[s] > 0 => atDesktop = "gone" \/ s \in overheard
    BY <1>1
  <2>4. \A s \in Struct : owed[s] + One(s = atDesktop) + One(Carries(carried, s)) <= kept[s]
    BY <1>1, <2>1
  <2>5. QED
    BY <2>2, <2>3, <2>4 DEF EventRefsInv
<1>10. QED
  BY <1>3, <1>5, <1>6, <1>7, <1>8, <1>9 DEF ObjectsInv, HeapOK, ObjectsTypeOK

LEMMA ObjectsStutter ==
  ASSUME ObjectsInv, UNCHANGED objectVars
  PROVE  ObjectsInv'
<1>1. /\ heap' = heap /\ Others' = Others
      /\ UNCHANGED <<atDesktop, eventRefs, kept, stolen>>
  BY DEF objectVars, heapVars, handlerVars, heap, Others
<1>2. HeapOK(heap, Others)' /\ (heap \in Heaps)'
  BY <1>1 DEF ObjectsInv, HeapOK
<1>3. FreedIsOut(heap)'
  BY <1>1 DEF FreedIsOut, ObjectsInv
<1>4. PICK h : h = heap
  OBVIOUS
<1>5. Excused(h) /\ FreedIsOut(h) /\ HeapOK(h, Others) /\ Becomes(h)
  BY <1>4 DEF ObjectsInv, Becomes, heap, objectVars, heapVars
<1>6. Excused(heap)'
  BY <1>1, <1>5, SameEventRefs, HeapBecomes DEF ObjectsInv
<1>7. ObjectsTypeOK'
  BY <1>2 DEF ObjectsInv, ObjectsTypeOK, objectVars, handlerVars
<1>8. HandlersInv'
  <2>1. Stole' = Stole
    BY <1>1 DEF Stole, eventRefs
  <2>2. QED
    BY <2>1 DEF ObjectsInv, HandlersInv, objectVars, handlerVars, heapVars
<1>9. EventRefsInv'
  BY <1>1, SameEventRefs DEF ObjectsInv
<1>10. QED
  BY <1>2, <1>3, <1>6, <1>7, <1>8, <1>9 DEF ObjectsInv

(* Whatever an application announces of its objects, and whatever a client *)
(* does with them, the counts of spi-main.c are those of the table and of  *)
(* the references somebody has, and freed memory is met only where the     *)
(* invariant says: in the listeners' calls, in handlers and between them.  *)
THEOREM ObjectsInvariant == ObjectsSpec => []ObjectsInv
<1>1. ObjectsInit => ObjectsInv
  BY ObjectsStart
<1>2. ObjectsInv /\ [ObjectsNext]_objectVars => ObjectsInv'
  <2> SUFFICES ASSUME ObjectsInv, [ObjectsNext]_objectVars PROVE ObjectsInv'
    OBVIOUS
  <2>1. CASE \E u \in Updates : UpdateAccessible(u)
    BY <2>1, UpdateKeeps
  <2>2. CASE \E p \in Path : AddChild(p) \/ RemoveAccessible(p)
    BY <2>2, AddChildKeeps, RemoveKeeps
  <2>3. CASE AdditionDone
    BY <2>3, AdditionDoneKeeps
  <2>4. CASE RegisterApplication
    BY <2>4, RegisterKeeps
  <2>5. CASE DeregisterApplication
    BY <2>5, LeavesKeeps
  <2>6. CASE VisitDone
    BY <2>6, OuterDone, InnerDone
  <2>7. CASE \E c \in Struct : VisitChild(c)
    BY <2>7, VisitChildKeeps
  <2>8. CASE \E s, t \in Struct : ClientTakes(s, t)
    BY <2>8, TakesKeeps
  <2>9. CASE \E s \in Struct : ClientDrops(s)
    BY <2>9, DropsKeeps
  <2>10. CASE \E v \in Events : \/ EventArrives(v[1], v[2])
                               \/ \E s \in Struct \cup {Nil} : EventUnread(v[1], s)
    <3>1. PICK v \in Events : \/ EventArrives(v[1], v[2])
                              \/ \E s \in Struct \cup {Nil} : EventUnread(v[1], s)
      BY <2>10
    <3>2. v[1] \in Path /\ v[2] \in Path \cup {Nil}
      BY ObjectsAssumption
    <3>3. QED
      BY <3>1, <3>2, EventArrivesKeeps, EventUnreadKeeps
  <2>11. CASE \E e \in carried : EventHeard(e) \/ EventOver(e) \/ ClientTakesValue(e)
    BY <2>11, EventHeardKeeps, EventOverKeeps, TakesValueKeeps
  <2>12. CASE UNCHANGED objectVars
    BY <2>12, ObjectsStutter
  <2>13. QED
    BY <2>1, <2>2, <2>3, <2>4, <2>5, <2>6, <2>7, <2>8, <2>9, <2>10, <2>11, <2>12
    DEF ObjectsNext
<1>3. QED
  BY <1>1, <1>2, PTL DEF ObjectsSpec

LEMMA InTheTable ==
  ASSUME NEW s
  PROVE  One(In(heap, s)) = One(InTable(s)) /\ (In(heap, s) <=> InTable(s))
BY HeapFields DEF In, InTable

(* cspi_object_ref and cspi_object_unref_internal: an Accessible's count   *)
(* is that of its table and of the references others have to give back,    *)
(* and what a client holds is in live_refs, which SPI_exit counts as       *)
(* leaked, or was reported defunct.                                        *)
THEOREM ObjectsClientCounts == ObjectsSpec => []ClientCounts
<1>1. ObjectsInv => ClientCounts
  <2> SUFFICES ASSUME ObjectsInv, state = "running", NEW s \in Struct
               PROVE  /\ memory[s] = "used" => rc[s] = Counted(s) /\ rc[s] > 0
                      /\ held[s] > 0 => s \in live \cup reported
    BY DEF ClientCounts, RefsOfClientAdd, HeldIsCountedAtExit
  <2>1. ObjectsTypeOK /\ heap \in Heaps /\ Adds(heap, Others)
    BY DEF ObjectsInv, HeapOK
  <2>2. /\ memory[s] = "used" => rc[s] = One(In(heap, s)) + held[s] + Others[s] /\ rc[s] > 0
        /\ held[s] > 0 => s \in live \cup reported
    BY <2>1, HeapFields DEF Adds
  <2>3. /\ held[s] \in Nat /\ kept[s] \in Nat /\ stolen[s] \in Nat /\ One(mine = s) \in Nat
        /\ One(InTable(s)) \in Nat
    BY <2>1, HeapFields, HeapParts DEF ObjectsTypeOK, One
  <2>4. /\ Others[s] = kept[s] + One(mine = s) - stolen[s]
        /\ One(In(heap, s)) = One(InTable(s))
    BY <2>1, OthersType, InTheTable
  <2>5. One(In(heap, s)) + held[s] + Others[s] = Counted(s)
    BY <2>3, <2>4 DEF Counted
  <2>6. QED
    BY <2>2, <2>5
<1>2. QED
  BY <1>1, ObjectsInvariant, PTL

(* What a client holds is not freed, nor is what the table of an           *)
(* application has, but by the references remove_app_from_desktop drops    *)
(* and those that each listener of an event drops on its object value;     *)
(* freed memory is read only after that, or through a parent or a child    *)
(* that had been removed from the table.                                   *)
THEOREM ObjectsNothingUsedIsFreed == ObjectsSpec => []NothingUsedIsFreed
<1>1. ObjectsInv => HeldIsThere
  <2> SUFFICES ASSUME ObjectsInv, state = "running", NEW s \in Struct, held[s] > 0,
                      memory[s] # "used"
               PROVE  stolen[s] >= held[s] + One(InTable(s))
    BY DEF HeldIsThere
  <2>1. ObjectsTypeOK /\ heap \in Heaps /\ Adds(heap, Others)
    BY DEF ObjectsInv, HeapOK
  <2>2. One(In(heap, s)) + held[s] + Others[s] = 0
    BY <2>1, HeapFields DEF Adds
  <2>3. /\ held[s] \in Nat /\ kept[s] \in Nat /\ stolen[s] \in Nat /\ One(mine = s) \in Nat
        /\ One(InTable(s)) \in Nat
    BY <2>1, HeapFields, HeapParts DEF ObjectsTypeOK, One
  <2>4. /\ Others[s] = kept[s] + One(mine = s) - stolen[s]
        /\ One(In(heap, s)) = One(InTable(s))
    BY <2>1, OthersType, InTheTable
  <2>5. QED
    BY <2>2, <2>3, <2>4
<1>2. ObjectsInv => FreedOnlyWhenStolen
  <2> SUFFICES ASSUME ObjectsInv PROVE FreedOnlyWhenStolen
    OBVIOUS
  <2>1. \A s \in Struct : stolen[s] > 0 => atDesktop = "gone" \/ s \in overheard
    BY DEF ObjectsInv, EventRefsInv
  <2>2. \A p \in Path : table[p] # Nil /\ memory[table[p]] = "freed" => stolen[table[p]] > 0
    BY HeapFields DEF ObjectsInv, FreedIsOut
  <2>3. state = "freed" =>
          \/ \E s \in Struct : stolen[s] > 0 \/ s \in overheard
          \/ \E s, t \in Struct : /\ memory[s] = "used" /\ ~InTable(t)
                                  /\ t = parent[s] \/ (t \in children[s] /\ parent[t] # s)
    <3>1. Excused(heap) /\ \A t : In(heap, t) <=> InTable(t)
      BY InTheTable DEF ObjectsInv
    <3>2. QED
      BY <3>1, HeapFields DEF Excused, Stole
  <2>4. QED
    BY <2>1, <2>2, <2>3 DEF FreedOnlyWhenStolen
<1>3. QED
  BY <1>1, <1>2, ObjectsInvariant, PTL DEF NothingUsedIsFreed

==============================================================================
