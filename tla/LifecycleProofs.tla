--------------------------- MODULE LifecycleProofs ---------------------------
(***************************************************************************)
(* What holds of the bridge and the registry daemon for any number of key  *)
(* events, however deep the waits for answers nest.                        *)
(***************************************************************************)
EXTENDS BridgeLifecycle, TLAPS

Item == Key \cup {Embed, "deregister"}
Said == {"none", "desktop", "consumed", "passed", "error"}

LifeTyped ==
  /\ LifeTypeOK
  /\ waiting \in Seq(Waited \X Said) /\ inbox \in Seq(Item) /\ replies \subseteq Waited \X Said
  /\ said \in [Key -> {"nothing", "consumed", "passed"}]

EmbedWaits == waiting # <<>> /\ waiting[1][1] = Embed
Sent(x) == \E i \in DOMAIN inbox : inbox[i] = x
Waits(k) == \E i \in DOMAIN waiting : waiting[i][1] = k
Replied(k) == \E x \in Said : <<k, x>> \in replies

\* The bridge is there from its start to its shutdown, which no wait outlasts.
Started ==
  /\ ~inited => /\ listeners = {} /\ pressed = {} /\ app = "none" /\ ~routed /\ ~listed
                /\ waiting = <<>> /\ ~Sent(Embed) /\ program \in {"running", "exited"}
  /\ inited => app \in {"there", "freed"}
  /\ routed => inited
  /\ listeners \cap Deregistered # {} => app = "there"
  /\ waiting # <<>> /\ Running => app = "there"
  /\ listed => up

(* The desktop is missing only while the application waits to be embedded  *)
(* or because the registry was gone.                                       *)
DesktopOrGone ==
  /\ routed /\ ~desktop /\ root = "application" => EmbedWaits \/ (at_exit /\ ~up)
  /\ \A x \in Said : <<Embed, x>> \in replies => x = "desktop" \/ (x = "error" /\ ~up)
  /\ \A i \in DOMAIN waiting : waiting[i][1] = Embed =>
       waiting[i][2] \in {"none", "desktop"} \/ (waiting[i][2] = "error" /\ ~up)

(* A key event is sent once, then asked once, then answered once, and the  *)
(* answer is held once: at each stage there is no trace of the later ones. *)
Quiet(k) ==
  /\ told[k] = "nothing" /\ said[k] = "nothing" /\ ~Replied(k)
  /\ \A i \in DOMAIN waiting : waiting[i][1] = k => waiting[i][2] = "none"
Fits(x, k) == x = "consumed" <=> said[k] = "consumed"
InTime(k) ==
  /\ k \notin pressed => Quiet(k) /\ k \notin asked /\ ~Sent(k) /\ ~Waits(k)
  /\ Sent(k) => Quiet(k) /\ k \notin asked
  /\ k \in asked => Quiet(k)
  /\ \A x \in Said : <<k, x>> \in replies =>
       /\ x # "none" /\ Fits(x, k) /\ told[k] = "nothing"
       /\ \A y \in Said : <<k, y>> \in replies => y = x
       /\ \A i \in DOMAIN waiting : waiting[i][1] = k => waiting[i][2] = "none"
  /\ \A i \in DOMAIN waiting : waiting[i][1] = k =>
       /\ told[k] = "nothing"
       /\ \A j \in DOMAIN waiting : waiting[j][1] = k => j = i
       /\ waiting[i][2] # "none" =>
            Fits(waiting[i][2], k) /\ k \notin asked /\ ~Sent(k) /\ ~Replied(k)

(* One that was waited for too long is not told that it was consumed,      *)
(* whatever is yet to come of it.                                          *)
Overdue(k) ==
  /\ reenter /\ told[k] # "consumed"
  /\ \A i \in DOMAIN waiting : waiting[i][1] = k => waiting[i][2] = "error"
Stages(k) == (k \in late => Overdue(k)) /\ (k \notin late => InTime(k))
SentOnce ==
  \A i, j \in DOMAIN inbox : inbox[i] = inbox[j] /\ inbox[i] \in Key => i = j

(* An application that is listed, or about to be, will be taken off: its   *)
(* exit handler will see to it, or what does so is on its way.             *)
OffIsSent ==
  \E i \in DOMAIN inbox :
    inbox[i] = "deregister" /\ \A j \in DOMAIN inbox : inbox[j] = Embed => j < i
WillBeOff ==
  listed \/ Sent(Embed) =>
    EmbedWaits \/ (app = "there" /\ at_exit /\ program # "exited") \/ OffIsSent

LifeInv ==
  /\ LifeTyped /\ Started
  /\ DesktopOrGone /\ NullOnlyAfterShutdown
  /\ (\A k \in Key : Stages(k)) /\ SentOnce /\ OwnAnswer
  /\ WillBeOff

-----------------------------------------------------------------------------
(* Queues *)

LEMMA Ends ==
  ASSUME NEW S, NEW q \in Seq(S)
  PROVE  /\ Len(q) \in Nat /\ DOMAIN q = 1 .. Len(q) /\ \A i \in DOMAIN q : q[i] \in S
         /\ q # <<>> => 1 \in DOMAIN q /\ Len(q) \in DOMAIN q /\ Head(q) = q[1]
OBVIOUS

LEMMA OneMore ==
  ASSUME NEW S, NEW q \in Seq(S), NEW m \in S
  PROVE  /\ Append(q, m) \in Seq(S) /\ Len(q) \in Nat /\ DOMAIN q = 1 .. Len(q)
         /\ DOMAIN Append(q, m) = 1 .. Len(q) + 1
         /\ Append(q, m)[Len(q) + 1] = m
         /\ \A i \in DOMAIN q : i \in DOMAIN Append(q, m) /\ Append(q, m)[i] = q[i]
         /\ \A i \in DOMAIN Append(q, m) : i \in DOMAIN q \/ i = Len(q) + 1
OBVIOUS

LEMMA OneLess ==
  ASSUME NEW S, NEW q \in Seq(S), q # <<>>
  PROVE  /\ Tail(q) \in Seq(S)
         /\ \A i \in DOMAIN Tail(q) : i \in Nat /\ i + 1 \in DOMAIN q /\ Tail(q)[i] = q[i + 1]
         /\ \A i \in DOMAIN q :
              i \in Nat \ {0} /\ (i # 1 => i - 1 \in DOMAIN Tail(q) /\ Tail(q)[i - 1] = q[i])
<1>1. Len(q) \in Nat /\ Len(q) # 0 /\ DOMAIN q = 1 .. Len(q)
  OBVIOUS
<1>2. Tail(q) \in Seq(S) /\ Len(Tail(q)) = Len(q) - 1 /\ DOMAIN Tail(q) = 1 .. Len(q) - 1
  BY <1>1
<1>3. \A i \in 1 .. Len(q) - 1 : Tail(q)[i] = q[i + 1]
  BY <1>1
<1>4. QED
  BY <1>1, <1>2, <1>3

LEMMA AllButLast ==
  ASSUME NEW S, NEW q \in Seq(S), q # <<>>
  PROVE  LET p == SubSeq(q, 1, Len(q) - 1) IN
         /\ p \in Seq(S)
         /\ \A i \in DOMAIN p : i \in DOMAIN q /\ i # Len(q) /\ p[i] = q[i]
         /\ \A i \in DOMAIN q : i # Len(q) => i \in DOMAIN p /\ p[i] = q[i]
<1> DEFINE p == SubSeq(q, 1, Len(q) - 1)
<1>1. Len(q) \in Nat /\ Len(q) # 0 /\ DOMAIN q = 1 .. Len(q)
  OBVIOUS
<1>2. \A i \in 1 .. Len(q) - 1 : q[i] \in S
  BY <1>1
<1>3. p \in Seq(S) /\ Len(p) = Len(q) - 1
  BY <1>1, <1>2
<1>4. DOMAIN p = 1 .. Len(q) - 1
  BY <1>1, <1>3
<1>5. \A i \in 1 .. Len(q) - 1 : p[i] = q[i]
  BY <1>1
<1>6. QED
  BY <1>1, <1>3, <1>4, <1>5

\* The registry is sent one thing more.
LEMMA OneSent ==
  ASSUME LifeInv, NEW m \in Item, inbox' = Append(inbox, m)
  PROVE  /\ inbox' \in Seq(Item) /\ inbox' # <<>>
         /\ Sent(m)' /\ \A x : x # m => (Sent(x)' <=> Sent(x))
         /\ m \notin Key \/ ~Sent(m) => SentOnce'
         /\ m # Embed /\ OffIsSent => OffIsSent'
         /\ m = "deregister" => OffIsSent'
<1>1. /\ inbox \in Seq(Item) /\ inbox' \in Seq(Item) /\ Len(inbox) \in Nat
      /\ DOMAIN inbox = 1 .. Len(inbox) /\ DOMAIN inbox' = 1 .. Len(inbox) + 1
      /\ inbox'[Len(inbox) + 1] = m
      /\ \A i \in DOMAIN inbox : i \in DOMAIN inbox' /\ inbox'[i] = inbox[i]
      /\ \A i \in DOMAIN inbox' : i \in DOMAIN inbox \/ i = Len(inbox) + 1
  BY OneMore DEF LifeInv, LifeTyped
<1>2. Len(inbox) + 1 \in DOMAIN inbox'
  BY <1>1
<1>3. inbox' # <<>>
  BY <1>1
<1>4. Sent(m)' /\ \A x : x # m => (Sent(x)' <=> Sent(x))
  BY <1>1, <1>2 DEF Sent
<1>5. ASSUME m \notin Key \/ ~Sent(m) PROVE SentOnce'
  <2> SUFFICES ASSUME NEW i \in DOMAIN inbox', NEW j \in DOMAIN inbox',
                      inbox'[i] = inbox'[j], inbox'[i] \in Key
               PROVE  i = j
    BY DEF SentOnce
  <2>1. CASE i \in DOMAIN inbox /\ j \in DOMAIN inbox
    BY <1>1, <2>1 DEF LifeInv, SentOnce
  <2>2. CASE i \notin DOMAIN inbox \/ j \notin DOMAIN inbox
    BY <1>1, <1>5, <2>2 DEF Sent
  <2>3. QED
    BY <2>1, <2>2
<1>6. ASSUME m # Embed, OffIsSent PROVE OffIsSent'
  <2>1. PICK i \in DOMAIN inbox :
          inbox[i] = "deregister" /\ \A j \in DOMAIN inbox : inbox[j] = Embed => j < i
    BY <1>6 DEF OffIsSent
  <2>2. \A j \in DOMAIN inbox' : inbox'[j] = Embed => j < i
    BY <1>1, <1>6, <2>1
  <2>3. QED
    BY <1>1, <2>1, <2>2 DEF OffIsSent
<1>7. ASSUME m = "deregister" PROVE OffIsSent'
  <2>1. "deregister" # Embed
    BY DEF Embed
  <2>2. \A j \in DOMAIN inbox' : inbox'[j] = Embed => j < Len(inbox) + 1
    BY <1>1, <1>7, <2>1
  <2>3. QED
    BY <1>1, <1>2, <1>7, <2>2 DEF OffIsSent
<1>8. QED
  BY <1>1, <1>3, <1>4, <1>5, <1>6, <1>7

\* The registry, or the bus, takes what was sent first.
LEMMA OneTaken ==
  ASSUME LifeInv, inbox # <<>>, inbox' = Tail(inbox), NEW h, h = Head(inbox)
  PROVE  /\ inbox' \in Seq(Item) /\ h \in Item /\ Sent(h)
         /\ \A x : Sent(x)' => Sent(x)
         /\ h \in Key => ~Sent(h)'
         /\ SentOnce'
         /\ OffIsSent => OffIsSent' \/ (h = "deregister" /\ ~Sent(Embed)')
<1>1. /\ inbox \in Seq(Item) /\ inbox' \in Seq(Item)
      /\ \A i \in DOMAIN inbox' : i \in Nat /\ i + 1 \in DOMAIN inbox /\ inbox'[i] = inbox[i + 1]
      /\ \A i \in DOMAIN inbox :
           i \in Nat \ {0} /\ (i # 1 => i - 1 \in DOMAIN inbox' /\ inbox'[i - 1] = inbox[i])
  BY OneLess DEF LifeInv, LifeTyped
<1>2. 1 \in DOMAIN inbox /\ h = inbox[1] /\ h \in Item
  BY <1>1, Ends
<1>3. Sent(h) /\ \A x : Sent(x)' => Sent(x)
  BY <1>1, <1>2 DEF Sent
<1>4. SentOnce'
  <2> SUFFICES ASSUME NEW i \in DOMAIN inbox', NEW j \in DOMAIN inbox',
                      inbox'[i] = inbox'[j], inbox'[i] \in Key
               PROVE  i = j
    BY DEF SentOnce
  <2>1. i + 1 = j + 1 /\ i \in Nat /\ j \in Nat
    BY <1>1 DEF LifeInv, SentOnce
  <2>2. QED
    BY <2>1
<1>5. ASSUME h \in Key PROVE ~Sent(h)'
  <2>1. ASSUME NEW i \in DOMAIN inbox', inbox'[i] = h PROVE FALSE
    <3>1. i + 1 = 1 /\ i \in Nat
      BY <1>1, <1>2, <1>5, <2>1 DEF LifeInv, SentOnce
    <3>2. i \in DOMAIN inbox
      BY <3>1, <1>1, <1>2, Ends
    <3>3. QED
      BY <1>1, <3>1, <3>2
  <2>2. QED
    BY <2>1 DEF Sent
<1>6. ASSUME OffIsSent, OffIsSent' \/ (h = "deregister" /\ ~Sent(Embed)') => FALSE
      PROVE  FALSE
  <2>1. PICK i \in DOMAIN inbox :
          inbox[i] = "deregister" /\ \A j \in DOMAIN inbox : inbox[j] = Embed => j < i
    BY <1>6 DEF OffIsSent
  <2>2. CASE i = 1
    <3>1. \A j \in DOMAIN inbox' : inbox'[j] # Embed
      BY <1>1, <2>1, <2>2
    <3>2. QED
      BY <1>2, <1>6, <2>1, <2>2, <3>1 DEF Sent, Embed
  <2>3. CASE i # 1
    <3>1. i - 1 \in DOMAIN inbox' /\ inbox'[i - 1] = "deregister"
      BY <1>1, <2>1, <2>3
    <3>2. \A j \in DOMAIN inbox' : inbox'[j] = Embed => j < i - 1
      BY <1>1, <2>1
    <3>3. QED
      BY <1>6, <3>1, <3>2 DEF OffIsSent
  <2>4. QED
    BY <2>2, <2>3
<1>7. QED
  BY <1>1, <1>2, <1>3, <1>4, <1>5, <1>6

\* What is in the queues is what it should be, and a wait to be embedded is alone.
LEMMA InTheQueues ==
  ASSUME LifeInv
  PROVE  /\ waiting \in Seq(Waited \X Said) /\ inbox \in Seq(Item)
         /\ \A i \in DOMAIN waiting :
              /\ waiting[i] \in Waited \X Said
              /\ waiting[i][1] = Embed => i = Len(waiting) /\ Len(waiting) = 1 /\ pressed = {}
         /\ waiting # <<>> => Len(waiting) \in DOMAIN waiting /\ 1 \in DOMAIN waiting
         /\ Embed \notin Key /\ "deregister" \notin Key /\ Embed # "deregister"
         /\ EmbedWaits => waiting # <<>> /\ Top[1] = Embed
<1>1. waiting \in Seq(Waited \X Said) /\ inbox \in Seq(Item)
  BY DEF LifeInv, LifeTyped
<1>2. \A i \in DOMAIN waiting : waiting[i] \in Waited \X Said
  BY <1>1, Ends
<1>3. \A i \in DOMAIN waiting :
        waiting[i][1] = Embed => i = Len(waiting) /\ Len(waiting) = 1 /\ pressed = {}
  BY DEF LifeInv, LifeTyped, LifeTypeOK
<1>4. waiting # <<>> => Len(waiting) \in DOMAIN waiting /\ 1 \in DOMAIN waiting
  BY <1>1, Ends
<1>5. Embed \notin Key /\ "deregister" \notin Key /\ Embed # "deregister"
  BY LifeAssumption DEF Embed
<1>6. EmbedWaits => waiting # <<>> /\ Top[1] = Embed
  BY <1>3, <1>4 DEF EmbedWaits, Top
<1>7. QED
  BY <1>1, <1>2, <1>3, <1>4, <1>5, <1>6

\* what OwnAnswer says of one key event
Own(k) ==
  /\ told[k] = "consumed" => said[k] = "consumed" /\ k \notin late
  /\ told[k] = "passed" /\ said[k] = "consumed" => k \in late

\* A key event that was waited for too long stays so.
LEMMA LateStands ==
  ASSUME LifeInv, NEW k \in Key, k \in late, k \in late', reenter' = reenter,
         told'[k] = told[k] \/ told'[k] = "passed",
         \A i \in DOMAIN waiting' : waiting'[i][1] = k =>
           i \in DOMAIN waiting /\ waiting[i][1] = k /\ waiting[i][2] = waiting'[i][2]
  PROVE  Stages(k)' /\ Own(k)'
BY DEF LifeInv, Stages, Overdue, Own

\* One that has not been is in time.
LEMMA Timely ==
  ASSUME LifeInv, NEW k \in Key, k \notin late
  PROVE  InTime(k) /\ Own(k)
BY DEF LifeInv, Stages, OwnAnswer, Own

\* A key event of which there are no new traces stands as it did.
LEMMA KeyStands ==
  ASSUME LifeInv, NEW k \in Key, reenter' = reenter, k \in late' <=> k \in late,
         told'[k] = told[k], said'[k] = said[k], k \in pressed => k \in pressed',
         k \in asked' => k \in asked, Sent(k)' => Sent(k),
         \A x \in Said : <<k, x>> \in replies' => <<k, x>> \in replies,
         \A i \in DOMAIN waiting' : waiting'[i][1] = k =>
           i \in DOMAIN waiting /\ waiting[i][1] = k /\ waiting[i][2] = waiting'[i][2]
  PROVE  Stages(k)' /\ Own(k)'
<1>1. CASE k \in late
  BY <1>1, LateStands
<1>2. CASE k \notin late
  <2>1. InTime(k) /\ Own(k)
    BY <1>2, Timely
  <2>2. Quiet(k) => Quiet(k)'
    BY DEF Quiet, Replied
  <2>4. (k \notin pressed => Quiet(k) /\ k \notin asked /\ ~Sent(k) /\ ~Waits(k))'
    BY <2>1, <2>2 DEF InTime, Waits
  <2>5. (Sent(k) => Quiet(k) /\ k \notin asked)' /\ (k \in asked => Quiet(k))'
    BY <2>1, <2>2 DEF InTime
  <2>6. ASSUME NEW x \in Said, <<k, x>> \in replies'
        PROVE  /\ x # "none" /\ (x = "consumed" <=> said'[k] = "consumed") /\ told'[k] = "nothing"
               /\ \A y \in Said : <<k, y>> \in replies' => y = x
               /\ \A i \in DOMAIN waiting' : waiting'[i][1] = k => waiting'[i][2] = "none"
    BY <2>1, <2>6 DEF InTime, Fits
  <2>7. ASSUME NEW i \in DOMAIN waiting', waiting'[i][1] = k
        PROVE  /\ told'[k] = "nothing"
               /\ \A j \in DOMAIN waiting' : waiting'[j][1] = k => j = i
               /\ waiting'[i][2] # "none" =>
                    /\ waiting'[i][2] = "consumed" <=> said'[k] = "consumed"
                    /\ k \notin asked' /\ ~Sent(k)' /\ ~Replied(k)'
    <3>1. i \in DOMAIN waiting /\ waiting[i][1] = k /\ waiting[i][2] = waiting'[i][2]
      BY <2>7
    <3>2. told'[k] = "nothing" /\ \A j \in DOMAIN waiting' : waiting'[j][1] = k => j = i
      BY <2>1, <3>1 DEF InTime
    <3>3. ASSUME waiting'[i][2] # "none"
          PROVE  /\ waiting'[i][2] = "consumed" <=> said'[k] = "consumed"
                 /\ k \notin asked' /\ ~Sent(k)' /\ ~Replied(k)'
      <4>1. Fits(waiting[i][2], k) /\ k \notin asked /\ ~Sent(k) /\ ~Replied(k)
        BY <2>1, <3>1, <3>3 DEF InTime
      <4>2. waiting'[i][2] = "consumed" <=> said'[k] = "consumed"
        BY <3>1, <4>1 DEF Fits
      <4>3. QED
        BY <4>1, <4>2 DEF Replied
    <3>4. QED
      BY <3>2, <3>3
  <2>8. InTime(k)'
    BY <2>4, <2>5, <2>6, <2>7 DEF InTime, Fits
  <2>9. QED
    BY <1>2, <2>1, <2>8 DEF Own, Stages
<1>3. QED
  BY <1>1, <1>2

\* The keys are as they should be, and what is left to show is listed.
LEMMA Whole ==
  ASSUME LifeTyped', Started', DesktopOrGone', NullOnlyAfterShutdown', SentOnce', WillBeOff',
         \A k \in Key : Stages(k)' /\ Own(k)'
  PROVE  LifeInv'
<1>1. late' # {} => reenter'
  BY DEF LifeTyped, LifeTypeOK, Stages, Overdue
<1>2. OwnAnswer'
  BY <1>1 DEF OwnAnswer, Own
<1>3. QED
  BY <1>2 DEF LifeInv

-----------------------------------------------------------------------------
(* Start *)

LEMMA InvInit == LifeInit => LifeInv
<1> SUFFICES ASSUME LifeInit PROVE LifeInv
  OBVIOUS
<1> USE DEF LifeInit
<1>1. waiting = <<>> /\ inbox = <<>> /\ DOMAIN waiting = {} /\ DOMAIN inbox = {}
  OBVIOUS
<1>2. LifeTyped
  <2>1. waiting \in Seq(Waited \X Said) /\ inbox \in Seq(Item)
    BY <1>1
  <2>2. LifeTypeOK
    BY <1>1 DEF LifeTypeOK, RootKind
  <2>3. QED
    BY <2>1, <2>2 DEF LifeTyped
<1>3. Started /\ SentOnce /\ WillBeOff
  BY <1>1 DEF Started, SentOnce, WillBeOff, Sent
<1>4. DesktopOrGone /\ NullOnlyAfterShutdown
  BY <1>1 DEF DesktopOrGone, NullOnlyAfterShutdown
<1>5. OwnAnswer
  BY DEF OwnAnswer
<1>6. \A k \in Key : Stages(k)
  BY <1>1 DEF Stages, InTime, Quiet, Replied, Sent, Waits
<1>7. QED
  BY <1>2, <1>3, <1>4, <1>5, <1>6 DEF LifeInv

\* The module starts, in whole or in part, when nothing has happened yet.
LEMMA NotYet ==
  ASSUME LifeInv, ~inited
  PROVE  /\ listeners = {} /\ pressed = {} /\ app = "none" /\ ~routed /\ ~listed
         /\ waiting = <<>> /\ ~Sent(Embed) /\ DOMAIN waiting = {}
BY DEF LifeInv, Started

LEMMA InvModuleInit == LifeInv /\ ModuleInit => LifeInv'
<1> SUFFICES ASSUME LifeInv, ModuleInit PROVE LifeInv'
  OBVIOUS
<1> USE DEF ModuleInit, AtRest, Running
<1>1. /\ listeners = {} /\ pressed = {} /\ app = "none" /\ ~routed /\ ~listed
      /\ waiting = <<>> /\ ~Sent(Embed) /\ DOMAIN waiting = {}
  BY NotYet
<1>2. CASE root = "application"
  <2>1. inbox' = Append(inbox, Embed) /\ waiting' = <<<<Embed, "none">>>>
    BY <1>2
  <2>2. /\ inbox' \in Seq(Item) /\ Sent(Embed)' /\ SentOnce'
        /\ \A x : x # Embed => (Sent(x)' <=> Sent(x))
    BY <2>1, OneSent, InTheQueues DEF Item
  <2>3. /\ waiting' \in Seq(Waited \X Said) /\ waiting' # <<>> /\ DOMAIN waiting' = {1}
        /\ Len(waiting') = 1 /\ waiting'[1] = <<Embed, "none">>
    BY <2>1 DEF Waited, Said
  <2>4. LifeTyped'
    <3>1. LifeTypeOK'
      BY <1>1, <2>3 DEF LifeInv, LifeTyped, LifeTypeOK, Listener
    <3>2. QED
      BY <3>1, <2>2, <2>3 DEF LifeInv, LifeTyped
  <2>5. EmbedWaits'
    BY <2>3 DEF EmbedWaits
  <2>6. Started' /\ WillBeOff'
    BY <1>1, <2>5 DEF Started, WillBeOff
  <2>7. DesktopOrGone'
    <3>1. \A i \in DOMAIN waiting' : waiting'[i][2] = "none"
      BY <2>3
    <3>2. QED
      BY <2>5, <3>1 DEF LifeInv, DesktopOrGone
  <2>8. NullOnlyAfterShutdown'
    BY DEF NullOnlyAfterShutdown
  <2>9. ASSUME NEW k \in Key PROVE Stages(k)' /\ Own(k)'
    <3>1. k # Embed
      BY InTheQueues
    <3>2. \A i \in DOMAIN waiting' : waiting'[i][1] # k
      BY <2>3, <3>1
    <3>3. Sent(k)' => Sent(k)
      BY <2>2, <3>1
    <3>4. QED
      BY <3>2, <3>3, KeyStands
  <2>10. QED
    BY <2>2, <2>4, <2>6, <2>7, <2>8, <2>9, Whole
<1>3. CASE root # "application"
  <2>1. LifeTyped'
    BY <1>1, <1>3 DEF LifeInv, LifeTyped, LifeTypeOK, Listener
  <2>2. Started' /\ WillBeOff' /\ SentOnce'
    BY <1>1, <1>3 DEF LifeInv, Started, WillBeOff, Sent, SentOnce
  <2>3. DesktopOrGone' /\ NullOnlyAfterShutdown'
    BY <1>1, <1>3 DEF LifeInv, DesktopOrGone, NullOnlyAfterShutdown
  <2>4. ASSUME NEW k \in Key PROVE Stages(k)' /\ Own(k)'
    <3>1. Sent(k)' => Sent(k)
      BY <1>3 DEF Sent
    <3>2. QED
      BY <1>1, <1>3, <3>1, KeyStands
  <2>5. QED
    BY <2>1, <2>2, <2>3, <2>4, Whole
<1>4. QED
  BY <1>2, <1>3

LEMMA InvModuleInitTaken == LifeInv /\ ModuleInitTaken => LifeInv'
<1> SUFFICES ASSUME LifeInv, ModuleInitTaken PROVE LifeInv'
  OBVIOUS
<1> USE DEF ModuleInitTaken, AtRest, Running, registrySide
<1>1. /\ listeners = {} /\ pressed = {} /\ app = "none" /\ ~routed /\ ~listed
      /\ waiting = <<>> /\ ~Sent(Embed) /\ DOMAIN waiting = {}
  BY NotYet
<1>2. LifeTyped'
  BY <1>1 DEF LifeInv, LifeTyped, LifeTypeOK, Listener
<1>3. Started' /\ WillBeOff' /\ SentOnce'
  BY <1>1 DEF LifeInv, Started, WillBeOff, Sent, SentOnce
<1>4. DesktopOrGone' /\ NullOnlyAfterShutdown'
  BY <1>1 DEF LifeInv, DesktopOrGone, NullOnlyAfterShutdown
<1>5. ASSUME NEW k \in Key PROVE Stages(k)' /\ Own(k)'
  <2>1. Sent(k)' => Sent(k)
    BY DEF Sent
  <2>2. QED
    BY <1>1, <2>1, KeyStands
<1>6. QED
  BY <1>2, <1>3, <1>4, <1>5, Whole

-----------------------------------------------------------------------------
(* What else happens, and the end *)

allButProgram == <<started, at_exit, desktop, waiting, pressed, late, told, registrySide>>

\* A step in which the program runs on, or stops at what is NULL.
LEMMA RunsOn ==
  ASSUME LifeInv, Running, inited, UNCHANGED allButProgram,
         program' \in {"running", "no bridge", "no desktop"}, NullOnlyAfterShutdown'
  PROVE  LifeInv'
<1> USE DEF allButProgram, started, registrySide
<1>1. LifeTyped'
  BY DEF LifeInv, LifeTyped, LifeTypeOK
<1>2. Started' /\ DesktopOrGone' /\ SentOnce'
  BY DEF LifeInv, Started, Running, Sent, DesktopOrGone, EmbedWaits, SentOnce
<1>3. WillBeOff'
  BY DEF LifeInv, WillBeOff, EmbedWaits, Sent, OffIsSent
<1>4. ASSUME NEW k \in Key PROVE Stages(k)' /\ Own(k)'
  <2>1. Sent(k)' => Sent(k)
    BY DEF Sent
  <2>2. QED
    BY <2>1, KeyStands
<1>5. QED
  BY <1>1, <1>2, <1>3, <1>4, Whole

\* Whoever finds no bridge finds it gone and its listeners with it.
LEMMA GoneWhole ==
  ASSUME LifeInv, inited
  PROVE  app # "there" => app = "freed" /\ listeners \cap Deregistered = {}
BY DEF LifeInv, Started

LEMMA InvEmits == \A l \in Listener : LifeInv /\ Emits(l) => LifeInv'
<1> SUFFICES ASSUME LifeInv, NEW l \in Listener, Emits(l) PROVE LifeInv'
  OBVIOUS
<1> USE DEF Emits, Running
<1>1. inited
  BY DEF LifeInv, Started
<1>2. NullOnlyAfterShutdown'
  BY <1>1, GoneWhole DEF NullOnlyAfterShutdown, started
<1>3. QED
  BY <1>1, <1>2, RunsOn DEF allButProgram

LEMMA InvClientCall == LifeInv /\ ClientCall => LifeInv'
<1> SUFFICES ASSUME LifeInv, ClientCall PROVE LifeInv'
  OBVIOUS
<1> USE DEF ClientCall, Running
<1>1. inited
  BY DEF LifeInv, Started
<1>2. NullOnlyAfterShutdown'
  BY <1>1, GoneWhole DEF NullOnlyAfterShutdown, started
<1>3. QED
  BY <1>1, <1>2, RunsOn DEF allButProgram

LEMMA InvClientAsksForDesktop == LifeInv /\ ClientAsksForDesktop => LifeInv'
<1> SUFFICES ASSUME LifeInv, ClientAsksForDesktop PROVE LifeInv'
  OBVIOUS
<1> USE DEF ClientAsksForDesktop, Running
<1>1. inited
  BY DEF LifeInv, Started
<1>2. ~desktop => root = "unregistered" \/ EmbedWaits \/ (at_exit /\ ~up)
  BY DEF LifeInv, LifeTyped, LifeTypeOK, RootKind, DesktopOrGone
<1>3. NullOnlyAfterShutdown'
  BY <1>2 DEF NullOnlyAfterShutdown, EmbedWaits, started, registrySide
<1>4. QED
  BY <1>1, <1>3, RunsOn DEF allButProgram

\* Where there is a bridge, exit_func leaves the word that takes it off the list.
LEMMA Leaves ==
  ASSUME LifeInv, Running, ExitFunc, program' \in {"running", "exited"},
         waiting = <<>> \/ program' = "exited",
         UNCHANGED <<root, reenter, inited, routed, at_exit, desktop, waiting, pressed,
                     late, told, up, asked, replies, said, listed>>
  PROVE  LifeInv'
<1> USE DEF ExitFunc, Running
<1>1. CASE app = "there"
  <2>1. /\ app' = "freed" /\ listeners' = listeners \ Deregistered
        /\ inbox' = Append(inbox, "deregister")
    BY <1>1
  <2>2. /\ inbox' \in Seq(Item) /\ SentOnce' /\ OffIsSent'
        /\ \A x : x # "deregister" => (Sent(x)' <=> Sent(x))
    BY <2>1, OneSent, InTheQueues DEF Item
  <2>3. inited
    BY <1>1 DEF LifeInv, Started
  <2>4. LifeTyped'
    BY <2>1, <2>2 DEF LifeInv, LifeTyped, LifeTypeOK
  <2>5. Started' /\ NullOnlyAfterShutdown' /\ WillBeOff'
    BY <2>1, <2>2, <2>3 DEF LifeInv, Started, NullOnlyAfterShutdown, WillBeOff
  <2>6. DesktopOrGone'
    BY DEF LifeInv, DesktopOrGone, EmbedWaits
  <2>7. ASSUME NEW k \in Key PROVE Stages(k)' /\ Own(k)'
    <3>1. Sent(k)' => Sent(k)
      BY <2>2, InTheQueues
    <3>2. QED
      BY <3>1, KeyStands
  <2>8. QED
    BY <2>2, <2>4, <2>5, <2>6, <2>7, Whole
<1>2. CASE app # "there"
  <2>1. UNCHANGED <<app, listeners, inbox>>
    BY <1>2
  <2>2. LifeTyped'
    BY <2>1 DEF LifeInv, LifeTyped, LifeTypeOK
  <2>3. Started' /\ NullOnlyAfterShutdown' /\ SentOnce' /\ DesktopOrGone'
    BY <2>1 DEF LifeInv, Started, Sent, NullOnlyAfterShutdown, SentOnce, DesktopOrGone, EmbedWaits
  <2>4. WillBeOff'
    BY <1>2, <2>1 DEF LifeInv, WillBeOff, EmbedWaits, Sent, OffIsSent
  <2>5. ASSUME NEW k \in Key PROVE Stages(k)' /\ Own(k)'
    <3>1. Sent(k)' => Sent(k)
      BY <2>1 DEF Sent
    <3>2. QED
      BY <3>1, KeyStands
  <2>6. QED
    BY <2>2, <2>3, <2>4, <2>5, Whole
<1>3. QED
  BY <1>1, <1>2

LEMMA InvModuleShutdown == LifeInv /\ ModuleShutdown => LifeInv'
BY Leaves DEF ModuleShutdown, AtRest, Running

LEMMA InvExit == LifeInv /\ Exit => LifeInv'
<1> SUFFICES ASSUME LifeInv, Exit PROVE LifeInv'
  OBVIOUS
<1>1. CASE at_exit
  BY <1>1, Leaves DEF Exit
<1>2. CASE ~at_exit
  <2> USE <1>2 DEF Exit, Running
  <2>1. LifeTyped'
    BY DEF LifeInv, LifeTyped, LifeTypeOK
  <2>2. Started' /\ NullOnlyAfterShutdown' /\ SentOnce' /\ DesktopOrGone'
    BY DEF LifeInv, Started, Sent, NullOnlyAfterShutdown, SentOnce, DesktopOrGone, EmbedWaits
  <2>3. WillBeOff'
    BY DEF LifeInv, WillBeOff, EmbedWaits, Sent, OffIsSent
  <2>4. ASSUME NEW k \in Key PROVE Stages(k)' /\ Own(k)'
    <3>1. Sent(k)' => Sent(k)
      BY DEF Sent
    <3>2. QED
      BY <3>1, KeyStands
  <2>5. QED
    BY <2>1, <2>2, <2>3, <2>4, Whole
<1>3. QED
  BY <1>1, <1>2

-----------------------------------------------------------------------------
(* Waiting for the registry *)

\* A bridge that waits has been started, and is there while the program runs.
LEMMA Waiter ==
  ASSUME LifeInv, Running, waiting # <<>>
  PROVE  inited /\ app = "there"
BY DEF LifeInv, Started

LEMMA InvDeliver == \A r \in replies : LifeInv /\ Deliver(r) => LifeInv'
<1> SUFFICES ASSUME LifeInv, NEW r \in replies, Deliver(r) PROVE LifeInv'
  OBVIOUS
<1> USE DEF Deliver, Running, started
<1>1. replies \subseteq Waited \X Said
  BY DEF LifeInv, LifeTyped
<1>2. PICK h \in Waited, b \in Said : r = <<h, b>>
  BY <1>1
<1>3. /\ DOMAIN waiting' = DOMAIN waiting
      /\ \A i \in DOMAIN waiting :
           waiting'[i] = IF waiting[i] = <<h, "none">> THEN <<h, b>> ELSE waiting[i]
  BY <1>2
<1>4. \A i \in DOMAIN waiting : waiting'[i][1] = waiting[i][1]
  BY <1>2, <1>3
<1>5. waiting' \in Seq(Waited \X Said) /\ Len(waiting') = Len(waiting)
  <2>1. waiting \in Seq(Waited \X Said) /\ DOMAIN waiting = 1 .. Len(waiting) /\ Len(waiting) \in Nat
    BY InTheQueues, Ends
  <2>2. \A i \in 1 .. Len(waiting) : waiting'[i] \in Waited \X Said
    BY <1>2, <1>3, <2>1, InTheQueues
  <2>3. waiting' = [i \in 1 .. Len(waiting) |-> waiting'[i]]
    BY <2>1
  <2>4. waiting' \in [1 .. Len(waiting) -> Waited \X Said]
    BY <2>2, <2>3
  <2>5. QED
    BY <2>1, <2>4
<1>6. waiting' = <<>> <=> waiting = <<>>
  BY <1>5, InTheQueues
<1>7. EmbedWaits' <=> EmbedWaits
  BY <1>4, <1>6, InTheQueues DEF EmbedWaits
<1>8. LifeTyped'
  <2>1. LifeTypeOK'
    BY <1>3, <1>4, <1>5 DEF LifeInv, LifeTyped, LifeTypeOK
  <2>2. QED
    BY <1>5, <2>1 DEF LifeInv, LifeTyped
<1>9. Started' /\ SentOnce' /\ NullOnlyAfterShutdown'
  BY <1>6 DEF LifeInv, Started, Sent, SentOnce, NullOnlyAfterShutdown
<1>10. WillBeOff'
  BY <1>7 DEF LifeInv, WillBeOff, Sent, OffIsSent
<1>11. DesktopOrGone'
  <2>1. \A x \in Said : <<Embed, x>> \in replies => x = "desktop" \/ (x = "error" /\ ~up)
    BY DEF LifeInv, DesktopOrGone
  <2>2. ASSUME NEW i \in DOMAIN waiting', waiting'[i][1] = Embed
        PROVE  waiting'[i][2] \in {"none", "desktop"} \/ (waiting'[i][2] = "error" /\ ~up)
    <3>1. CASE waiting[i] = <<h, "none">> /\ h = Embed
      BY <1>2, <1>3, <2>1, <2>2, <3>1
    <3>2. CASE ~(waiting[i] = <<h, "none">> /\ h = Embed)
      <4>1. waiting'[i] = waiting[i] /\ i \in DOMAIN waiting
        BY <1>3, <1>4, <2>2, <3>2
      <4>2. QED
        BY <2>2, <4>1 DEF LifeInv, DesktopOrGone
    <3>3. QED
      BY <3>1, <3>2
  <2>3. QED
    BY <1>7, <2>1, <2>2 DEF LifeInv, DesktopOrGone
<1>12. ASSUME NEW k \in Key, k # h PROVE Stages(k)' /\ Own(k)'
  <2>1. \A i \in DOMAIN waiting' : waiting'[i][1] = k =>
          i \in DOMAIN waiting /\ waiting[i][1] = k /\ waiting[i][2] = waiting'[i][2]
    BY <1>3, <1>12
  <2>2. Sent(k)' => Sent(k)
    BY DEF Sent
  <2>3. QED
    BY <2>1, <2>2, KeyStands
<1>13. ASSUME h \in Key PROVE Stages(h)' /\ Own(h)'
  <2>1. CASE h \in late
    <3>1. \A i \in DOMAIN waiting : waiting[i][1] = h => waiting[i][2] = "error"
      BY <1>13, <2>1 DEF LifeInv, Stages, Overdue
    <3>2. \A i \in DOMAIN waiting' : waiting'[i][1] = h =>
            i \in DOMAIN waiting /\ waiting[i][1] = h /\ waiting[i][2] = waiting'[i][2]
      <4> SUFFICES ASSUME NEW i \in DOMAIN waiting', waiting'[i][1] = h
                   PROVE  i \in DOMAIN waiting /\ waiting[i][1] = h /\ waiting[i][2] = waiting'[i][2]
        OBVIOUS
      <4>1. i \in DOMAIN waiting /\ waiting[i][1] = h /\ waiting[i][2] = "error"
        BY <1>3, <1>4, <3>1
      <4>2. waiting[i] # <<h, "none">>
        BY <4>1
      <4>3. QED
        BY <1>3, <4>1, <4>2
    <3>3. QED
      BY <1>13, <2>1, <3>2, LateStands
  <2>2. CASE h \notin late
    <3>1. InTime(h) /\ Own(h) /\ <<h, b>> \in replies
      BY <1>2, <1>13, <2>2, Timely
    <3>2. h \in pressed /\ ~Sent(h) /\ h \notin asked
      BY <3>1 DEF InTime, Quiet, Replied
    <3>3. b # "none" /\ Fits(b, h) /\ told[h] = "nothing" /\ \A y \in Said : <<h, y>> \in replies => y = b
      BY <3>1 DEF InTime
    <3>4. \A y \in Said : <<h, y>> \notin replies'
      BY <1>2, <3>3
    <3>5. (Sent(h)' <=> Sent(h)) /\ (Fits(b, h)' <=> Fits(b, h)) /\ ~Replied(h)'
      BY <3>4 DEF Sent, Fits, Replied
    <3>6. ASSUME NEW i \in DOMAIN waiting', waiting'[i][1] = h
          PROVE  waiting'[i][2] = b /\ \A j \in DOMAIN waiting' : waiting'[j][1] = h => j = i
      <4>1. i \in DOMAIN waiting /\ waiting[i][1] = h /\ waiting[i][2] = "none"
        BY <1>3, <1>4, <3>1, <3>6 DEF InTime
      <4>2. waiting[i] = <<h, "none">>
        BY <4>1, InTheQueues
      <4>3. QED
        BY <1>3, <1>4, <3>1, <4>1, <4>2 DEF InTime
    <3>7. Stages(h)'
      BY <2>2, <3>2, <3>3, <3>4, <3>5, <3>6 DEF Stages, InTime, Fits
    <3>8. QED
      BY <3>1, <3>7 DEF Own
  <2>3. QED
    BY <2>1, <2>2
<1>14. QED
  BY <1>8, <1>9, <1>10, <1>11, <1>12, <1>13, Whole

\* libdbus gives up on a call, of which the answer may be under way.
LEMMA InvTimesOut == \A k \in Key : LifeInv /\ TimesOut(k) => LifeInv'
<1> SUFFICES ASSUME LifeInv, NEW h \in Key, TimesOut(h) PROVE LifeInv'
  OBVIOUS
<1> USE DEF TimesOut, Running, started, registrySide
<1>1. PICK n \in DOMAIN waiting :
        waiting[n] = <<h, "none">> /\ waiting' = [waiting EXCEPT ![n] = <<h, "error">>]
  OBVIOUS
<1>2. /\ waiting \in Seq(Waited \X Said) /\ Len(waiting) \in Nat /\ DOMAIN waiting = 1 .. Len(waiting)
      /\ h # Embed
  BY InTheQueues, Ends
<1>3. waiting' \in Seq(Waited \X Said) /\ Len(waiting') = Len(waiting) /\ DOMAIN waiting' = DOMAIN waiting
  <2>1. <<h, "error">> \in Waited \X Said
    BY DEF Waited, Said
  <2>2. QED
    BY <1>1, <1>2, <2>1
<1>4. \A i \in DOMAIN waiting : waiting'[i] = IF i = n THEN <<h, "error">> ELSE waiting[i]
  BY <1>1, <1>2
<1>5. \A i \in DOMAIN waiting : waiting'[i][1] = waiting[i][1]
  BY <1>1, <1>4
<1>6. (waiting' = <<>> <=> waiting = <<>>) /\ (EmbedWaits' <=> EmbedWaits)
  <2>1. waiting' = <<>> <=> waiting = <<>>
    BY <1>2, <1>3
  <2>2. QED
    BY <1>2, <1>5, <2>1, InTheQueues DEF EmbedWaits
<1>7. InTime(h) \/ h \in late
  BY Timely
<1>8. h \in pressed
  <2>1. CASE h \in late
    BY <2>1 DEF LifeInv, LifeTyped, LifeTypeOK
  <2>2. CASE h \notin late
    BY <1>1, <1>7, <2>2 DEF InTime, Waits
  <2>3. QED
    BY <2>1, <2>2
<1>9. LifeTyped'
  <2>1. LifeTypeOK'
    BY <1>3, <1>5, <1>8 DEF LifeInv, LifeTyped, LifeTypeOK
  <2>2. QED
    BY <1>3, <2>1 DEF LifeInv, LifeTyped
<1>10. Started' /\ SentOnce' /\ NullOnlyAfterShutdown'
  BY <1>6 DEF LifeInv, Started, Sent, SentOnce, NullOnlyAfterShutdown
<1>11. WillBeOff' /\ DesktopOrGone'
  <2>1. WillBeOff'
    BY <1>6 DEF LifeInv, WillBeOff, Sent, OffIsSent
  <2>2. \A i \in DOMAIN waiting' : waiting'[i][1] = Embed => waiting'[i] = waiting[i]
    BY <1>2, <1>3, <1>4
  <2>3. QED
    BY <1>3, <1>6, <2>1, <2>2 DEF LifeInv, DesktopOrGone
<1>12. ASSUME NEW k \in Key, k # h PROVE Stages(k)' /\ Own(k)'
  <2>1. \A i \in DOMAIN waiting' : waiting'[i][1] = k =>
          i \in DOMAIN waiting /\ waiting[i][1] = k /\ waiting[i][2] = waiting'[i][2]
    BY <1>3, <1>4, <1>12
  <2>2. (Sent(k)' => Sent(k)) /\ (k \in late' <=> k \in late)
    BY <1>12 DEF Sent
  <2>3. QED
    BY <2>1, <2>2, KeyStands
<1>13. Stages(h)' /\ Own(h)'
  <2>1. told[h] # "consumed"
    BY <1>1, <1>7 DEF InTime, LifeInv, Stages, Overdue
  <2>2. \A i \in DOMAIN waiting : waiting[i][1] = h => i = n
    <3>1. CASE h \in late
      BY <1>1, <3>1 DEF LifeInv, Stages, Overdue
    <3>2. CASE h \notin late
      BY <1>1, <1>7, <3>2 DEF InTime
    <3>3. QED
      BY <3>1, <3>2
  <2>3. \A i \in DOMAIN waiting' : waiting'[i][1] = h => waiting'[i][2] = "error"
    BY <1>3, <1>4, <1>5, <2>2
  <2>4. h \in late' /\ reenter' /\ told'[h] = told[h]
    OBVIOUS
  <2>5. QED
    BY <2>1, <2>3, <2>4 DEF Stages, Overdue, Own
<1>14. QED
  BY <1>9, <1>10, <1>11, <1>12, <1>13, Whole

LEMMA InvEmbedded == LifeInv /\ Embedded => LifeInv'
<1> SUFFICES ASSUME LifeInv, Embedded PROVE LifeInv'
  OBVIOUS
<1> USE DEF Embedded, Returns, Running, started, registrySide
<1>1. inited /\ app = "there"
  BY Waiter
<1>2. Len(waiting) \in DOMAIN waiting /\ Len(waiting) = 1 /\ pressed = {} /\ Top = waiting[1]
  BY InTheQueues DEF Top
<1>3. waiting' = <<>> /\ DOMAIN waiting' = {}
  <2>1. waiting \in Seq(Waited \X Said)
    BY InTheQueues
  <2>2. Popped = <<>>
    BY <1>2, <2>1 DEF Popped
  <2>3. QED
    BY <2>2
<1>4. LifeTyped'
  <2>1. waiting' \in Seq(Waited \X Said)
    BY <1>3
  <2>2. QED
    BY <1>3, <2>1 DEF LifeInv, LifeTyped, LifeTypeOK
<1>5. Started' /\ SentOnce' /\ NullOnlyAfterShutdown' /\ WillBeOff'
  BY <1>1, <1>3 DEF LifeInv, Started, Sent, SentOnce, NullOnlyAfterShutdown, WillBeOff
<1>6. Top[2] # "desktop" => ~up
  BY <1>2 DEF LifeInv, DesktopOrGone
<1>7. DesktopOrGone'
  BY <1>3, <1>6 DEF LifeInv, DesktopOrGone
<1>8. ASSUME NEW k \in Key PROVE Stages(k)' /\ Own(k)'
  <2>1. Sent(k)' => Sent(k)
    BY DEF Sent
  <2>2. QED
    BY <1>3, <2>1, KeyStands
<1>9. QED
  BY <1>4, <1>5, <1>7, <1>8, Whole

LEMMA InvKeyReturns == LifeInv /\ KeyReturns => LifeInv'
<1> SUFFICES ASSUME LifeInv, KeyReturns PROVE LifeInv'
  OBVIOUS
<1> USE DEF KeyReturns, Returns, Running, started, registrySide
<1>1. inited /\ app = "there"
  BY Waiter
<1>2. /\ Len(waiting) \in DOMAIN waiting /\ ~EmbedWaits
      /\ \A i \in DOMAIN waiting : waiting[i][1] # Embed
  BY InTheQueues DEF Top
<1>3. PICK h \in Key, b \in Said : Top = <<h, b>>
  BY <1>2, InTheQueues DEF Top
<1>4. /\ waiting' \in Seq(Waited \X Said)
      /\ \A i \in DOMAIN waiting' : i \in DOMAIN waiting /\ i # Len(waiting) /\ waiting'[i] = waiting[i]
  BY AllButLast, InTheQueues DEF Popped
<1>5. told' = [told EXCEPT ![h] = IF b = "consumed" THEN "consumed" ELSE "passed"] /\ b # "none"
  BY <1>3
<1>6. told \in [Key -> {"nothing", "consumed", "passed"}]
  BY DEF LifeInv, LifeTyped, LifeTypeOK
<1>7. LifeTyped'
  <2>1. LifeTypeOK'
    BY <1>2, <1>4, <1>5, <1>6 DEF LifeInv, LifeTyped, LifeTypeOK
  <2>2. QED
    BY <1>4, <2>1 DEF LifeInv, LifeTyped
<1>8. Started' /\ SentOnce' /\ NullOnlyAfterShutdown'
  BY <1>1 DEF LifeInv, Started, Sent, SentOnce, NullOnlyAfterShutdown
<1>9. WillBeOff' /\ DesktopOrGone'
  BY <1>2, <1>4 DEF LifeInv, WillBeOff, Sent, OffIsSent, DesktopOrGone
<1>10. ASSUME NEW k \in Key, k # h PROVE Stages(k)' /\ Own(k)'
  <2>1. told'[k] = told[k]
    BY <1>5, <1>6, <1>10
  <2>2. Sent(k)' => Sent(k)
    BY DEF Sent
  <2>3. QED
    BY <1>4, <2>1, <2>2, KeyStands
<1>11. Stages(h)' /\ Own(h)'
  <2>1. CASE h \in late
    <3>1. b = "error"
      BY <1>2, <1>3, <2>1 DEF LifeInv, Stages, Overdue, Top
    <3>2. told'[h] = "passed"
      BY <1>5, <1>6, <3>1
    <3>3. QED
      BY <1>4, <2>1, <3>2, LateStands
  <2>2. CASE h \notin late
    <3>1. /\ InTime(h) /\ waiting[Len(waiting)][1] = h /\ waiting[Len(waiting)][2] = b
      BY <1>3, <2>2, Timely DEF Top
    <3>2. /\ Fits(b, h) /\ h \notin asked /\ ~Sent(h) /\ ~Replied(h)
          /\ \A j \in DOMAIN waiting : waiting[j][1] = h => j = Len(waiting)
      BY <1>2, <1>5, <3>1 DEF InTime
    <3>3. h \in pressed
      BY <1>2, <3>1 DEF InTime, Waits
    <3>4. \A i \in DOMAIN waiting' : waiting'[i][1] # h
      BY <1>4, <3>2
    <3>5. ~Sent(h)' /\ ~Replied(h)'
      BY <3>2 DEF Sent, Replied
    <3>6. Stages(h)'
      BY <2>2, <3>2, <3>3, <3>4, <3>5 DEF Stages, InTime, Replied
    <3>7. told'[h] = IF b = "consumed" THEN "consumed" ELSE "passed"
      BY <1>5, <1>6
    <3>8. Own(h)'
      BY <2>2, <3>2, <3>7 DEF Own, Fits
    <3>9. QED
      BY <3>6, <3>8
  <2>3. QED
    BY <2>1, <2>2
<1>12. QED
  BY <1>7, <1>8, <1>9, <1>10, <1>11, Whole

LEMMA InvKeyPress == \A k \in Key : LifeInv /\ KeyPress(k) => LifeInv'
<1> SUFFICES ASSUME LifeInv, NEW h \in Key, KeyPress(h) PROVE LifeInv'
  OBVIOUS
<1> USE DEF KeyPress, Running, started
<1>1. inited /\ app = "there"
  BY DEF LifeInv, Started, Deregistered
<1>2. ~EmbedWaits /\ \A i \in DOMAIN waiting : waiting[i][1] # Embed
  <2>1. CASE waiting = <<>>
    <3>1. DOMAIN waiting = {}
      BY ONLY <2>1
    <3>2. QED
      BY <2>1, <3>1 DEF EmbedWaits
  <2>2. CASE waiting # <<>>
    BY <2>2, InTheQueues DEF Top
  <2>3. QED
    BY <2>1, <2>2
<1>3. waiting' = Append(waiting, <<h, "none">>) /\ inbox' = Append(inbox, h) /\ program' = program
  BY <1>1
<1>4. InTime(h) /\ Quiet(h) /\ h \notin asked /\ ~Sent(h) /\ ~Waits(h) /\ Own(h) /\ h \notin late
  <2>1. h \notin late
    BY DEF LifeInv, LifeTyped, LifeTypeOK
  <2>2. QED
    BY <2>1, Timely DEF InTime
<1>5. /\ inbox' \in Seq(Item) /\ inbox' # <<>> /\ Sent(h)' /\ SentOnce'
      /\ \A x : x # h => (Sent(x)' <=> Sent(x))
      /\ OffIsSent => OffIsSent'
  BY <1>3, <1>4, OneSent, InTheQueues DEF Item
<1>6. /\ waiting' \in Seq(Waited \X Said) /\ waiting'[Len(waiting) + 1] = <<h, "none">>
      /\ \A i \in DOMAIN waiting : waiting'[i] = waiting[i]
      /\ \A i \in DOMAIN waiting' : i \in DOMAIN waiting \/ i = Len(waiting) + 1
  <2>1. <<h, "none">> \in Waited \X Said /\ waiting \in Seq(Waited \X Said)
    BY InTheQueues DEF Waited, Said
  <2>2. QED
    BY <1>3, <2>1, OneMore
<1> HIDE DEF KeyPress
<1>7. \A i \in DOMAIN waiting' : waiting'[i][1] # Embed
  <2>1. h # Embed
    BY InTheQueues
  <2>2. ASSUME NEW i \in DOMAIN waiting' PROVE waiting'[i][1] # Embed
    <3>1. CASE i \in DOMAIN waiting
      BY <1>2, <1>6, <3>1
    <3>2. CASE i = Len(waiting) + 1
      <4>1. waiting'[i] = <<h, "none">>
        BY <1>6, <3>2
      <4>2. QED
        BY <2>1, <4>1
    <3>3. QED
      BY <1>6, <3>1, <3>2
  <2>3. QED
    BY <2>2
<1>8. LifeTyped'
  <2>1. LifeTypeOK'
    BY <1>3, <1>7 DEF LifeInv, LifeTyped, LifeTypeOK, KeyPress
  <2>2. QED
    BY <1>5, <1>6, <2>1 DEF LifeInv, LifeTyped, KeyPress
<1>9. Started' /\ NullOnlyAfterShutdown'
  BY <1>1, <1>3 DEF LifeInv, Started, NullOnlyAfterShutdown, KeyPress
<1>10. WillBeOff'
  BY <1>1, <1>2, <1>3, <1>5, InTheQueues DEF LifeInv, WillBeOff, KeyPress
<1>11. DesktopOrGone'
  BY <1>2, <1>7 DEF LifeInv, DesktopOrGone, KeyPress
<1>12. ASSUME NEW k \in Key, k # h PROVE Stages(k)' /\ Own(k)'
  <2>1. ASSUME NEW i \in DOMAIN waiting', waiting'[i][1] = k
        PROVE  i \in DOMAIN waiting /\ waiting[i][1] = k /\ waiting[i][2] = waiting'[i][2]
    <3>1. i # Len(waiting) + 1
      BY <1>6, <1>12, <2>1
    <3>2. QED
      BY <1>6, <2>1, <3>1
  <2>2. Sent(k)' => Sent(k)
    BY <1>5, <1>12
  <2>3. QED
    BY <2>1, <2>2, KeyStands DEF KeyPress
<1>13. Stages(h)' /\ Own(h)'
  <2>1. ASSUME NEW i \in DOMAIN waiting', waiting'[i][1] = h
        PROVE  i = Len(waiting) + 1 /\ waiting'[i][2] = "none"
    <3>1. i \notin DOMAIN waiting
      BY <1>4, <1>6, <2>1 DEF Waits
    <3>2. i = Len(waiting) + 1 /\ waiting'[i] = <<h, "none">>
      BY <1>6, <3>1
    <3>3. QED
      BY <3>2
  <2>2. Quiet(h)'
    BY <1>4, <2>1 DEF Quiet, Replied, KeyPress
  <2>3. QED
    BY <1>4, <2>1, <2>2 DEF Stages, InTime, Quiet, Replied, Own,
       KeyPress
<1>14. QED
  BY <1>5, <1>8, <1>9, <1>10, <1>11, <1>12, <1>13, Whole

-----------------------------------------------------------------------------
(* The registry daemon *)

\* Nothing that the bridge keeps changes, and the listing stands or is made good.
LEMMA OnTheBus ==
  ASSUME LifeInv, UNCHANGED bridgeSide, up' => up,
         inbox' \in Seq(Item), SentOnce', WillBeOff', asked' \subseteq Key,
         replies' \subseteq Waited \X Said, said' \in [Key -> {"nothing", "consumed", "passed"}],
         listed' => listed \/ Sent(Embed), listed' => up', Sent(Embed)' => Sent(Embed),
         \A x \in Said : <<Embed, x>> \in replies' =>
           <<Embed, x>> \in replies \/ x = "desktop" \/ (x = "error" /\ ~up'),
         \A k \in Key : Stages(k)' /\ Own(k)'
  PROVE  LifeInv'
<1> USE DEF bridgeSide
<1>1. LifeTyped'
  BY DEF LifeInv, LifeTyped, LifeTypeOK
<1>2. Started' /\ NullOnlyAfterShutdown'
  BY DEF LifeInv, Started, Running, NullOnlyAfterShutdown
<1>3. DesktopOrGone'
  BY DEF LifeInv, DesktopOrGone, EmbedWaits
<1>4. QED
  BY <1>1, <1>2, <1>3, Whole

LEMMA InvRegistryTakes == LifeInv /\ RegistryTakes => LifeInv'
<1> SUFFICES ASSUME LifeInv, RegistryTakes PROVE LifeInv'
  OBVIOUS
<1>1. PICK h : h = Head(inbox)
  OBVIOUS
<1>2. up /\ inbox # <<>> /\ inbox' = Tail(inbox) /\ UNCHANGED <<bridgeSide, up, said>>
  BY DEF RegistryTakes
<1>3. CASE h = Embed \/ h = "deregister" \/ h \in Key
  <2>1. /\ inbox' \in Seq(Item) /\ h \in Item /\ Sent(h)
        /\ \A x : Sent(x)' => Sent(x)
        /\ h \in Key => ~Sent(h)'
        /\ SentOnce'
        /\ OffIsSent => OffIsSent' \/ (h = "deregister" /\ ~Sent(Embed)')
    BY <1>1, <1>2, OneTaken
  <2>2. Embed \notin Key /\ "deregister" \notin Key /\ Embed # "deregister"
    BY InTheQueues
  <2>3. /\ asked \subseteq Key /\ replies \subseteq Waited \X Said
        /\ said \in [Key -> {"nothing", "consumed", "passed"}]
    BY DEF LifeInv, LifeTyped, LifeTypeOK
  <2>4. CASE h = Embed
    <3>1. listed' = TRUE /\ replies' = replies \cup {<<Embed, "desktop">>} /\ UNCHANGED asked
      BY <1>1, <2>2, <2>4 DEF RegistryTakes
    <3>2. replies' \subseteq Waited \X Said
      BY <2>3, <3>1 DEF Waited, Said
    <3>3. ASSUME NEW k \in Key PROVE Stages(k)' /\ Own(k)'
      <4>1. \A x \in Said : <<k, x>> \in replies' => <<k, x>> \in replies
        BY <2>2, <3>1
      <4>2. QED
        BY <1>2, <2>1, <3>1, <4>1, KeyStands DEF bridgeSide
    <3>4. WillBeOff'
      BY <1>2, <2>1, <2>2, <2>4 DEF LifeInv, WillBeOff, EmbedWaits, bridgeSide
    <3>5. QED
      BY <1>2, <2>1, <2>3, <2>4, <3>1, <3>2, <3>3, <3>4, OnTheBus
  <2>5. CASE h = "deregister"
    <3>1. listed' = FALSE /\ UNCHANGED <<replies, asked>>
      BY <1>1, <2>2, <2>5 DEF RegistryTakes
    <3>2. ASSUME NEW k \in Key PROVE Stages(k)' /\ Own(k)'
      BY <1>2, <2>1, <3>1, KeyStands DEF bridgeSide
    <3>3. WillBeOff'
      BY <1>2, <2>1, <3>1 DEF LifeInv, WillBeOff, EmbedWaits, bridgeSide
    <3>4. QED
      BY <1>2, <2>1, <2>3, <3>1, <3>2, <3>3, OnTheBus
  <2>6. CASE h \in Key
    <3>1. asked' = asked \cup {h} /\ UNCHANGED <<replies, listed>>
      BY <1>1, <2>2, <2>6 DEF RegistryTakes
    <3>2. ASSUME NEW k \in Key, k # h PROVE Stages(k)' /\ Own(k)'
      BY <1>2, <2>1, <3>1, <3>2, KeyStands DEF bridgeSide
    <3>3. Stages(h)' /\ Own(h)'
      <4>1. CASE h \in late
        BY <1>2, <2>6, <4>1, LateStands DEF bridgeSide, started
      <4>2. CASE h \notin late
        <5>1. InTime(h) /\ Own(h) /\ Quiet(h) /\ h \in pressed
          BY <2>1, <2>6, <4>2, Timely DEF InTime
        <5>2. Quiet(h)' /\ ~Replied(h)
          BY <1>2, <3>1, <5>1 DEF Quiet, Replied, bridgeSide
        <5>3. \A i \in DOMAIN waiting : waiting[i][1] = h =>
                /\ told[h] = "nothing" /\ waiting[i][2] = "none"
                /\ \A j \in DOMAIN waiting : waiting[j][1] = h => j = i
          BY <5>1 DEF InTime, Quiet
        <5>4. QED
          BY <1>2, <2>1, <2>6, <3>1, <4>2, <5>1, <5>2, <5>3 DEF Stages, InTime, Replied, Own, bridgeSide
      <4>3. QED
        BY <4>1, <4>2
    <3>4. WillBeOff'
      BY <1>2, <2>1, <2>2, <2>6, <3>1 DEF LifeInv, WillBeOff, EmbedWaits, bridgeSide
    <3>5. asked' \subseteq Key /\ listed' => up'
      BY <1>2, <2>3, <2>6, <3>1
    <3>6. QED
      BY <1>2, <2>1, <2>3, <2>6, <3>1, <3>2, <3>3, <3>4, <3>5, OnTheBus
  <2>7. QED
    BY <1>3, <2>4, <2>5, <2>6
<1>4. h \in Item
  BY <1>1, <1>2, OneTaken
<1>5. QED
  BY <1>3, <1>4 DEF Item

LEMMA InvRegistryAnswers == \A k \in Key : LifeInv /\ RegistryAnswers(k) => LifeInv'
<1> SUFFICES ASSUME LifeInv, NEW h \in Key, RegistryAnswers(h) PROVE LifeInv'
  OBVIOUS
<1>1. PICK b \in {"consumed", "passed"} :
        replies' = replies \cup {<<h, b>>} /\ said' = [said EXCEPT ![h] = b]
  BY DEF RegistryAnswers
<1>2. /\ up /\ h \in asked /\ asked' = asked \ {h}
      /\ UNCHANGED <<bridgeSide, up, inbox, listed>>
  BY DEF RegistryAnswers
<1>3. /\ asked \subseteq Key /\ replies \subseteq Waited \X Said
      /\ said \in [Key -> {"nothing", "consumed", "passed"}]
  BY DEF LifeInv, LifeTyped, LifeTypeOK
<1>4. Embed \notin Key /\ inbox' \in Seq(Item)
  BY <1>2, InTheQueues
<1>5. replies' \subseteq Waited \X Said /\ said' \in [Key -> {"nothing", "consumed", "passed"}]
  BY <1>1, <1>3 DEF Waited, Said
<1>6. \A x : Sent(x)' <=> Sent(x)
  BY <1>2 DEF Sent
<1>7. ASSUME NEW k \in Key, k # h PROVE Stages(k)' /\ Own(k)'
  <2>1. said'[k] = said[k] /\ \A x \in Said : <<k, x>> \in replies' => <<k, x>> \in replies
    BY <1>1, <1>3, <1>7
  <2>2. QED
    BY <1>2, <1>6, <2>1, KeyStands DEF bridgeSide
<1>8. Stages(h)' /\ Own(h)'
  <2>1. CASE h \in late
    BY <1>2, <2>1, LateStands DEF bridgeSide, started
  <2>2. CASE h \notin late
    <3>1. InTime(h) /\ Quiet(h) /\ ~Sent(h) /\ h \in pressed
      BY <1>2, <2>2, Timely DEF InTime
    <3>2. /\ told[h] = "nothing" /\ said'[h] = b /\ \A x \in Said : <<h, x>> \in replies' => x = b
          /\ \A i \in DOMAIN waiting : waiting[i][1] = h => waiting[i][2] = "none"
      BY <1>1, <1>3, <3>1 DEF Quiet, Replied
    <3>3. \A i, j \in DOMAIN waiting : waiting[i][1] = h /\ waiting[j][1] = h => j = i
      BY <3>1 DEF InTime
    <3>4. QED
      BY <1>2, <1>6, <2>2, <3>1, <3>2, <3>3 DEF Stages, InTime, Fits, Own, bridgeSide
  <2>3. QED
    BY <2>1, <2>2
<1>9. SentOnce' /\ WillBeOff'
  BY <1>2, <1>6 DEF LifeInv, SentOnce, WillBeOff, EmbedWaits, OffIsSent, bridgeSide
<1>10. \A x \in Said : <<Embed, x>> \in replies' => <<Embed, x>> \in replies
  BY <1>1, <1>4
<1>11. listed' => up'
  BY <1>2
<1>12. QED
  BY <1>2, <1>3, <1>4, <1>5, <1>6, <1>7, <1>8, <1>9, <1>10, <1>11, OnTheBus

LEMMA InvRegistryDies == LifeInv /\ RegistryDies => LifeInv'
<1> SUFFICES ASSUME LifeInv, RegistryDies PROVE LifeInv'
  OBVIOUS
<1> USE DEF RegistryDies
<1>1. /\ asked \subseteq Key /\ replies \subseteq Waited \X Said
      /\ said \in [Key -> {"nothing", "consumed", "passed"}]
  BY DEF LifeInv, LifeTyped, LifeTypeOK
<1>2. Embed \notin Key /\ inbox' \in Seq(Item)
  BY InTheQueues
<1>3. replies' \subseteq Waited \X Said
  BY <1>1 DEF Waited, Said
<1>4. \A x : Sent(x)' <=> Sent(x)
  BY DEF Sent
<1>5. ASSUME NEW k \in Key, k \notin asked PROVE Stages(k)' /\ Own(k)'
  <2>1. \A x \in Said : <<k, x>> \in replies' => <<k, x>> \in replies
    BY <1>5
  <2>2. QED
    BY <1>4, <2>1, KeyStands DEF bridgeSide
<1>6. ASSUME NEW h \in Key, h \in asked PROVE Stages(h)' /\ Own(h)'
  <2>1. CASE h \in late
    BY <1>6, <2>1, LateStands DEF bridgeSide, started
  <2>2. CASE h \notin late
    <3>1. InTime(h) /\ Quiet(h) /\ ~Sent(h) /\ h \in pressed
      BY <1>6, <2>2, Timely DEF InTime
    <3>2. /\ told[h] = "nothing" /\ said[h] = "nothing" /\ \A x \in Said : <<h, x>> \in replies' => x = "error"
          /\ \A i \in DOMAIN waiting : waiting[i][1] = h => waiting[i][2] = "none"
      BY <3>1 DEF Quiet, Replied
    <3>3. \A i, j \in DOMAIN waiting : waiting[i][1] = h /\ waiting[j][1] = h => j = i
      BY <3>1 DEF InTime
    <3>4. QED
      BY <1>4, <2>2, <3>1, <3>2, <3>3 DEF Stages, InTime, Fits, Own, bridgeSide
  <2>3. QED
    BY <2>1, <2>2
<1>7. SentOnce' /\ WillBeOff'
  BY <1>4 DEF LifeInv, SentOnce, WillBeOff, EmbedWaits, OffIsSent, bridgeSide
<1>8. \A x \in Said : <<Embed, x>> \in replies' => <<Embed, x>> \in replies
  BY <1>1, <1>2
<1>9. QED
  BY <1>1, <1>2, <1>3, <1>4, <1>5, <1>6, <1>7, <1>8, OnTheBus

LEMMA InvBusAnswers == LifeInv /\ BusAnswers => LifeInv'
<1> SUFFICES ASSUME LifeInv, BusAnswers PROVE LifeInv'
  OBVIOUS
<1>1. PICK h : h = Head(inbox)
  OBVIOUS
<1>2. /\ ~up /\ inbox # <<>> /\ inbox' = Tail(inbox) /\ UNCHANGED <<bridgeSide, up, asked, said, listed>>
      /\ replies' = replies \cup ({<<h, "error">>} \ {<<"deregister", "error">>})
  BY <1>1 DEF BusAnswers
<1>3. /\ inbox' \in Seq(Item) /\ h \in Item /\ Sent(h)
      /\ \A x : Sent(x)' => Sent(x)
      /\ h \in Key => ~Sent(h)'
      /\ SentOnce'
      /\ OffIsSent => OffIsSent' \/ (h = "deregister" /\ ~Sent(Embed)')
  BY <1>1, <1>2, OneTaken
<1>4. Embed \notin Key /\ "deregister" \notin Key /\ Embed # "deregister"
  BY InTheQueues
<1>5. /\ asked \subseteq Key /\ replies \subseteq Waited \X Said
      /\ said \in [Key -> {"nothing", "consumed", "passed"}] /\ ~listed
  BY <1>2 DEF LifeInv, LifeTyped, LifeTypeOK, Started
<1>6. replies' \subseteq Waited \X Said
  BY <1>2, <1>3, <1>5 DEF Waited, Said, Item
<1>7. WillBeOff'
  BY <1>2, <1>3, <1>5 DEF LifeInv, WillBeOff, EmbedWaits, bridgeSide
<1>8. ASSUME NEW k \in Key, k # h PROVE Stages(k)' /\ Own(k)'
  <2>1. \A x \in Said : <<k, x>> \in replies' => <<k, x>> \in replies
    BY <1>2, <1>8
  <2>2. QED
    BY <1>2, <1>3, <2>1, KeyStands DEF bridgeSide
<1>9. ASSUME h \in Key PROVE Stages(h)' /\ Own(h)'
  <2>1. CASE h \in late
    BY <1>2, <1>9, <2>1, LateStands DEF bridgeSide, started
  <2>2. CASE h \notin late
    <3>1. InTime(h) /\ Own(h) /\ Quiet(h) /\ h \in pressed /\ h \notin asked
      BY <1>3, <1>9, <2>2, Timely DEF InTime
    <3>2. /\ told[h] = "nothing" /\ said[h] = "nothing" /\ \A x \in Said : <<h, x>> \in replies' => x = "error"
          /\ \A i \in DOMAIN waiting : waiting[i][1] = h => waiting[i][2] = "none"
      BY <1>2, <3>1 DEF Quiet, Replied
    <3>3. \A i, j \in DOMAIN waiting : waiting[i][1] = h /\ waiting[j][1] = h => j = i
      BY <3>1 DEF InTime
    <3>4. QED
      BY <1>2, <1>3, <1>9, <2>2, <3>1, <3>2, <3>3 DEF Stages, InTime, Fits, Own, bridgeSide
  <2>3. QED
    BY <2>1, <2>2
<1>10. \A x \in Said : <<Embed, x>> \in replies' => <<Embed, x>> \in replies \/ x = "error"
  BY <1>2
<1>11. QED
  BY <1>2, <1>3, <1>5, <1>6, <1>7, <1>8, <1>9, <1>10, OnTheBus

-----------------------------------------------------------------------------
(* The invariant, and what follows from it *)

LEMMA LifeInvariant == LifeSpec => []LifeInv
<1>1. LifeInv /\ [LifeNext]_lifeVars => LifeInv'
  <2> SUFFICES ASSUME LifeInv, [LifeNext]_lifeVars PROVE LifeInv'
    OBVIOUS
  <2>1. CASE LifeNext
    BY <2>1, InvModuleInit, InvModuleInitTaken, InvDeliver, InvTimesOut, InvEmbedded, InvKeyReturns,
       InvKeyPress, InvEmits, InvClientCall, InvClientAsksForDesktop, InvModuleShutdown,
       InvExit, InvRegistryTakes, InvRegistryAnswers, InvRegistryDies, InvBusAnswers
    DEF LifeNext
  <2>2. CASE UNCHANGED lifeVars
    <3> USE <2>2 DEF lifeVars
    <3>1. LifeTyped' /\ Started' /\ DesktopOrGone' /\ NullOnlyAfterShutdown'
      BY DEF LifeInv, LifeTyped, LifeTypeOK, Started, Running, Sent, DesktopOrGone,
             EmbedWaits, NullOnlyAfterShutdown
    <3>2. SentOnce' /\ WillBeOff'
      BY DEF LifeInv, SentOnce, WillBeOff, EmbedWaits, Sent, OffIsSent
    <3>3. ASSUME NEW k \in Key PROVE Stages(k)' /\ Own(k)'
      <4>1. Sent(k)' => Sent(k)
        BY DEF Sent
      <4>2. QED
        BY <4>1, KeyStands
    <3>4. QED
      BY <3>1, <3>2, <3>3, Whole
  <2>3. QED
    BY <2>1, <2>2
<1>2. QED
  BY <1>1, InvInit, PTL DEF LifeSpec

(* The types of the bridge's and the registry's state; and a wait to be    *)
(* embedded is never nested with another (register_application).           *)
THEOREM LifeTypeCorrect == LifeSpec => []LifeTypeOK
<1>1. LifeInv => LifeTypeOK
  BY DEF LifeInv, LifeTyped
<1>2. QED
  BY <1>1, LifeInvariant, PTL

(* No listener and no adaptor finds the bridge's data gone unless the      *)
(* bridge was shut down, and none finds no desktop unless the application  *)
(* waits to be embedded or was not (spi_global_app_data).                  *)
THEOREM LifeNullOnlyAfterShutdown == LifeSpec => []NullOnlyAfterShutdown
<1>1. LifeInv => NullOnlyAfterShutdown
  BY DEF LifeInv
<1>2. QED
  BY <1>1, LifeInvariant, PTL

(* Each key event is told what the registry said of it, for any number of  *)
(* events and any nesting of their waits, but for those whose own call     *)
(* timed out, which are passed on (send_and_allow_reentry).                *)
THEOREM LifeOwnAnswer == LifeSpec => []OwnAnswer
<1>1. LifeInv => OwnAnswer
  BY DEF LifeInv
<1>2. QED
  BY <1>1, LifeInvariant, PTL

(* A program that has exited and whose messages have been read is off the  *)
(* registry's list unless it exited in register_application (exit_func).   *)
THEOREM LifeLeftListed == LifeSpec => []LeftListed
<1>1. LifeInv => LeftListed
  <2> SUFFICES ASSUME LifeInv, program = "exited", inbox = <<>>, listed
               PROVE  EmbedWaits
    BY DEF LeftListed, EmbedWaits
  <2>1. DOMAIN inbox = {}
    BY ONLY inbox = <<>>
  <2>2. ~OffIsSent
    BY <2>1 DEF OffIsSent
  <2>3. QED
    BY <2>2 DEF LifeInv, WillBeOff
<1>2. QED
  BY <1>1, LifeInvariant, PTL
=============================================================================
