--------------------------- MODULE EmbeddingProofs ---------------------------
(***************************************************************************)
(* What holds of sockets and plugs for any number of applications, of      *)
(* embeddings and of queries.                                              *)
(***************************************************************************)
EXTENDS Embedding, TLAPS

Calls == {c \in Member \X (Socket \cup Plug) : c[2] \in Takes(c[1])}
Message == ({"Embedded"} \X Socket \X Plug) \cup ({"ask", "call"} \X Query)

Typed ==
  /\ EmbeddingTypeOK
  /\ inbox \in [Proc -> Seq(Message)] /\ query \in [Query -> Calls \cup {<<>>}]
  /\ embeds \in Seq(Socket \X Plug) /\ since \in [Query -> SUBSET Query]

\* A message is with the application that has the object it is about.
Addressed ==
  \A a \in Proc : \A i \in DOMAIN inbox[a] :
    /\ inbox[a][i][1] = "Embedded" => Owner[inbox[a][i][3]] = a
    /\ inbox[a][i][1] = "ask" =>
         query[inbox[a][i][2]] \in Calls /\ Owner[query[inbox[a][i][2]][2]] = a

\* A plug class that asks for geometry has a plug with a parent.
Hooked ==
  \A a \in asksSocket : \E p \in Plug : Owner[p] = a /\ parentOf[p] # Nothing

(* What a client has been told of a query stays: it is told when the query *)
(* is first in the queue, or when an application that waits for another on *)
(* its behalf goes on.                                                     *)
Told ==
  /\ \A q \in Query : answer[q] # Nothing => query[q] \in Calls
  /\ \A r \in Query : \A q \in since[r] : answer[q] # Nothing
  /\ \A a \in Proc : waiting[a] # Nothing =>
       query[waiting[a]] \in Calls /\ query[waiting[a]][1] \in {"Extents", "State"}
  /\ \A a \in Proc : \A i \in DOMAIN inbox[a] :
       inbox[a][i][1] = "ask" /\ query[inbox[a][i][2]][1] = "Child" =>
         /\ answer[inbox[a][i][2]] = Nothing
         /\ \A j \in DOMAIN inbox[a] : inbox[a][j] = inbox[a][i] => j = i

\* What a socket has, and what clients were told it has, it was given.
Gave(s, p) == \E j \in By(p) : embeds[j][1] = s
ChildrenGiven ==
  /\ \A s \in Socket : embedded[s] # Nothing => Gave(s, embedded[s])
  /\ \A q \in Query :
       query[q] \in Calls /\ query[q][1] = "Child" /\ answer[q] \in Plug =>
         Gave(query[q][2], answer[q])

\* the sockets that embedded p from the j-th embedding on, and the last one
EmbeddersSince(p, j) == {s \in Socket : \E i \in By(p) : j <= i /\ embeds[i][1] = s}
LastEmbedder(p) ==
  {s \in Socket : \E i \in By(p) : (\A j \in By(p) : j <= i) /\ embeds[i][1] = s}

(* When its application has read what comes before the n-th message, the   *)
(* parent of p is one of S.                                                *)
Before(p, n) == {i \in InFlight(p) : i < n}
Settles(p, n, S) ==
  /\ Before(p, n) = {} => parentOf[p] \in S
  /\ \A i \in Before(p, n) :
       (\A j \in Before(p, n) : j <= i) => inbox[Owner[p]][i][2] \in S

\* When it has read everything, the parent is the last embedder.
Current ==
  \A p \in Plug : Owner[p] \in alive =>
    IF By(p) = {} THEN InFlight(p) = {} /\ parentOf[p] = Nothing
    ELSE \A n \in Nat : n > Len(inbox[Owner[p]]) => Settles(p, n, LastEmbedder(p))

(* A question for the parent of a plug stands in the queue behind what has *)
(* been sent about every embedding that its client had been told of.       *)
Ordered ==
  \A p \in Plug : \A n \in DOMAIN inbox[Owner[p]] : \A r \in Query : \A q \in since[r] :
    /\ inbox[Owner[p]][n] = <<"ask", r>> /\ query[r] = <<"Parent", p>>
    /\ query[q][1] = "Child" /\ answer[q] = p
    => \E j \in By(p) : embeds[j][1] = query[q][2] /\ Settles(p, n, EmbeddersSince(p, j))

EmbedInv ==
  /\ Typed /\ Addressed
  /\ Hooked /\ AbortedByLonePlug
  /\ Told /\ ChildrenGiven
  /\ Current /\ Ordered /\ ParentAfterChild

-----------------------------------------------------------------------------
(* Messages *)

LEMMA NotMade == <<>> \notin Calls
BY DEF Calls

LEMMA CallPair == \A c \in Calls : c = <<c[1], c[2]>>
BY DEF Calls

LEMMA FirstMessage ==
  ASSUME NEW q \in Seq(Message), q # <<>>
  PROVE  /\ Head(q) = q[1] /\ q[1] \in Message /\ 1 \in DOMAIN q
         /\ DOMAIN q = 1 .. Len(q) /\ Len(q) \in Nat
         /\ Tail(q) \in Seq(Message) /\ Len(Tail(q)) = Len(q) - 1
         /\ DOMAIN Tail(q) = 1 .. Len(q) - 1
         /\ \A i \in DOMAIN Tail(q) : Tail(q)[i] = q[i + 1]
<1>1. Len(q) \in Nat /\ Len(q) # 0 /\ DOMAIN q = 1 .. Len(q)
  OBVIOUS
<1>2. Head(q) = q[1] /\ q[1] \in Message
  BY <1>1
<1>3. Tail(q) \in Seq(Message) /\ Len(Tail(q)) = Len(q) - 1
  BY <1>1
<1>4. \A i \in 1 .. Len(q) - 1 : Tail(q)[i] = q[i + 1]
  BY <1>1
<1>5. QED
  BY <1>1, <1>2, <1>3, <1>4

LEMMA OneMore ==
  ASSUME NEW S, NEW q \in Seq(S), NEW m \in S
  PROVE  /\ Append(q, m) \in Seq(S) /\ Len(Append(q, m)) = Len(q) + 1 /\ Len(q) \in Nat
         /\ DOMAIN q = 1 .. Len(q) /\ DOMAIN Append(q, m) = 1 .. Len(q) + 1
         /\ Append(q, m)[Len(q) + 1] = m
         /\ \A i \in DOMAIN q : Append(q, m)[i] = q[i]
OBVIOUS

\* what the n-th message was when a had not read one
Off(a, b) == IF a = b THEN 1 ELSE 0

(* An application reads a message; what it sends meanwhile is a call to    *)
(* another one.                                                            *)
ReadBy(a) ==
  /\ inbox' \in [Proc -> Seq(Message)]
  /\ \A b \in Proc :
       /\ \A i \in DOMAIN inbox'[b] :
            inbox'[b][i][1] # "call" =>
              i + Off(a, b) \in DOMAIN inbox[b] /\ inbox'[b][i] = inbox[b][i + Off(a, b)]
       /\ \A i \in DOMAIN inbox[b] :
            i > Off(a, b) =>
              i - Off(a, b) \in DOMAIN inbox'[b] /\ inbox'[b][i - Off(a, b)] = inbox[b][i]

\* The two cases of ReadBy: a, and everybody else.
LEMMA ReadInCases ==
  ASSUME inbox \in [Proc -> Seq(Message)], inbox' \in [Proc -> Seq(Message)], NEW a \in Proc,
         \A i \in DOMAIN inbox'[a] : inbox'[a][i][1] # "call" =>
           i + 1 \in DOMAIN inbox[a] /\ inbox'[a][i] = inbox[a][i + 1],
         \A i \in DOMAIN inbox[a] : i > 1 =>
           i - 1 \in DOMAIN inbox'[a] /\ inbox'[a][i - 1] = inbox[a][i],
         \A b \in Proc \ {a} : \A i \in DOMAIN inbox'[b] : inbox'[b][i][1] # "call" =>
           i \in DOMAIN inbox[b] /\ inbox'[b][i] = inbox[b][i],
         \A b \in Proc \ {a} : \A i \in DOMAIN inbox[b] :
           i \in DOMAIN inbox'[b] /\ inbox'[b][i] = inbox[b][i]
  PROVE  ReadBy(a)
<1> SUFFICES ASSUME NEW b \in Proc
             PROVE  /\ \A i \in DOMAIN inbox'[b] :
                         inbox'[b][i][1] # "call" =>
                           /\ i + Off(a, b) \in DOMAIN inbox[b]
                           /\ inbox'[b][i] = inbox[b][i + Off(a, b)]
                    /\ \A i \in DOMAIN inbox[b] :
                         i > Off(a, b) =>
                           /\ i - Off(a, b) \in DOMAIN inbox'[b]
                           /\ inbox'[b][i - Off(a, b)] = inbox[b][i]
  BY DEF ReadBy
<1>1. \A i \in DOMAIN inbox[b] \cup DOMAIN inbox'[b] : i \in Nat /\ i + 0 = i /\ i - 0 = i
  <2>1. inbox[b] \in Seq(Message) /\ inbox'[b] \in Seq(Message)
    OBVIOUS
  <2>2. DOMAIN inbox[b] = 1 .. Len(inbox[b]) /\ DOMAIN inbox'[b] = 1 .. Len(inbox'[b])
    BY <2>1
  <2>3. QED
    BY <2>2
<1>2. CASE b = a
  BY <1>2 DEF Off
<1>3. CASE b # a
  <2>1. Off(a, b) = 0
    BY <1>3 DEF Off
  <2>2. QED
    BY <1>1, <1>3, <2>1
<1>4. QED
  BY <1>2, <1>3

LEMMA TailIsRead ==
  ASSUME EmbedInv, NEW a \in Proc, inbox[a] # <<>>, inbox' = [inbox EXCEPT ![a] = Tail(@)]
  PROVE  ReadBy(a)
<1>1. inbox \in [Proc -> Seq(Message)]
  BY DEF EmbedInv, Typed
<1>2. \A b \in Proc : inbox'[b] = IF b = a THEN Tail(inbox[a]) ELSE inbox[b]
  BY <1>1
<1>3. inbox' \in [Proc -> Seq(Message)]
  BY <1>1, FirstMessage
<1>4. \A b \in Proc : DOMAIN inbox[b] = 1 .. Len(inbox[b]) /\ Len(inbox[b]) \in Nat
  BY <1>1
<1>5. /\ \A i \in DOMAIN inbox'[a] : i + 1 \in DOMAIN inbox[a] /\ inbox'[a][i] = inbox[a][i + 1]
      /\ \A i \in DOMAIN inbox[a] :
           i > 1 => i - 1 \in DOMAIN inbox'[a] /\ inbox'[a][i - 1] = inbox[a][i]
  BY <1>1, <1>2, FirstMessage
<1>6. QED
  BY <1>1, <1>2, <1>3, <1>5, ReadInCases

LEMMA PassingOnReads ==
  ASSUME EmbedInv, NEW a \in Proc, inbox[a] # <<>>, NEW c \in Proc, NEW q \in Query,
         inbox' = Sent([inbox EXCEPT ![a] = Tail(@)], c, <<"call", q>>)
  PROVE  ReadBy(a)
<1> DEFINE Read == [inbox EXCEPT ![a] = Tail(@)]
<1>1. inbox \in [Proc -> Seq(Message)] /\ <<"call", q>> \in Message
  BY DEF EmbedInv, Typed, Message
<1>2. \A b \in Proc : Read[b] = IF b = a THEN Tail(inbox[a]) ELSE inbox[b]
  BY <1>1
<1>3. Read \in [Proc -> Seq(Message)]
  BY <1>1, FirstMessage
<1>4. \A b \in Proc : DOMAIN inbox[b] = 1 .. Len(inbox[b]) /\ Len(inbox[b]) \in Nat
  BY <1>1
<1>5. /\ \A i \in DOMAIN Read[a] : i + 1 \in DOMAIN inbox[a] /\ Read[a][i] = inbox[a][i + 1]
      /\ \A i \in DOMAIN inbox[a] :
           i > 1 => i - 1 \in DOMAIN Read[a] /\ Read[a][i - 1] = inbox[a][i]
  BY <1>1, <1>2, FirstMessage
<1> HIDE DEF Read
<1>6. \A b \in Proc :
        /\ \A i \in DOMAIN inbox'[b] :
             inbox'[b][i][1] # "call" => i \in DOMAIN Read[b] /\ inbox'[b][i] = Read[b][i]
        /\ \A i \in DOMAIN Read[b] : i \in DOMAIN inbox'[b] /\ inbox'[b][i] = Read[b][i]
  <2>1. inbox' = Read \/ inbox' = [Read EXCEPT ![c] = Append(@, <<"call", q>>)]
    BY DEF Sent, Read
  <2>2. ASSUME NEW b \in Proc, inbox'[b] # Read[b]
        PROVE  b = c /\ inbox'[c] = Append(Read[c], <<"call", q>>)
    BY <1>3, <2>1, <2>2
  <2>3. /\ DOMAIN Read[c] = 1 .. Len(Read[c]) /\ Len(Read[c]) \in Nat
        /\ DOMAIN Append(Read[c], <<"call", q>>) = 1 .. Len(Read[c]) + 1
        /\ Append(Read[c], <<"call", q>>)[Len(Read[c]) + 1] = <<"call", q>>
        /\ \A i \in DOMAIN Read[c] : Append(Read[c], <<"call", q>>)[i] = Read[c][i]
    BY <1>1, <1>3, OneMore
  <2>4. <<"call", q>>[1] = "call"
    OBVIOUS
  <2>5. SUFFICES ASSUME NEW b \in Proc
                 PROVE  /\ \A i \in DOMAIN inbox'[b] :
                             inbox'[b][i][1] # "call" =>
                               i \in DOMAIN Read[b] /\ inbox'[b][i] = Read[b][i]
                        /\ \A i \in DOMAIN Read[b] :
                             i \in DOMAIN inbox'[b] /\ inbox'[b][i] = Read[b][i]
    OBVIOUS
  <2>6. CASE inbox'[b] = Read[b]
    BY ONLY <2>6
  <2>7. CASE inbox'[b] # Read[b]
    <3>1. b = c /\ inbox'[b] = Append(Read[b], <<"call", q>>)
      BY <2>2, <2>7
    <3>2. QED
      BY ONLY <2>3, <2>4, <3>1
  <2>8. QED
    BY <2>6, <2>7
<1>7. inbox' \in [Proc -> Seq(Message)]
  <2>1. Append(Read[c], <<"call", q>>) \in Seq(Message)
    BY <1>1, <1>3, OneMore
  <2>2. QED
    BY <1>3, <2>1 DEF Sent, Read
<1>8. \A b \in Proc \ {a} : Read[b] = inbox[b]
  BY <1>2
<1>9. /\ \A i \in DOMAIN inbox'[a] : inbox'[a][i][1] # "call" =>
           i + 1 \in DOMAIN inbox[a] /\ inbox'[a][i] = inbox[a][i + 1]
      /\ \A i \in DOMAIN inbox[a] : i > 1 =>
           i - 1 \in DOMAIN inbox'[a] /\ inbox'[a][i - 1] = inbox[a][i]
  <2>1. /\ \A i \in DOMAIN inbox'[a] :
             inbox'[a][i][1] # "call" => i \in DOMAIN Read[a] /\ inbox'[a][i] = Read[a][i]
        /\ \A i \in DOMAIN Read[a] : i \in DOMAIN inbox'[a] /\ inbox'[a][i] = Read[a][i]
    BY <1>6
  <2>2. QED
    BY ONLY <1>5, <2>1
<1>10. \A b \in Proc \ {a} :
         /\ \A i \in DOMAIN inbox'[b] :
              inbox'[b][i][1] # "call" => i \in DOMAIN inbox[b] /\ inbox'[b][i] = inbox[b][i]
         /\ \A i \in DOMAIN inbox[b] : i \in DOMAIN inbox'[b] /\ inbox'[b][i] = inbox[b][i]
  <2> TAKE b \in Proc \ {a}
  <2>1. b \in Proc /\ Read[b] = inbox[b]
    BY <1>8
  <2>2. QED
    BY ONLY <1>6, <2>1
<1>11. QED
  BY <1>1, <1>7, <1>9, <1>10, ReadInCases

-----------------------------------------------------------------------------
(* What reading a message leaves true *)

\* An application's parents change with the messages about them.
ParentsRead(a) ==
  parentOf' = IF inbox[a][1][1] = "Embedded"
                THEN [parentOf EXCEPT ![inbox[a][1][3]] = inbox[a][1][2]] ELSE parentOf

LEMMA PlugOwner == \A p \in Plug : Owner[p] \in Proc
BY EmbeddingAssumption

\* Positions move by one for the application that reads.
LEMMA BeforeRead ==
  ASSUME EmbedInv, NEW a \in Proc, ReadBy(a), NEW p \in Plug, NEW n \in Nat
  PROVE  /\ Off(a, Owner[p]) \in {0, 1}
         /\ \A i \in Before(p, n)' :
              /\ i \in Nat \ {0} /\ i + Off(a, Owner[p]) \in Before(p, n + Off(a, Owner[p]))
              /\ inbox'[Owner[p]][i] = inbox[Owner[p]][i + Off(a, Owner[p])]
         /\ \A i \in Before(p, n + Off(a, Owner[p])) :
              /\ i \in Nat \ {0}
              /\ i > Off(a, Owner[p]) =>
                   /\ i - Off(a, Owner[p]) \in Before(p, n)'
                   /\ inbox'[Owner[p]][i - Off(a, Owner[p])] = inbox[Owner[p]][i]
<1> DEFINE o == Owner[p]
<1> DEFINE e == Off(a, o)
<1>1. o \in Proc /\ e \in {0, 1}
  BY PlugOwner DEF Off
<1>2. inbox[o] \in Seq(Message) /\ inbox'[o] \in Seq(Message)
  BY <1>1 DEF EmbedInv, Typed, ReadBy
<1>3. \A i \in DOMAIN inbox[o] \cup DOMAIN inbox'[o] : i \in Nat \ {0}
  <2>1. DOMAIN inbox[o] = 1 .. Len(inbox[o]) /\ DOMAIN inbox'[o] = 1 .. Len(inbox'[o])
    BY <1>2
  <2>2. QED
    BY <2>1
<1>4. /\ \A i \in DOMAIN inbox'[o] :
           inbox'[o][i][1] # "call" => i + e \in DOMAIN inbox[o] /\ inbox'[o][i] = inbox[o][i + e]
      /\ \A i \in DOMAIN inbox[o] :
           i > e => i - e \in DOMAIN inbox'[o] /\ inbox'[o][i - e] = inbox[o][i]
  BY <1>1 DEF ReadBy
<1>5. /\ Before(p, n)' = {i \in DOMAIN inbox'[o] :
                            (inbox'[o][i][1] = "Embedded" /\ inbox'[o][i][3] = p) /\ i < n}
      /\ Before(p, n + e) = {i \in DOMAIN inbox[o] :
                               (inbox[o][i][1] = "Embedded" /\ inbox[o][i][3] = p) /\ i < n + e}
  BY DEF Before, InFlight
<1> HIDE DEF o, e
<1>6. ASSUME NEW i \in Before(p, n)'
      PROVE  i \in Nat \ {0} /\ i + e \in Before(p, n + e) /\ inbox'[o][i] = inbox[o][i + e]
  <2>1. /\ i \in DOMAIN inbox'[o] /\ i < n
        /\ inbox'[o][i][1] = "Embedded" /\ inbox'[o][i][3] = p
    BY <1>5
  <2>2. i \in Nat \ {0} /\ i + e \in DOMAIN inbox[o] /\ inbox'[o][i] = inbox[o][i + e]
    BY <1>3, <1>4, <2>1
  <2>3. i + e < n + e
    BY <1>1, <2>1, <2>2
  <2>4. QED
    BY <1>5, <2>1, <2>2, <2>3
<1>7. ASSUME NEW i \in Before(p, n + e)
      PROVE  /\ i \in Nat \ {0}
             /\ i > e => i - e \in Before(p, n)' /\ inbox'[o][i - e] = inbox[o][i]
  <2>1. /\ i \in DOMAIN inbox[o] /\ i < n + e
        /\ inbox[o][i][1] = "Embedded" /\ inbox[o][i][3] = p
    BY <1>5
  <2>2. i \in Nat \ {0}
    BY <1>3, <2>1
  <2>3. ASSUME i > e PROVE i - e \in DOMAIN inbox'[o] /\ inbox'[o][i - e] = inbox[o][i]
    BY <1>4, <2>1, <2>3
  <2>4. i - e < n
    BY <1>1, <2>1, <2>2
  <2>5. QED
    BY <1>5, <2>1, <2>2, <2>3, <2>4
<1>8. QED
  BY <1>1, <1>6, <1>7 DEF o, e

LEMMA SettlesRead ==
  ASSUME EmbedInv, NEW a \in Proc, inbox[a] # <<>>, ReadBy(a), ParentsRead(a),
         NEW p \in Plug, NEW n \in Nat \ {0}, NEW S \in SUBSET Socket,
         Settles(p, n + Off(a, Owner[p]), S)
  PROVE  Settles(p, n, S)'
<1> DEFINE o == Owner[p]
<1> DEFINE e == Off(a, o)
<1> DEFINE B == Before(p, n + e)
<1>1. /\ e \in {0, 1}
      /\ \A i \in Before(p, n)' :
           i \in Nat \ {0} /\ i + e \in B /\ inbox'[o][i] = inbox[o][i + e]
      /\ \A i \in B :
           /\ i \in Nat \ {0}
           /\ i > e => i - e \in Before(p, n)' /\ inbox'[o][i - e] = inbox[o][i]
  BY BeforeRead
<1>2. /\ B = {} => parentOf[p] \in S
      /\ \A i \in B : (\A j \in B : j <= i) => inbox[o][i][2] \in S
  BY DEF Settles
<1>3. /\ 1 \in DOMAIN inbox[a] /\ inbox[a][1] \in Message
  BY FirstMessage DEF EmbedInv, Typed
<1>4. parentOf \in [Plug -> Socket \cup {Nothing}]
  BY DEF EmbedInv, Typed, EmbeddingTypeOK
<1>5. 1 \in B /\ e = 1 <=> o = a /\ inbox[a][1][1] = "Embedded" /\ inbox[a][1][3] = p
  <2>1. e = 1 <=> o = a
    BY DEF Off
  <2>2. e = 1 => 1 < n + e
    OBVIOUS
  <2>3. QED
    BY <1>3, <2>1, <2>2 DEF Before, InFlight
<1>6. inbox[a][1][1] = "Embedded" /\ inbox[a][1][3] = p => o = a
  BY <1>3 DEF EmbedInv, Addressed
<1> HIDE DEF o, e, B
<1>7. ASSUME Before(p, n)' = {} PROVE parentOf'[p] \in S
  <2>1. \A i \in B : i = 1 /\ e = 1
    BY <1>1, <1>7
  <2>2. CASE B = {}
    <3>1. parentOf'[p] = parentOf[p]
      <4>1. ~(inbox[a][1][1] = "Embedded" /\ inbox[a][1][3] = p)
        BY <1>5, <1>6, <2>2
      <4>2. QED
        BY <1>4, <4>1 DEF ParentsRead
    <3>2. QED
      BY <1>2, <2>2, <3>1
  <2>3. CASE B # {}
    <3>1. 1 \in B /\ e = 1
      BY <2>1, <2>3
    <3>2. inbox[o][1][2] \in S
      BY <1>2, <2>1, <3>1
    <3>3. parentOf'[p] = inbox[a][1][2] /\ o = a
      BY <1>4, <1>5, <3>1 DEF ParentsRead
    <3>4. QED
      BY <3>2, <3>3
  <2>4. QED
    BY <2>2, <2>3
<1>8. ASSUME NEW i \in Before(p, n)', \A j \in Before(p, n)' : j <= i
      PROVE  inbox'[o][i][2] \in S
  <2>1. ASSUME NEW j \in B PROVE j <= i + e
    BY <1>1, <1>8
  <2>2. QED
    BY <1>1, <1>2, <2>1
<1>9. QED
  BY <1>7, <1>8 DEF Settles, o

LEMMA CurrentRead ==
  ASSUME EmbedInv, NEW a \in Proc, inbox[a] # <<>>, ReadBy(a), ParentsRead(a),
         embeds' = embeds, alive' = alive
  PROVE  Current'
<1> SUFFICES ASSUME NEW p \in Plug, Owner[p] \in alive
             PROVE  IF By(p) = {} THEN InFlight(p)' = {} /\ parentOf'[p] = Nothing
                    ELSE \A n \in Nat : n > Len(inbox'[Owner[p]]) => Settles(p, n, LastEmbedder(p))'
  BY DEF Current, By
<1>1. /\ Owner[p] \in Proc /\ inbox[Owner[p]] \in Seq(Message) /\ inbox'[Owner[p]] \in Seq(Message)
      /\ inbox[a] \in Seq(Message)
  BY PlugOwner DEF EmbedInv, Typed, ReadBy
<1>2. /\ DOMAIN inbox[Owner[p]] = 1 .. Len(inbox[Owner[p]]) /\ Len(inbox[Owner[p]]) \in Nat
      /\ DOMAIN inbox'[Owner[p]] = 1 .. Len(inbox'[Owner[p]]) /\ Len(inbox'[Owner[p]]) \in Nat
  BY <1>1
<1>3. CASE By(p) = {}
  <2>1. InFlight(p) = {} /\ parentOf[p] = Nothing
    BY <1>3 DEF EmbedInv, Current
  <2>2. ~(inbox[a][1][1] = "Embedded" /\ inbox[a][1][3] = p)
    BY <1>1, <2>1, FirstMessage DEF EmbedInv, Addressed, InFlight
  <2>3. parentOf'[p] = Nothing
    BY <2>1, <2>2 DEF ParentsRead, EmbedInv, Typed, EmbeddingTypeOK
  <2>4. InFlight(p)' = {}
    <3>1. \A i \in DOMAIN inbox'[Owner[p]] :
            inbox'[Owner[p]][i][1] # "call" =>
              \E k \in DOMAIN inbox[Owner[p]] : inbox'[Owner[p]][i] = inbox[Owner[p]][k]
      BY <1>1 DEF ReadBy
    <3>2. QED
      BY <2>1, <3>1 DEF InFlight
  <2>5. QED
    BY <1>3, <2>3, <2>4
<1>4. CASE By(p) # {}
  <2>1. SUFFICES ASSUME NEW n \in Nat, n > Len(inbox'[Owner[p]])
                 PROVE  Settles(p, n, LastEmbedder(p))'
    BY <1>4
  <2>2. PICK S \in SUBSET Socket : S = LastEmbedder(p)
    BY DEF LastEmbedder
  <2>3. LastEmbedder(p)' = S
    BY <2>2 DEF LastEmbedder, By
  <2>4. Off(a, Owner[p]) \in {0, 1}
    BY DEF Off
  <2>5. n + Off(a, Owner[p]) > Len(inbox[Owner[p]])
    <3>1. n \notin DOMAIN inbox'[Owner[p]]
      BY <1>2, <2>1
    <3>2. \A i \in DOMAIN inbox[Owner[p]] :
            i > Off(a, Owner[p]) => i - Off(a, Owner[p]) \in DOMAIN inbox'[Owner[p]]
      BY <1>1 DEF ReadBy
    <3>3. n # 0
      BY <1>2, <2>1
    <3>4. DEFINE m == n + Off(a, Owner[p])
    <3>5. m \in Nat /\ m > Off(a, Owner[p]) /\ m - Off(a, Owner[p]) = n
      BY <2>1, <2>4, <3>3
    <3>6. m \notin DOMAIN inbox[Owner[p]]
      BY <3>1, <3>2, <3>5
    <3>7. QED
      BY <1>2, <2>4, <3>3, <3>5, <3>6
  <2>6. Settles(p, n + Off(a, Owner[p]), S)
    <3>1. n + Off(a, Owner[p]) \in Nat
      BY <2>1, <2>4
    <3>2. Settles(p, n + Off(a, Owner[p]), LastEmbedder(p))
      BY <1>4, <2>5, <3>1 DEF EmbedInv, Current
    <3>3. QED
      BY <2>2, <3>2
  <2>7. Settles(p, n, S)'
    <3>1. n \in Nat \ {0}
      BY <1>2, <2>1
    <3>2. QED
      BY <2>6, <3>1, SettlesRead
  <2>8. QED
    BY <2>3, <2>7 DEF Settles
<1>5. QED
  BY <1>3, <1>4

\* What clients have been told of children they are not told anew.
ChildrenStand ==
  /\ query' = query /\ since' = since
  /\ \A q \in Query : query[q] \in Calls /\ query[q][1] = "Child" /\ answer[q] # Nothing =>
       answer'[q] = answer[q]

LEMMA OrderedRead ==
  ASSUME EmbedInv, NEW a \in Proc, inbox[a] # <<>>, ReadBy(a), ParentsRead(a),
         embeds' = embeds, ChildrenStand
  PROVE  Ordered'
<1> SUFFICES ASSUME NEW p \in Plug, NEW n \in DOMAIN inbox'[Owner[p]],
                    NEW r \in Query, NEW q \in since[r],
                    inbox'[Owner[p]][n] = <<"ask", r>>, query[r] = <<"Parent", p>>,
                    query[q][1] = "Child", answer'[q] = p
             PROVE  \E j \in By(p) : /\ embeds[j][1] = query[q][2]
                                     /\ Settles(p, n, EmbeddersSince(p, j))'
  BY DEF Ordered, By, ChildrenStand
<1>1. Owner[p] \in Proc /\ inbox'[Owner[p]] \in Seq(Message)
  BY PlugOwner DEF ReadBy
<1>2. n \in Nat \ {0}
  <2>1. DOMAIN inbox'[Owner[p]] = 1 .. Len(inbox'[Owner[p]])
    BY <1>1
  <2>2. QED
    BY <2>1
<1>3. <<"ask", r>>[1] # "call"
  OBVIOUS
<1>4. /\ n + Off(a, Owner[p]) \in DOMAIN inbox[Owner[p]]
      /\ inbox[Owner[p]][n + Off(a, Owner[p])] = <<"ask", r>>
  BY <1>1, <1>3 DEF ReadBy
<1>5. answer[q] = p
  <2>1. q \in Query
    BY DEF EmbedInv, Typed
  <2>2. answer[q] # Nothing /\ query[q] \in Calls
    BY <2>1 DEF EmbedInv, Told
  <2>3. QED
    BY <2>1, <2>2 DEF ChildrenStand
<1>6. PICK j \in By(p) : /\ embeds[j][1] = query[q][2]
                         /\ Settles(p, n + Off(a, Owner[p]), EmbeddersSince(p, j))
  BY <1>4, <1>5 DEF EmbedInv, Ordered
<1>7. PICK S \in SUBSET Socket : S = EmbeddersSince(p, j)
  BY DEF EmbeddersSince
<1>8. S = EmbeddersSince(p, j)'
  BY <1>7 DEF EmbeddersSince, By
<1>9. Settles(p, n, S)'
  BY <1>2, <1>6, <1>7, SettlesRead
<1>10. QED
  BY <1>6, <1>8, <1>9 DEF Settles

LEMMA AddressedRead ==
  ASSUME EmbedInv, NEW a \in Proc, ReadBy(a), query' = query
  PROVE  Addressed'
<1> SUFFICES ASSUME NEW b \in Proc, NEW i \in DOMAIN inbox'[b], inbox'[b][i][1] # "call"
             PROVE  /\ inbox'[b][i][1] = "Embedded" => Owner[inbox'[b][i][3]] = b
                    /\ inbox'[b][i][1] = "ask" =>
                         /\ query[inbox'[b][i][2]] \in Calls
                         /\ Owner[query[inbox'[b][i][2]][2]] = b
  BY DEF Addressed
<1>1. i + Off(a, b) \in DOMAIN inbox[b] /\ inbox'[b][i] = inbox[b][i + Off(a, b)]
  BY DEF ReadBy
<1>2. QED
  BY <1>1 DEF EmbedInv, Addressed

LEMMA AskMessage ==
  ASSUME NEW m \in Message, m[1] = "ask"
  PROVE  m = <<"ask", m[2]>> /\ m[2] \in Query
BY DEF Message

\* Clients are only answered what is asked first in the queue.
AnswersFirst(a) ==
  \A q \in Query :
    /\ answer'[q] # answer[q] => inbox[a][1] = <<"ask", q>>
    /\ answer[q] # Nothing => answer'[q] # Nothing

LEMMA ToldRead ==
  ASSUME EmbedInv, NEW a \in Proc, inbox[a] # <<>>, ReadBy(a), AnswersFirst(a),
         query' = query, since' = since,
         \A b \in Proc : waiting'[b] \notin {Nothing, waiting[b]} =>
           query[waiting'[b]] \in Calls /\ query[waiting'[b]][1] \in {"Extents", "State"}
  PROVE  Told' /\ ChildrenStand
<1>1. inbox[a] \in Seq(Message) /\ 1 \in DOMAIN inbox[a] /\ inbox[a][1] \in Message
  BY FirstMessage DEF EmbedInv, Typed
<1>2. ASSUME NEW q \in Query, answer'[q] # answer[q]
      PROVE  inbox[a][1] = <<"ask", q>> /\ query[q] \in Calls /\ Owner[query[q][2]] = a
  <2>1. inbox[a][1] = <<"ask", q>>
    BY <1>2 DEF AnswersFirst
  <2>2. inbox[a][1][1] = "ask" /\ inbox[a][1][2] = q
    BY <2>1
  <2>3. QED
    BY <1>1, <2>1, <2>2 DEF EmbedInv, Addressed
<1>3. ChildrenStand
  <2>1. SUFFICES ASSUME NEW q \in Query, query[q][1] = "Child", answer'[q] # answer[q]
                 PROVE  answer[q] = Nothing
    BY DEF ChildrenStand
  <2>2. inbox[a][1] = <<"ask", q>>
    BY <1>2, <2>1
  <2>3. inbox[a][1][1] = "ask" /\ inbox[a][1][2] = q
    BY <2>2
  <2>4. QED
    BY <1>1, <2>1, <2>3 DEF EmbedInv, Told
<1>4. \A q \in Query : answer'[q] # Nothing => query'[q] \in Calls
  BY <1>2 DEF EmbedInv, Told
<1>5. \A r \in Query : \A q \in since'[r] : answer'[q] # Nothing
  BY DEF EmbedInv, Told, Typed, AnswersFirst
<1>6. \A b \in Proc : waiting'[b] # Nothing =>
        query'[waiting'[b]] \in Calls /\ query'[waiting'[b]][1] \in {"Extents", "State"}
  BY DEF EmbedInv, Told
<1>7. ASSUME NEW b \in Proc, NEW i \in DOMAIN inbox'[b],
             inbox'[b][i][1] = "ask", query[inbox'[b][i][2]][1] = "Child"
      PROVE  /\ answer'[inbox'[b][i][2]] = Nothing
             /\ \A j \in DOMAIN inbox'[b] : inbox'[b][j] = inbox'[b][i] => j = i
  <2>1. inbox'[b] \in Seq(Message) /\ inbox'[b][i] \in Message
    BY DEF ReadBy
  <2>2. PICK q \in Query : inbox'[b][i] = <<"ask", q>> /\ inbox'[b][i][2] = q
    BY <1>7, <2>1, AskMessage
  <2>3. /\ \A j \in DOMAIN inbox'[b] : inbox'[b][j] = inbox'[b][i] =>
             j + Off(a, b) \in DOMAIN inbox[b] /\ inbox[b][j + Off(a, b)] = <<"ask", q>>
    BY <1>7, <2>2 DEF ReadBy
  <2>4. /\ i + Off(a, b) \in DOMAIN inbox[b] /\ inbox[b][i + Off(a, b)] = <<"ask", q>>
        /\ inbox[b][i + Off(a, b)][1] = "ask" /\ inbox[b][i + Off(a, b)][2] = q
    BY <2>2, <2>3
  <2>5. /\ answer[q] = Nothing
        /\ \A j \in DOMAIN inbox[b] : inbox[b][j] = <<"ask", q>> => j = i + Off(a, b)
    BY <1>7, <2>2, <2>4 DEF EmbedInv, Told
  <2>6. \A j \in DOMAIN inbox'[b] : j \in Nat \ {0}
    BY <2>1
  <2>7. Off(a, b) \in {0, 1} /\ (a = b => Off(a, b) = 1)
    BY DEF Off
  <2>8. \A j \in DOMAIN inbox'[b] : inbox'[b][j] = inbox'[b][i] => j = i
    BY <2>3, <2>5, <2>6, <2>7
  <2>9. answer'[q] = Nothing
    <3>1. SUFFICES ASSUME answer'[q] # answer[q] PROVE FALSE
      BY <2>5
    <3>2. inbox[a][1] = <<"ask", q>> /\ Owner[query[q][2]] = a
      BY <1>2, <3>1
    <3>3. Owner[query[q][2]] = b
      BY <2>4 DEF EmbedInv, Addressed
    <3>4. 1 = i + Off(a, b)
      BY <1>1, <2>5, <3>2, <3>3
    <3>5. QED
      BY <2>6, <2>7, <3>2, <3>3, <3>4
  <2>10. QED
    BY <2>2, <2>8, <2>9
<1>8. QED
  BY <1>3, <1>4, <1>5, <1>6, <1>7 DEF Told

\* What has been said about children stays as true as it was.
LEMMA GivenStands ==
  ASSUME EmbedInv, embeds' = embeds, embedded' = embedded, query' = query,
         \A q \in Query : query[q] \in Calls /\ query[q][1] = "Child" =>
           answer'[q] \in {answer[q], "no answer"}
  PROVE  ChildrenGiven'
<1>1. \A x, y : Gave(x, y)' = Gave(x, y)
  BY DEF Gave, By
<1>2. "no answer" \notin Plug
  BY EmbeddingAssumption DEF Plain
<1>3. QED
  BY <1>1, <1>2 DEF EmbedInv, ChildrenGiven

LEMMA ParentsStand ==
  ASSUME EmbedInv, embeds' = embeds, ChildrenStand,
         \A r \in Query : query[r] \in Calls /\ query[r][1] = "Parent" =>
           answer'[r] \in {answer[r], "no answer"}
  PROVE  ParentAfterChild'
<1> SUFFICES ASSUME NEW q \in Query, NEW r \in Query,
                    query'[r] # <<>>, query'[r][1] = "Parent",
                    answer'[r] \notin {Nothing, "no answer"},
                    q \in since'[r], query'[q][1] = "Child", answer'[q] = query'[r][2]
             PROVE  \E i \in By(query[r][2])' :
                      /\ answer'[r] = embeds'[i][1]
                      /\ \E j \in By(query[r][2])' : j <= i /\ embeds'[j][1] = query'[q][2]
  BY DEF ParentAfterChild
<1>1. query' = query /\ since' = since /\ By(query[r][2])' = By(query[r][2])
  BY DEF ChildrenStand, By
<1>2. query[r] \in Calls /\ answer'[r] = answer[r]
  BY <1>1 DEF EmbedInv, Typed
<1>3. answer[q] = answer'[q]
  BY <1>1 DEF EmbedInv, Told, ChildrenStand
<1>4. \E i \in By(query[r][2]) :
        /\ answer[r] = embeds[i][1]
        /\ \E j \in By(query[r][2]) : j <= i /\ embeds[j][1] = query[q][2]
  BY <1>1, <1>2, <1>3 DEF EmbedInv, ParentAfterChild
<1>5. QED
  BY <1>1, <1>2, <1>4

\* Where nothing is read, the queues are as they were, or gone.
LEMMA NothingRead ==
  ASSUME EmbedInv, parentOf' = parentOf, embeds' = embeds, alive' \subseteq alive, ChildrenStand,
         \A b \in Proc : inbox'[b] = inbox[b] \/ (inbox'[b] = <<>> /\ b \notin alive')
  PROVE  Addressed' /\ Current' /\ Ordered'
<1>1. \A b \in Proc : \A i \in DOMAIN inbox'[b] : inbox'[b] = inbox[b]
  OBVIOUS
<1>2. Addressed'
  BY <1>1 DEF EmbedInv, Addressed, ChildrenStand
<1>3. ASSUME NEW p \in Plug, inbox'[Owner[p]] = inbox[Owner[p]]
      PROVE  /\ InFlight(p)' = InFlight(p)
             /\ \A n \in Nat : Before(p, n)' = Before(p, n)
  BY <1>3 DEF InFlight, Before
<1>4. Current'
  <2> SUFFICES ASSUME NEW p \in Plug, Owner[p] \in alive'
               PROVE  IF By(p) = {} THEN InFlight(p)' = {} /\ parentOf[p] = Nothing
                      ELSE \A n \in Nat : n > Len(inbox'[Owner[p]]) =>
                             Settles(p, n, LastEmbedder(p))'
    BY DEF Current, By
  <2>1. inbox'[Owner[p]] = inbox[Owner[p]] /\ Owner[p] \in alive
    BY PlugOwner
  <2>2. LastEmbedder(p)' = LastEmbedder(p)
    BY DEF LastEmbedder, By
  <2>3. \A n \in Nat : Settles(p, n, LastEmbedder(p)) => Settles(p, n, LastEmbedder(p))'
    BY <1>3, <2>1, <2>2 DEF Settles
  <2>4. QED
    BY <1>3, <2>1, <2>3 DEF EmbedInv, Current
<1>5. Ordered'
  <2> SUFFICES ASSUME NEW p \in Plug, NEW n \in DOMAIN inbox'[Owner[p]],
                      NEW r \in Query, NEW q \in since[r],
                      inbox'[Owner[p]][n] = <<"ask", r>>, query[r] = <<"Parent", p>>,
                      query[q][1] = "Child", answer'[q] = p
               PROVE  \E j \in By(p) : /\ embeds[j][1] = query[q][2]
                                       /\ Settles(p, n, EmbeddersSince(p, j))'
    BY DEF Ordered, By, ChildrenStand
  <2>1. inbox'[Owner[p]] = inbox[Owner[p]] /\ inbox[Owner[p]] \in Seq(Message)
    BY <1>1, PlugOwner DEF EmbedInv, Typed
  <2>2. n \in Nat
    BY <2>1
  <2>3. answer[q] = p
    BY DEF EmbedInv, Typed, Told, ChildrenStand
  <2>4. PICK j \in By(p) : embeds[j][1] = query[q][2] /\ Settles(p, n, EmbeddersSince(p, j))
    BY <2>1, <2>3 DEF EmbedInv, Ordered
  <2>5. EmbeddersSince(p, j)' = EmbeddersSince(p, j)
    BY DEF EmbeddersSince, By
  <2>6. Settles(p, n, EmbeddersSince(p, j))'
    BY <1>3, <2>1, <2>2, <2>4, <2>5 DEF Settles
  <2>7. QED
    BY <2>4, <2>6
<1>6. QED
  BY <1>2, <1>4, <1>5

-----------------------------------------------------------------------------
(* The actions that read a message *)

LEMMA EmbeddedKeepsInv ==
  ASSUME EmbedInv, NEW a \in Proc, Embedded(a)
  PROVE  EmbedInv'
<1>1. /\ a \in alive /\ inbox[a] # <<>> /\ inbox[a][1] \in Message /\ 1 \in DOMAIN inbox[a]
      /\ inbox[a][1][1] = "Embedded"
      /\ parentOf' = [parentOf EXCEPT ![inbox[a][1][3]] = inbox[a][1][2]]
      /\ asksSocket' = asksSocket \cup {a} /\ inbox' = [inbox EXCEPT ![a] = Tail(@)]
      /\ UNCHANGED <<embedded, asksPlug, waiting, alive, query, since, called, heard, answer, embeds>>
  BY FirstMessage DEF Embedded, Dispatches, Next1, asking, EmbedInv, Typed
<1>2. ReadBy(a) /\ ParentsRead(a)
  BY <1>1, TailIsRead DEF ParentsRead
<1>3. PICK s \in Socket, p \in Plug : inbox[a][1] = <<"Embedded", s, p>>
  BY <1>1 DEF Message
<1>4. Owner[p] = a /\ parentOf' = [parentOf EXCEPT ![p] = s] /\ s # Nothing
  BY <1>1, <1>3, EmbeddingAssumption DEF EmbedInv, Addressed
<1>5. AnswersFirst(a)
  BY <1>1 DEF AnswersFirst
<1>6. Told' /\ ChildrenStand /\ Addressed' /\ Current' /\ Ordered'
  BY <1>1, <1>2, <1>5, ToldRead, AddressedRead, CurrentRead, OrderedRead
<1>7. Typed'
  <2>1. parentOf' \in [Plug -> Socket \cup {Nothing}]
    BY <1>4 DEF EmbedInv, Typed, EmbeddingTypeOK
  <2>2. inbox' \in [Proc -> Seq(Message)]
    BY <1>2 DEF ReadBy
  <2>3. QED
    BY <1>1, <2>1, <2>2 DEF EmbedInv, Typed, EmbeddingTypeOK
<1>8. \A x \in Plug : parentOf[x] # Nothing => parentOf'[x] # Nothing
  BY <1>4 DEF EmbedInv, Typed, EmbeddingTypeOK
<1>9. Hooked'
  <2>1. parentOf'[p] # Nothing
    BY <1>4 DEF EmbedInv, Typed, EmbeddingTypeOK
  <2>2. QED
    BY <1>1, <1>4, <1>8, <2>1 DEF EmbedInv, Hooked
<1>10. AbortedByLonePlug'
  <2> SUFFICES ASSUME NEW b \in Proc \ alive
               PROVE  \E x, other \in Plug :
                        /\ Owner[x] = b /\ Owner[other] = b
                        /\ parentOf'[x] = Nothing /\ parentOf'[other] # Nothing
    BY <1>1 DEF AbortedByLonePlug
  <2>1. PICK x \in Plug, other \in Plug :
          /\ Owner[x] = b /\ Owner[other] = b
          /\ parentOf[x] = Nothing /\ parentOf[other] # Nothing
    BY DEF EmbedInv, AbortedByLonePlug
  <2>2. parentOf'[x] = Nothing /\ parentOf'[other] # Nothing
    BY <1>1, <1>4, <1>8, <2>1 DEF EmbedInv, Typed, EmbeddingTypeOK
  <2>3. QED
    BY <2>1, <2>2
<1>11. ChildrenGiven' /\ ParentAfterChild'
  BY <1>1, <1>6, GivenStands, ParentsStand
<1>12. QED
  BY <1>6, <1>7, <1>9, <1>10, <1>11 DEF EmbedInv

LEMMA ServeKeepsInv ==
  ASSUME EmbedInv, NEW a \in Proc, Serve(a)
  PROVE  EmbedInv'
<1>1. /\ inbox[a] # <<>> /\ inbox[a][1] \in Message /\ inbox[a][1][1] = "call"
      /\ heard' = heard \cup {inbox[a][1][2]} /\ inbox' = [inbox EXCEPT ![a] = Tail(@)]
      /\ UNCHANGED <<embedded, parentOf, asksSocket, asksPlug, embeds, waiting, alive, query,
                     since, called, answer>>
  BY FirstMessage DEF Serve, Next1, links, asking, EmbedInv, Typed
<1>2. ReadBy(a) /\ ParentsRead(a) /\ AnswersFirst(a)
  BY <1>1, TailIsRead DEF ParentsRead, AnswersFirst
<1>3. Told' /\ ChildrenStand /\ Addressed' /\ Current' /\ Ordered'
  BY <1>1, <1>2, ToldRead, AddressedRead, CurrentRead, OrderedRead
<1>4. Typed'
  <2>1. inbox[a][1][2] \in Query
    BY <1>1 DEF Message
  <2>2. QED
    BY <1>1, <1>2, <2>1 DEF EmbedInv, Typed, EmbeddingTypeOK, ReadBy
<1>5. Hooked' /\ AbortedByLonePlug'
  BY <1>1 DEF EmbedInv, Hooked, AbortedByLonePlug
<1>6. ChildrenGiven' /\ ParentAfterChild'
  BY <1>1, <1>3, GivenStands, ParentsStand
<1>7. QED
  BY <1>3, <1>4, <1>5, <1>6 DEF EmbedInv

\* The query that is first in a queue.
LEMMA FirstQuery ==
  ASSUME EmbedInv, NEW a \in Proc, Asked(a)
  PROVE  /\ inbox[a] # <<>> /\ a \in alive /\ 1 \in DOMAIN inbox[a]
         /\ Next1(a)[2] \in Query /\ inbox[a][1] = <<"ask", Next1(a)[2]>>
         /\ Of(a) \in Calls /\ Of(a)[2] \in Socket \cup Plug /\ Owner[Of(a)[2]] = a
         /\ Of(a)[1] \in {"Parent", "Extents"} => Of(a)[2] \in Plug
         /\ Of(a)[1] \in {"Child", "State"} => Of(a)[2] \in Socket
         /\ Of(a) = query[Next1(a)[2]]
<1>1. /\ inbox[a] # <<>> /\ a \in alive /\ 1 \in DOMAIN inbox[a]
      /\ Next1(a) = inbox[a][1] /\ inbox[a][1] \in Message /\ inbox[a][1][1] = "ask"
  BY FirstMessage DEF EmbedInv, Typed, Asked, Dispatches, Next1
<1>2. inbox[a][1] = <<"ask", Next1(a)[2]>> /\ Next1(a)[2] \in Query
  BY <1>1, AskMessage
<1>3. Of(a) \in Calls /\ Owner[Of(a)[2]] = a /\ Of(a) = query[Next1(a)[2]]
  BY <1>1 DEF EmbedInv, Addressed, Of
<1>4. QED
  BY <1>1, <1>2, <1>3 DEF Calls, Takes

LEMMA PassOnKeepsInv ==
  ASSUME EmbedInv, NEW a \in Proc, PassOn(a)
  PROVE  EmbedInv'
<1> DEFINE q == Next1(a)[2]
<1>1. Asked(a) /\ Other(a) # Nothing
  BY DEF PassOn
<1>2. /\ inbox[a] # <<>> /\ inbox[a][1] = <<"ask", q>> /\ q \in Query
      /\ query[q] \in Calls /\ Of(a) = query[q] /\ Of(a)[2] \in Socket \cup Plug
      /\ Of(a)[1] = "Extents" => Of(a)[2] \in Plug
      /\ Of(a)[1] = "State" => Of(a)[2] \in Socket
  BY <1>1, FirstQuery
<1>3. /\ waiting' = [waiting EXCEPT ![a] = q]
      /\ inbox' = Sent([inbox EXCEPT ![a] = Tail(@)], Owner[Other(a)], <<"call", q>>)
      /\ heard' = heard \/ heard' = heard \cup {q}
      /\ UNCHANGED <<embedded, parentOf, asksSocket, asksPlug, embeds, alive, query, since, answer>>
  BY DEF PassOn, links, asking
<1>4. query[q][1] \in {"Extents", "State"} /\ Other(a) \in Socket \cup Plug
  BY <1>1, <1>2 DEF Other, EmbedInv, Typed, EmbeddingTypeOK
<1> HIDE DEF q
<1>5. Owner[Other(a)] \in Proc
  BY <1>4, EmbeddingAssumption
<1>6. ReadBy(a)
  BY <1>2, <1>3, <1>5, PassingOnReads
<1>7. inbox[a][1][1] = "ask"
  BY <1>2
<1>8. ParentsRead(a) /\ AnswersFirst(a)
  BY <1>3, <1>7 DEF ParentsRead, AnswersFirst
<1>9. \A b \in Proc : waiting'[b] \notin {Nothing, waiting[b]} =>
        query[waiting'[b]] \in Calls /\ query[waiting'[b]][1] \in {"Extents", "State"}
  BY <1>2, <1>3, <1>4 DEF EmbedInv, Typed, EmbeddingTypeOK
<1>10. Told' /\ ChildrenStand /\ Addressed' /\ Current' /\ Ordered'
  BY <1>2, <1>3, <1>6, <1>8, <1>9, ToldRead, AddressedRead, CurrentRead, OrderedRead
<1>11. Typed'
  <2>1. waiting' \in [Proc -> Query \cup {Nothing}] /\ heard' \subseteq Query
    BY <1>2, <1>3 DEF EmbedInv, Typed, EmbeddingTypeOK
  <2>2. inbox' \in [Proc -> Seq(Message)]
    BY <1>6 DEF ReadBy
  <2>3. QED
    BY <1>3, <2>1, <2>2 DEF EmbedInv, Typed, EmbeddingTypeOK
<1>12. Hooked' /\ AbortedByLonePlug'
  BY <1>3 DEF EmbedInv, Hooked, AbortedByLonePlug
<1>13. ChildrenGiven' /\ ParentAfterChild'
  BY <1>3, <1>10, GivenStands, ParentsStand
<1>14. QED
  BY <1>10, <1>11, <1>12, <1>13 DEF EmbedInv

(* The answer to a question for a parent is one of those that embedded the *)
(* plug since what its client was told; the answer about a child is what   *)
(* the socket was given.                                                   *)
LEMMA DirectKeepsInv ==
  ASSUME EmbedInv, NEW a \in Proc, Direct(a)
  PROVE  EmbedInv'
<1> DEFINE z == Next1(a)[2]
<1> DEFINE said == CASE Of(a)[1] = "Parent" -> OrNull(parentOf[Of(a)[2]])
                     [] Of(a)[1] = "Child"  -> OrNull(embedded[Of(a)[2]])
                     [] Of(a)[1] = "State" /\ a \in asksPlug -> "empty"
                     [] OTHER -> "own"
<1>1. /\ inbox[a] # <<>> /\ inbox[a][1] = <<"ask", z>> /\ z \in Query /\ 1 \in DOMAIN inbox[a]
      /\ query[z] \in Calls /\ Of(a) = query[z] /\ Owner[query[z][2]] = a
      /\ query[z][1] = "Parent" => query[z][2] \in Plug
      /\ query[z][1] = "Child" => query[z][2] \in Socket
  BY FirstQuery DEF Direct
<1>2. /\ answer' = [answer EXCEPT ![z] = said] /\ inbox' = [inbox EXCEPT ![a] = Tail(@)]
      /\ UNCHANGED <<embedded, parentOf, asksSocket, asksPlug, embeds, waiting, alive,
                     query, since, called, heard>>
  BY DEF Direct, links, asking
<1>3. /\ query[z][1] = "Parent" => said = OrNull(parentOf[query[z][2]])
      /\ query[z][1] = "Child" => said = OrNull(embedded[query[z][2]])
      /\ query[z][1] \notin {"Parent", "Child"} => said \in {"empty", "own"}
  BY <1>1
<1> HIDE DEF z, said
<1>4. /\ parentOf \in [Plug -> Socket \cup {Nothing}] /\ embedded \in [Socket -> Plug \cup {Nothing}]
      /\ answer \in [Query -> Plain \cup Socket \cup Plug \cup {Nothing}]
      /\ since \in [Query -> SUBSET Query] /\ Nothing \notin Socket \cup Plug \cup Plain
      /\ Plain \cap (Socket \cup Plug) = {}
  BY EmbeddingAssumption DEF EmbedInv, Typed, EmbeddingTypeOK
<1>5. said \in Plain \cup Socket \cup Plug /\ said # Nothing
  BY <1>1, <1>3, <1>4, ZenonT(40) DEF OrNull, Plain
<1>6. ReadBy(a)
  BY <1>1, <1>2, TailIsRead
<1>7. inbox[a][1][1] = "ask"
  BY <1>1
<1>8. ParentsRead(a)
  BY <1>2, <1>7 DEF ParentsRead
<1>9. AnswersFirst(a)
  BY <1>1, <1>2, <1>4, <1>5 DEF AnswersFirst
<1>10. Told' /\ ChildrenStand /\ Addressed' /\ Current' /\ Ordered'
  BY <1>1, <1>2, <1>6, <1>8, <1>9, ToldRead, AddressedRead, CurrentRead, OrderedRead
<1>11. Typed'
  <2>1. answer' \in [Query -> Plain \cup Socket \cup Plug \cup {Nothing}]
    BY <1>2, <1>4, <1>5
  <2>2. inbox' \in [Proc -> Seq(Message)]
    BY <1>6 DEF ReadBy
  <2>3. QED
    BY <1>2, <2>1, <2>2 DEF EmbedInv, Typed, EmbeddingTypeOK
<1>12. Hooked' /\ AbortedByLonePlug'
  BY <1>2 DEF EmbedInv, Hooked, AbortedByLonePlug
<1>13. ChildrenGiven'
  <2>1. \A x, y : Gave(x, y)' = Gave(x, y)
    BY <1>2 DEF Gave, By
  <2>2. \A s \in Socket : embedded'[s] # Nothing => Gave(s, embedded[s])
    BY <1>2 DEF EmbedInv, ChildrenGiven
  <2>3. ASSUME NEW q \in Query, query[q] \in Calls, query[q][1] = "Child", answer'[q] \in Plug
        PROVE  Gave(query[q][2], answer'[q])
    <3>1. CASE q # z
      <4>1. answer'[q] = answer[q]
        BY <1>2, <1>4, <3>1
      <4>2. QED
        BY <2>3, <4>1 DEF EmbedInv, ChildrenGiven
    <3>2. CASE q = z
      <4>1. answer'[q] = OrNull(embedded[query[q][2]])
        BY <1>2, <1>3, <1>4, <2>3, <3>2
      <4>2. "null" \notin Plug
        BY <1>4 DEF Plain
      <4>3. answer'[q] = embedded[query[q][2]] /\ embedded[query[q][2]] # Nothing
        BY <2>3, <4>1, <4>2 DEF OrNull
      <4>4. QED
        BY <1>1, <2>2, <2>3, <3>2, <4>3, <1>2
    <3>3. QED
      BY <3>1, <3>2
  <2>4. QED
    BY <1>2, <2>1, <2>2, <2>3 DEF ChildrenGiven
<1>14. ParentAfterChild'
  <2> SUFFICES ASSUME NEW q \in Query, NEW r \in Query,
                      query'[r] # <<>>, query'[r][1] = "Parent",
                      answer'[r] \notin {Nothing, "no answer"},
                      q \in since'[r], query'[q][1] = "Child", answer'[q] = query'[r][2]
               PROVE  \E i \in By(query[r][2])' :
                        /\ answer'[r] = embeds'[i][1]
                        /\ \E j \in By(query[r][2])' : j <= i /\ embeds'[j][1] = query'[q][2]
    BY DEF ParentAfterChild
  <2>1. query' = query /\ since' = since /\ embeds' = embeds /\ By(query[r][2])' = By(query[r][2])
    BY <1>2 DEF By
  <2>2. answer'[q] = answer[q] /\ query[r] \in Calls
    BY <1>10, <2>1 DEF EmbedInv, Typed, Told, ChildrenStand
  <2>3. CASE r # z
    <3>1. answer'[r] = answer[r]
      BY <1>2, <1>4, <2>3
    <3>2. \E i \in By(query[r][2]) :
            /\ answer[r] = embeds[i][1]
            /\ \E j \in By(query[r][2]) : j <= i /\ embeds[j][1] = query[q][2]
      BY <2>1, <2>2, <3>1 DEF EmbedInv, ParentAfterChild
    <3>3. QED
      BY <2>1, <3>1, <3>2
  <2>4. CASE r = z
    <3>1. PICK p \in Plug : query[r] = <<"Parent", p>> /\ Owner[p] = a /\ query[r][2] = p
      <4>1. query[r][1] = "Parent" /\ query[r][2] \in Plug /\ Owner[query[r][2]] = a
        BY <1>1, <2>1, <2>4
      <4>2. query[r] = <<query[r][1], query[r][2]>>
        BY <2>2, CallPair
      <4>3. QED
        BY <4>1, <4>2
    <3>2. PICK j \in By(p) : embeds[j][1] = query[q][2] /\ Settles(p, 1, EmbeddersSince(p, j))
      <4>1. /\ 1 \in DOMAIN inbox[Owner[p]] /\ inbox[Owner[p]][1] = <<"ask", r>>
            /\ q \in since[r] /\ query[q][1] = "Child" /\ answer[q] = p
        BY <1>1, <2>1, <2>2, <2>4, <3>1
      <4>2. QED
        BY <3>1, <4>1 DEF EmbedInv, Ordered
    <3>3. Before(p, 1) = {}
      <4>1. inbox[a] \in Seq(Message)
        BY DEF EmbedInv, Typed
      <4>2. DOMAIN inbox[a] = 1 .. Len(inbox[a]) /\ Len(inbox[a]) \in Nat
        BY ONLY <4>1
      <4>3. \A i \in DOMAIN inbox[a] : ~(i < 1)
        BY ONLY <4>2
      <4>4. QED
        BY <3>1, <4>2, <4>3 DEF Before, InFlight
    <3>4. parentOf[p] \in EmbeddersSince(p, j)
      BY <3>2, <3>3 DEF Settles
    <3>5. PICK i \in By(p) : j <= i /\ embeds[i][1] = parentOf[p] /\ parentOf[p] \in Socket
      BY <3>4 DEF EmbeddersSince
    <3>6. answer'[r] = parentOf[p]
      BY <1>2, <1>3, <1>4, <2>1, <2>4, <3>1, <3>5 DEF OrNull
    <3>7. QED
      BY <2>1, <3>1, <3>2, <3>5, <3>6
  <2>5. QED
    BY <2>3, <2>4
<1>15. QED
  BY <1>10, <1>11, <1>12, <1>13, <1>14 DEF EmbedInv

-----------------------------------------------------------------------------
(* The actions that read none *)

LEMMA ResumesKeepsInv ==
  ASSUME EmbedInv, NEW a \in Proc, NEW said \in Plain, waiting[a] # Nothing, Resumes(a, said)
  PROVE  EmbedInv'
<1>1. /\ waiting[a] \in Query /\ query[waiting[a]] \in Calls
      /\ query[waiting[a]][1] \in {"Extents", "State"}
  BY DEF EmbedInv, Typed, EmbeddingTypeOK, Told
<1>2. /\ answer' = [answer EXCEPT ![waiting[a]] = said]
      /\ waiting' = [waiting EXCEPT ![a] = Nothing]
      /\ UNCHANGED <<embedded, parentOf, asksSocket, asksPlug, embeds, inbox, alive,
                     query, since, called, heard>>
  BY DEF Resumes, links, asking
<1>3. said # Nothing
  BY EmbeddingAssumption
<1>4. Typed'
  BY <1>1, <1>2 DEF EmbedInv, Typed, EmbeddingTypeOK
<1>5. \A q \in Query : query[q][1] \in {"Child", "Parent"} => answer'[q] = answer[q]
  BY <1>1, <1>2 DEF EmbedInv, Typed, EmbeddingTypeOK
<1>6. ChildrenStand
  BY <1>2, <1>5 DEF ChildrenStand
<1>7. Addressed' /\ Current' /\ Ordered'
  BY <1>2, <1>6, NothingRead
<1>8. Told'
  <2>1. \A q \in Query : answer[q] # Nothing => answer'[q] # Nothing
    BY <1>2, <1>3 DEF EmbedInv, Typed, EmbeddingTypeOK
  <2>2. \A q \in Query : answer'[q] # Nothing => answer[q] # Nothing \/ q = waiting[a]
    BY <1>2 DEF EmbedInv, Typed, EmbeddingTypeOK
  <2>3. \A q \in Query : answer'[q] # Nothing => query'[q] \in Calls
    BY <1>1, <1>2, <2>2 DEF EmbedInv, Told
  <2>4. \A r \in Query : \A q \in since'[r] : answer'[q] # Nothing
    BY <1>2, <2>1 DEF EmbedInv, Typed, Told
  <2>5. \A b \in Proc : waiting'[b] # Nothing => waiting'[b] = waiting[b]
    BY <1>2 DEF EmbedInv, Typed, EmbeddingTypeOK
  <2>6. \A b \in Proc : waiting'[b] # Nothing =>
          query'[waiting'[b]] \in Calls /\ query'[waiting'[b]][1] \in {"Extents", "State"}
    BY <1>2, <2>5 DEF EmbedInv, Told
  <2>7. ASSUME NEW b \in Proc, NEW i \in DOMAIN inbox'[b],
               inbox'[b][i][1] = "ask", query'[inbox'[b][i][2]][1] = "Child"
        PROVE  /\ answer'[inbox'[b][i][2]] = Nothing
               /\ \A j \in DOMAIN inbox'[b] : inbox'[b][j] = inbox'[b][i] => j = i
    <3>1. inbox' = inbox /\ query' = query /\ inbox[b] \in Seq(Message)
      BY <1>2 DEF EmbedInv, Typed
    <3>2. inbox[b][i][2] \in Query
      BY <2>7, <3>1, AskMessage
    <3>3. QED
      BY <1>5, <2>7, <3>1, <3>2 DEF EmbedInv, Told
  <2>8. QED
    BY <2>3, <2>4, <2>6, <2>7 DEF Told
<1>9. Hooked' /\ AbortedByLonePlug'
  BY <1>2 DEF EmbedInv, Hooked, AbortedByLonePlug
<1>10. ChildrenGiven' /\ ParentAfterChild'
  BY <1>2, <1>5, <1>6, GivenStands, ParentsStand
<1>11. QED
  BY <1>4, <1>7, <1>8, <1>9, <1>10 DEF EmbedInv

LEMMA WaitsEnd ==
  ASSUME EmbedInv, NEW a \in Proc, Resume(a) \/ ShortTimeout(a) \/ LongTimeout(a)
  PROVE  EmbedInv'
<1>1. \E said \in Plain : waiting[a] # Nothing /\ Resumes(a, said)
  BY EmbeddingAssumption, ZenonT(40)
  DEF Resume, ShortTimeout, LongTimeout, Without, Plain, EmbedInv, Typed, EmbeddingTypeOK
<1>2. QED
  BY <1>1, ResumesKeepsInv

(* The class that asks has a plug with a parent, and the one that the      *)
(* query is about has none.                                                *)
LEMMA AbortKeepsInv ==
  ASSUME EmbedInv, NEW a \in Proc, Abort(a)
  PROVE  EmbedInv'
<1> DEFINE sent == {inbox[a][i] : i \in DOMAIN inbox[a]}
<1>1. /\ Asked(a) /\ Of(a)[1] = "Extents" /\ a \in asksSocket /\ Other(a) = Nothing
      /\ alive' = alive \ {a} /\ inbox' = [inbox EXCEPT ![a] = <<>>]
      /\ answer' = [q \in Query |-> IF <<"ask", q>> \in sent THEN "no answer" ELSE answer[q]]
      /\ heard' = heard \cup {q \in Query : <<"call", q>> \in sent}
      /\ UNCHANGED <<embedded, parentOf, asksSocket, asksPlug, embeds, waiting, query, since, called>>
  BY DEF Abort, Lost, links, asking
<1>2. inbox \in [Proc -> Seq(Message)] /\ "no answer" # Nothing
  BY EmbeddingAssumption DEF EmbedInv, Typed, Plain
<1>3. ASSUME NEW q \in Query, answer'[q] # answer[q]
      PROVE  /\ answer'[q] = "no answer" /\ query[q] \in Calls /\ Owner[query[q][2]] = a
             /\ query[q][1] = "Child" => answer[q] = Nothing
  <2>1. PICK i \in DOMAIN inbox[a] : inbox[a][i] = <<"ask", q>>
    BY <1>1, <1>3
  <2>2. inbox[a][i][1] = "ask" /\ inbox[a][i][2] = q
    BY <2>1
  <2>3. query[q] \in Calls /\ Owner[query[q][2]] = a
    BY <2>2 DEF EmbedInv, Addressed
  <2>4. query[q][1] = "Child" => answer[q] = Nothing
    BY <2>2 DEF EmbedInv, Told
  <2>5. QED
    BY <1>1, <1>3, <2>3, <2>4
<1> HIDE DEF sent
<1>4. ChildrenStand
  BY <1>1, <1>3 DEF ChildrenStand
<1>5. /\ \A b \in Proc : IF b = a THEN inbox'[b] = <<>> ELSE inbox'[b] = inbox[b]
      /\ DOMAIN inbox'[a] = {}
  <2>1. inbox'[a] = <<>> /\ \A b \in Proc \ {a} : inbox'[b] = inbox[b]
    BY <1>1, <1>2
  <2>2. DOMAIN <<>> = {}
    OBVIOUS
  <2>3. QED
    BY <2>1, <2>2
<1>6. Addressed' /\ Current' /\ Ordered'
  BY <1>1, <1>4, <1>5, NothingRead
<1>7. Typed'
  <2>1. inbox' \in [Proc -> Seq(Message)]
    <3>1. <<>> \in Seq(Message)
      OBVIOUS
    <3>2. QED
      BY <1>1, <1>2, <3>1
  <2>2. answer' \in [Query -> Plain \cup Socket \cup Plug \cup {Nothing}]
    BY <1>1 DEF EmbedInv, Typed, EmbeddingTypeOK, Plain
  <2>3. heard' \subseteq Query
    BY <1>1 DEF EmbedInv, Typed, EmbeddingTypeOK
  <2>4. QED
    BY <1>1, <2>1, <2>2, <2>3 DEF EmbedInv, Typed, EmbeddingTypeOK
<1>8. Told'
  <2>1. \A q \in Query : answer'[q] # Nothing => query'[q] \in Calls
    BY <1>1, <1>3 DEF EmbedInv, Told
  <2>2. \A r \in Query : \A q \in since'[r] : answer'[q] # Nothing
    BY <1>1, <1>2, <1>3, ZenonT(40) DEF EmbedInv, Typed, Told
  <2>3. ASSUME NEW b \in Proc, NEW i \in DOMAIN inbox'[b],
               inbox'[b][i][1] = "ask", query'[inbox'[b][i][2]][1] = "Child"
        PROVE  /\ answer'[inbox'[b][i][2]] = Nothing
               /\ \A j \in DOMAIN inbox'[b] : inbox'[b][j] = inbox'[b][i] => j = i
    <3>1. b # a /\ inbox'[b] = inbox[b] /\ query' = query
      BY <1>1, <1>5, <2>3
    <3>2. inbox[b] \in Seq(Message)
      BY <1>2
    <3>3. inbox[b][i][2] \in Query
      BY <2>3, <3>1, <3>2, AskMessage
    <3>4. Owner[query[inbox[b][i][2]][2]] = b
      BY <2>3, <3>1 DEF EmbedInv, Addressed
    <3>5. answer'[inbox[b][i][2]] = answer[inbox[b][i][2]]
      BY <1>3, <3>1, <3>3, <3>4
    <3>6. QED
      BY <2>3, <3>1, <3>5 DEF EmbedInv, Told
  <2>4. \A b \in Proc : waiting'[b] # Nothing =>
          query'[waiting'[b]] \in Calls /\ query'[waiting'[b]][1] \in {"Extents", "State"}
    BY <1>1 DEF EmbedInv, Told
  <2>5. QED
    BY <2>1, <2>2, <2>3, <2>4 DEF Told
<1>9. Hooked'
  BY <1>1 DEF EmbedInv, Hooked
<1>10. AbortedByLonePlug'
  <2>1. /\ Of(a)[2] \in Plug /\ Owner[Of(a)[2]] = a /\ parentOf[Of(a)[2]] = Nothing
    BY <1>1, FirstQuery DEF Other
  <2>2. PICK one \in Plug : Owner[one] = a /\ parentOf[one] # Nothing
    BY <1>1 DEF EmbedInv, Hooked
  <2>3. SUFFICES ASSUME NEW b \in Proc \ alive'
                 PROVE  \E x, other \in Plug :
                          /\ Owner[x] = b /\ Owner[other] = b
                          /\ parentOf'[x] = Nothing /\ parentOf'[other] # Nothing
    BY DEF AbortedByLonePlug
  <2>4. CASE b = a
    <3>1. Of(a)[2] \in Plug /\ parentOf'[Of(a)[2]] = Nothing /\ Owner[Of(a)[2]] = b
      BY <1>1, <2>1, <2>4
    <3>2. one \in Plug /\ parentOf'[one] # Nothing /\ Owner[one] = b
      BY <1>1, <2>2, <2>4
    <3>3. QED
      BY <3>1, <3>2
  <2>5. CASE b # a
    <3>1. b \in Proc \ alive
      BY <1>1, <2>5
    <3>2. \E x, other \in Plug :
            /\ Owner[x] = b /\ Owner[other] = b
            /\ parentOf[x] = Nothing /\ parentOf[other] # Nothing
      BY <3>1 DEF EmbedInv, AbortedByLonePlug
    <3>3. parentOf' = parentOf
      BY <1>1
    <3>4. QED
      BY <3>2, <3>3
  <2>6. QED
    BY <2>4, <2>5
<1>11. ChildrenGiven' /\ ParentAfterChild'
  <2>1. \A q \in Query : answer'[q] \in {answer[q], "no answer"}
    BY <1>3
  <2>2. QED
    BY <1>1, <1>4, <2>1, GivenStands, ParentsStand
<1>12. QED
  BY <1>6, <1>7, <1>8, <1>9, <1>10, <1>11 DEF EmbedInv

\* The last embedder embedded after any embedding of the plug.
LEMMA LastIsSince ==
  ASSUME NEW p \in Plug, NEW j \in By(p)
  PROVE  LastEmbedder(p) \subseteq EmbeddersSince(p, j)
BY DEF LastEmbedder, EmbeddersSince

LEMMA EmbedKeepsInv ==
  ASSUME EmbedInv, NEW s \in Socket, NEW p \in Plug, Embed(s, p)
  PROVE  EmbedInv'
<1> DEFINE o == Owner[p]
<1> DEFINE k == Len(embeds) + 1
<1>1. /\ embedded' = [embedded EXCEPT ![s] = p]
      /\ inbox' = Sent(inbox, o, <<"Embedded", s, p>>)
      /\ asksPlug' = asksPlug \cup {Owner[s]} /\ embeds' = Append(embeds, <<s, p>>)
      /\ UNCHANGED <<parentOf, asksSocket, waiting, alive, query, since, called, heard, answer>>
  BY DEF Embed, asking
<1>2. /\ o \in Proc /\ inbox \in [Proc -> Seq(Message)] /\ <<"Embedded", s, p>> \in Message
      /\ embeds \in Seq(Socket \X Plug) /\ <<s, p>> \in Socket \X Plug /\ Owner[s] \in Proc
  BY PlugOwner, EmbeddingAssumption DEF EmbedInv, Typed, Message
<1>3. /\ embeds' \in Seq(Socket \X Plug) /\ Len(embeds) \in Nat /\ k \in Nat
      /\ DOMAIN embeds = 1 .. Len(embeds) /\ DOMAIN embeds' = 1 .. k
      /\ embeds'[k] = <<s, p>> /\ \A i \in DOMAIN embeds : embeds'[i] = embeds[i]
  BY <1>1, <1>2, OneMore
<1>4. /\ Append(inbox[o], <<"Embedded", s, p>>) \in Seq(Message)
      /\ Len(inbox[o]) \in Nat /\ DOMAIN inbox[o] = 1 .. Len(inbox[o])
      /\ Len(Append(inbox[o], <<"Embedded", s, p>>)) = Len(inbox[o]) + 1
      /\ DOMAIN Append(inbox[o], <<"Embedded", s, p>>) = 1 .. Len(inbox[o]) + 1
      /\ Append(inbox[o], <<"Embedded", s, p>>)[Len(inbox[o]) + 1] = <<"Embedded", s, p>>
      /\ \A i \in DOMAIN inbox[o] : Append(inbox[o], <<"Embedded", s, p>>)[i] = inbox[o][i]
  BY <1>2, OneMore
<1> HIDE DEF o, k
<1>5. /\ inbox' \in [Proc -> Seq(Message)]
      /\ \A b \in Proc : inbox'[b] =
           IF b = o /\ o \in alive THEN Append(inbox[o], <<"Embedded", s, p>>) ELSE inbox[b]
  BY <1>1, <1>2, <1>4 DEF Sent
<1>6. /\ \A x \in Plug : \A i \in By(x) : i \in By(x)' /\ i \in Nat /\ embeds'[i] = embeds[i]
      /\ k \in By(p)' /\ \A i \in By(p)' : i <= k
      /\ \A x \in Plug \ {p} : By(x)' = By(x)
  <2>1. \A x \in Plug : By(x) = {i \in DOMAIN embeds : embeds[i][2] = x}
                        /\ By(x)' = {i \in DOMAIN embeds' : embeds'[i][2] = x}
    BY DEF By
  <2>2. embeds'[k][1] = s /\ embeds'[k][2] = p
    BY <1>3
  <2>3. DOMAIN embeds' = DOMAIN embeds \cup {k} /\ \A i \in DOMAIN embeds' : i \in Nat /\ i <= k
    BY <1>3 DEF k
  <2>4. /\ \A i \in DOMAIN embeds : i \in DOMAIN embeds' /\ embeds'[i] = embeds[i]
        /\ \A i \in DOMAIN embeds' : i # k => i \in DOMAIN embeds
        /\ k \in DOMAIN embeds'
    BY <1>3, <2>3
  <2>5. \A x \in Plug : \A i \in By(x) : i \in By(x)' /\ i \in Nat /\ embeds'[i] = embeds[i]
    BY ONLY <2>1, <2>3, <2>4
  <2>6. k \in By(p)' /\ \A i \in By(p)' : i <= k
    BY <2>1, <2>2, <2>3
  <2>7. ASSUME NEW x \in Plug \ {p} PROVE By(x)' = By(x)
    <3>1. \A i \in By(x)' : i \in By(x)
      BY <2>1, <2>2, <2>4
    <3>2. \A i \in By(x) : i \in By(x)'
      BY <2>5
    <3>3. QED
      BY <3>1, <3>2, <2>1
  <2>8. QED
    BY <2>5, <2>6, <2>7
<1>7. Typed'
  <2>1. embedded' \in [Socket -> Plug \cup {Nothing}]
    BY <1>1 DEF EmbedInv, Typed, EmbeddingTypeOK
  <2>2. QED
    BY <1>1, <1>2, <1>3, <1>5, <2>1 DEF EmbedInv, Typed, EmbeddingTypeOK
\* What is at a place in a queue was there, or is the new message.
<1>8. ASSUME NEW b \in Proc, NEW i \in DOMAIN inbox'[b]
      PROVE  \/ i \in DOMAIN inbox[b] /\ inbox'[b][i] = inbox[b][i]
             \/ b = o /\ inbox'[b][i] = <<"Embedded", s, p>> /\ i = Len(inbox[o]) + 1
  <2>1. CASE b = o /\ o \in alive
    <3>1. inbox'[b] = Append(inbox[o], <<"Embedded", s, p>>)
      BY <1>2, <1>5, <2>1
    <3>2. i \in 1 .. Len(inbox[o]) + 1
      BY <1>4, <3>1
    <3>3. i = Len(inbox[o]) + 1 \/ i \in DOMAIN inbox[o]
      BY <1>4, <3>2
    <3>4. QED
      BY <1>4, <2>1, <3>1, <3>3
  <2>2. CASE ~(b = o /\ o \in alive)
    <3>1. inbox'[b] = inbox[b]
      BY <1>5, <2>2
    <3>2. QED
      BY <3>1
  <2>3. QED
    BY <2>1, <2>2
<1>9. \A b \in Proc : \A i \in DOMAIN inbox[b] :
          i \in DOMAIN inbox'[b] /\ inbox'[b][i] = inbox[b][i]
  <2> TAKE b \in Proc
  <2>1. CASE b = o /\ o \in alive
    <3>1. inbox'[b] = Append(inbox[o], <<"Embedded", s, p>>)
      BY <1>2, <1>5, <2>1
    <3>2. \A i \in DOMAIN inbox[o] : i \in 1 .. Len(inbox[o]) + 1
      BY <1>4
    <3>3. QED
      BY <1>4, <2>1, <3>1, <3>2
  <2>2. CASE ~(b = o /\ o \in alive)
    <3>1. inbox'[b] = inbox[b]
      BY <1>5, <2>2
    <3>2. QED
      BY <3>1
  <2>3. QED
    BY <2>1, <2>2
<1>10. \A b \in Proc : \A i \in DOMAIN inbox'[b] : inbox'[b][i][1] = "ask" =>
        i \in DOMAIN inbox[b] /\ inbox'[b][i] = inbox[b][i]
  <2>1. <<"Embedded", s, p>>[1] # "ask"
    OBVIOUS
  <2>2. QED
    BY <1>8, <2>1
<1>11. Addressed'
  <2>1. <<"Embedded", s, p>>[3] = p
    OBVIOUS
  <2>2. \A b \in Proc : \A i \in DOMAIN inbox'[b] :
          inbox'[b][i][1] = "Embedded" => Owner[inbox'[b][i][3]] = b
    BY <1>8, <2>1 DEF EmbedInv, Addressed, o
  <2>3. QED
    BY <1>1, <1>10, <2>2 DEF EmbedInv, Addressed
<1>12. Hooked' /\ AbortedByLonePlug'
  BY <1>1 DEF EmbedInv, Hooked, AbortedByLonePlug
<1>13. Told'
  <2>1. ASSUME NEW b \in Proc, NEW i \in DOMAIN inbox'[b],
               inbox'[b][i][1] = "ask", query'[inbox'[b][i][2]][1] = "Child"
        PROVE  /\ answer'[inbox'[b][i][2]] = Nothing
               /\ \A j \in DOMAIN inbox'[b] : inbox'[b][j] = inbox'[b][i] => j = i
    <3>1. i \in DOMAIN inbox[b] /\ inbox'[b][i] = inbox[b][i]
      BY <1>10, <2>1
    <3>2. \A j \in DOMAIN inbox'[b] : inbox'[b][j] = inbox'[b][i] =>
            j \in DOMAIN inbox[b] /\ inbox[b][j] = inbox[b][i]
      BY <1>10, <2>1, <3>1
    <3>3. /\ answer[inbox[b][i][2]] = Nothing
          /\ \A j \in DOMAIN inbox[b] : inbox[b][j] = inbox[b][i] => j = i
      BY <1>1, <2>1, <3>1 DEF EmbedInv, Told
    <3>4. QED
      BY <1>1, <3>1, <3>2, <3>3
  <2>2. QED
    BY <1>1, <2>1 DEF EmbedInv, Told
<1>14. ChildrenGiven'
  <2>1. \A x \in Socket, y \in Plug : Gave(x, y) => Gave(x, y)'
    BY <1>6 DEF Gave
  <2>2. embeds'[k][1] = s
    BY <1>3
  <2>3. Gave(s, p)'
    BY <1>6, <2>2 DEF Gave
  <2>4. \A x \in Socket : embedded'[x] # Nothing => Gave(x, embedded[x])'
    BY <1>1, <2>1, <2>3 DEF EmbedInv, Typed, EmbeddingTypeOK, ChildrenGiven
  <2>5. ASSUME NEW q \in Query, query[q] \in Calls, query[q][1] = "Child", answer[q] \in Plug
        PROVE  Gave(query[q][2], answer[q])'
    <3>1. query[q][2] \in Socket
      BY <2>5 DEF Calls, Takes
    <3>2. PICK x \in Socket, y \in Plug : x = query[q][2] /\ y = answer[q]
      BY <2>5, <3>1
    <3>3. Gave(x, y)'
      BY <2>1, <2>5, <3>2 DEF EmbedInv, ChildrenGiven
    <3>4. QED
      BY <1>1, <3>2, <3>3
  <2>6. QED
    BY <1>1, <2>4, <2>5 DEF ChildrenGiven
\* What stands before the n-th message about another plug, or before the new one.
<1>15. ASSUME NEW x \in Plug, NEW n \in Nat, x # p \/ n <= Len(inbox[o]) + 1
       PROVE  /\ Before(x, n)' = Before(x, n)
              /\ \A i \in Before(x, n) : inbox'[Owner[x]][i] = inbox[Owner[x]][i]
  <2>1. Owner[x] \in Proc
    BY PlugOwner
  <2>2. \A i \in DOMAIN inbox[Owner[x]] :
          i \in DOMAIN inbox'[Owner[x]] /\ inbox'[Owner[x]][i] = inbox[Owner[x]][i]
    BY <1>9, <2>1
  <2>3. ASSUME NEW i \in Before(x, n)' PROVE i \in Before(x, n)
    <3>1. /\ i \in DOMAIN inbox'[Owner[x]] /\ i < n
          /\ inbox'[Owner[x]][i][1] = "Embedded" /\ inbox'[Owner[x]][i][3] = x
      BY DEF Before, InFlight
    <3>2. CASE i \in DOMAIN inbox[Owner[x]] /\ inbox'[Owner[x]][i] = inbox[Owner[x]][i]
      BY <3>1, <3>2 DEF Before, InFlight
    <3>3. CASE inbox'[Owner[x]][i] = <<"Embedded", s, p>> /\ i = Len(inbox[o]) + 1
      <4>1. x = p
        BY <3>1, <3>3
      <4>2. QED
        BY <1>4, <1>15, <3>1, <3>3, <4>1
    <3>4. QED
      BY <1>8, <2>1, <3>1, <3>2, <3>3
  <2>4. \A i \in Before(x, n) : i \in Before(x, n)'
    BY <2>2 DEF Before, InFlight
  <2>5. QED
    BY <2>2, <2>3, <2>4 DEF Before, InFlight
<1>16. Current'
  <2> SUFFICES ASSUME NEW x \in Plug, Owner[x] \in alive
               PROVE  IF By(x)' = {} THEN InFlight(x)' = {} /\ parentOf[x] = Nothing
                      ELSE \A n \in Nat : n > Len(inbox'[Owner[x]]) =>
                             Settles(x, n, LastEmbedder(x))'
    BY <1>1 DEF Current
  <2>1. Owner[x] \in Proc /\ inbox[Owner[x]] \in Seq(Message) /\ inbox'[Owner[x]] \in Seq(Message)
    BY <1>2, <1>5, PlugOwner
  <2>2. Len(inbox[Owner[x]]) \in Nat /\ Len(inbox[Owner[x]]) <= Len(inbox'[Owner[x]])
    BY <1>4, <1>5, <2>1, SMTT(30)
  <2>3. CASE x = p
    <3>1. SUFFICES ASSUME NEW n \in Nat, n > Len(inbox'[Owner[x]])
                   PROVE  Settles(x, n, LastEmbedder(x))'
      BY <1>6, <2>3
    <3>2. inbox'[o] = Append(inbox[o], <<"Embedded", s, p>>)
      BY <1>5, <2>1, <2>3 DEF o
    <3>3. Len(inbox[o]) + 1 \in Before(x, n)'
      BY <1>4, <2>3, <3>1, <3>2 DEF Before, InFlight, o
    <3>4. s \in LastEmbedder(x)'
      <4>1. embeds'[k][1] = s
        BY <1>3
      <4>2. QED
        BY <1>6, <2>3, <4>1 DEF LastEmbedder
    <3>5. ASSUME NEW i \in Before(x, n)', \A j \in Before(x, n)' : j <= i
          PROVE  inbox'[Owner[x]][i][2] \in LastEmbedder(x)'
      <4>1. i \in 1 .. Len(inbox[o]) + 1
        BY <1>4, <2>3, <3>2 DEF Before, InFlight, o
      <4>2. i = Len(inbox[o]) + 1
        BY <1>4, <3>3, <3>5, <4>1
      <4>3. inbox'[Owner[x]][i][2] = s
        BY <1>4, <2>3, <3>2, <4>2, SMTT(30) DEF o
      <4>4. QED
        BY <3>4, <4>3
    <3>6. QED
      BY <3>3, <3>5 DEF Settles
  <2>4. CASE x # p
    <3>1. By(x)' = By(x) /\ LastEmbedder(x)' = LastEmbedder(x)
      BY <1>6, <2>4 DEF LastEmbedder
    <3>2. InFlight(x)' = InFlight(x)
      <4>1. ASSUME NEW i \in InFlight(x)' PROVE i \in InFlight(x)
        <5>1. /\ i \in DOMAIN inbox'[Owner[x]]
              /\ inbox'[Owner[x]][i][1] = "Embedded" /\ inbox'[Owner[x]][i][3] = x
          BY DEF InFlight
        <5>2. inbox'[Owner[x]][i] # <<"Embedded", s, p>>
          BY <2>4, <5>1
        <5>3. QED
          BY <1>8, <2>1, <5>1, <5>2 DEF InFlight
      <4>2. ASSUME NEW i \in InFlight(x) PROVE i \in InFlight(x)'
        BY <1>9, <2>1 DEF InFlight
      <4>3. QED
        BY <4>1, <4>2 DEF InFlight
    <3>3. \A n \in Nat : n > Len(inbox'[Owner[x]]) =>
            n > Len(inbox[Owner[x]]) /\ Len(inbox'[Owner[x]]) \in Nat
      BY <2>1, <2>2
    <3>4. ASSUME NEW n \in Nat, Settles(x, n, LastEmbedder(x))
          PROVE  Settles(x, n, LastEmbedder(x))'
      BY <1>1, <1>15, <2>4, <3>1, <3>4 DEF Settles
    <3>5. QED
      BY <3>1, <3>2, <3>3, <3>4 DEF EmbedInv, Current
  <2>5. QED
    BY <2>3, <2>4
<1>17. Ordered'
  <2> SUFFICES ASSUME NEW x \in Plug, NEW n \in DOMAIN inbox'[Owner[x]],
                      NEW r \in Query, NEW q \in since'[r],
                      inbox'[Owner[x]][n] = <<"ask", r>>, query'[r] = <<"Parent", x>>,
                      query'[q][1] = "Child", answer'[q] = x
               PROVE  \E j \in By(x)' : /\ embeds'[j][1] = query'[q][2]
                                        /\ Settles(x, n, EmbeddersSince(x, j))'
    BY DEF Ordered
  <2>1. Owner[x] \in Proc /\ inbox[Owner[x]] \in Seq(Message)
    BY <1>2, PlugOwner
  <2>2. <<"ask", r>>[1] = "ask"
    OBVIOUS
  <2>3. n \in DOMAIN inbox[Owner[x]] /\ inbox[Owner[x]][n] = <<"ask", r>>
    BY <1>10, <2>1, <2>2
  <2>4. n \in Nat /\ n <= Len(inbox[Owner[x]]) /\ Len(inbox[Owner[x]]) \in Nat
    BY <2>1, <2>3
  <2>5. PICK j \in By(x) : embeds[j][1] = query[q][2] /\ Settles(x, n, EmbeddersSince(x, j))
    <3>1. /\ q \in since[r] /\ query[r] = <<"Parent", x>>
          /\ query[q][1] = "Child" /\ answer[q] = x
      BY <1>1
    <3>2. QED
      BY <2>3, <3>1 DEF EmbedInv, Ordered
  <2>6. EmbeddersSince(x, j) \subseteq EmbeddersSince(x, j)'
    BY <1>6 DEF EmbeddersSince
  <2>7. x # p \/ n <= Len(inbox[o]) + 1
    BY <2>4 DEF o
  <2>8. Settles(x, n, EmbeddersSince(x, j))'
    <3>1. /\ Before(x, n)' = Before(x, n)
          /\ \A i \in Before(x, n) : inbox'[Owner[x]][i] = inbox[Owner[x]][i]
      BY <1>15, <2>4, <2>7
    <3>2. parentOf' = parentOf
      BY <1>1
    <3>3. QED
      BY ONLY <2>5, <2>6, <3>1, <3>2 DEF Settles
  <2>9. QED
    BY <1>1, <1>6, <2>5, <2>8
<1>18. ParentAfterChild'
  <2> SUFFICES ASSUME NEW q \in Query, NEW r \in Query,
                      query'[r] # <<>>, query'[r][1] = "Parent",
                      answer'[r] \notin {Nothing, "no answer"},
                      q \in since'[r], query'[q][1] = "Child", answer'[q] = query'[r][2]
               PROVE  \E i \in By(query[r][2])' :
                        /\ answer'[r] = embeds'[i][1]
                        /\ \E j \in By(query[r][2])' : j <= i /\ embeds'[j][1] = query'[q][2]
    BY DEF ParentAfterChild
  <2>1. query' = query /\ answer' = answer /\ since' = since
    BY <1>1
  <2>2. PICK i \in By(query[r][2]) :
          /\ answer[r] = embeds[i][1]
          /\ \E j \in By(query[r][2]) : j <= i /\ embeds[j][1] = query[q][2]
    BY <2>1 DEF EmbedInv, ParentAfterChild
  <2>3. query[r][2] \in Plug
    BY <2>1 DEF EmbedInv, Typed, Calls, Takes
  <2>4. PICK x \in Plug : x = query[r][2]
    BY <2>3
  <2>5. \A j \in By(x) : j \in By(x)' /\ embeds'[j] = embeds[j]
    BY <1>6
  <2>6. \E l \in By(x)' :
          /\ answer'[r] = embeds'[l][1]
          /\ \E j \in By(x)' : j <= l /\ embeds'[j][1] = query'[q][2]
    BY <2>1, <2>2, <2>4, <2>5
  <2>7. QED
    BY <2>1, <2>4, <2>6 DEF By
<1>19. QED
  BY <1>7, <1>11, <1>12, <1>13, <1>14, <1>16, <1>17, <1>18 DEF EmbedInv

LEMMA AskKeepsInv ==
  ASSUME EmbedInv, NEW q \in Query, NEW m \in Member, NEW o \in Socket \cup Plug, Ask(q, m, o)
  PROVE  EmbedInv'
<1> DEFINE b0 == Owner[o]
<1>1. /\ query[q] = <<>> /\ o \in Takes(m)
      /\ query' = [query EXCEPT ![q] = <<m, o>>] /\ since' = [since EXCEPT ![q] = Answered]
      /\ \/ b0 \in alive /\ inbox' = Sent(inbox, b0, <<"ask", q>>) /\ answer' = answer
         \/ inbox' = inbox /\ answer' = [answer EXCEPT ![q] = "no answer"]
      /\ UNCHANGED <<embedded, parentOf, asksSocket, asksPlug, embeds, waiting, alive, called, heard>>
  BY DEF Ask, links
<1>2. /\ b0 \in Proc /\ inbox \in [Proc -> Seq(Message)] /\ <<"ask", q>> \in Message
      /\ query \in [Query -> Calls \cup {<<>>}] /\ since \in [Query -> SUBSET Query]
      /\ answer \in [Query -> Plain \cup Socket \cup Plug \cup {Nothing}]
      /\ "no answer" \in Plain /\ Plain \cap (Socket \cup Plug) = {} /\ Nothing \notin Plain \cup Plug
  BY EmbeddingAssumption DEF EmbedInv, Typed, EmbeddingTypeOK, Message, Plain
<1>3. /\ Append(inbox[b0], <<"ask", q>>) \in Seq(Message)
      /\ Len(inbox[b0]) \in Nat /\ DOMAIN inbox[b0] = 1 .. Len(inbox[b0])
      /\ Len(Append(inbox[b0], <<"ask", q>>)) = Len(inbox[b0]) + 1
      /\ DOMAIN Append(inbox[b0], <<"ask", q>>) = 1 .. Len(inbox[b0]) + 1
      /\ Append(inbox[b0], <<"ask", q>>)[Len(inbox[b0]) + 1] = <<"ask", q>>
      /\ \A i \in DOMAIN inbox[b0] : Append(inbox[b0], <<"ask", q>>)[i] = inbox[b0][i]
  <2>1. inbox[b0] \in Seq(Message) /\ <<"ask", q>> \in Message
    BY <1>2
  <2> HIDE DEF b0
  <2>2. QED
    BY ONLY <2>1, OneMore
<1>4. /\ query'[q] = <<m, o>> /\ <<m, o>> \in Calls /\ <<m, o>>[1] = m /\ <<m, o>>[2] = o
      /\ \A r \in Query : query[r] \in Calls => r # q /\ query'[r] = query[r]
      /\ \A r \in Query : r # q => query'[r] = query[r]
  BY <1>1, <1>2, NotMade DEF Calls
<1>5. /\ answer[q] = Nothing /\ answer'[q] \in {Nothing, "no answer"}
      /\ \A r \in Query : r # q => answer'[r] = answer[r]
      /\ \A r \in Query : answer[r] # Nothing => r # q /\ query[r] \in Calls
  BY <1>1, <1>2, NotMade DEF EmbedInv, Told
<1>6. \A r \in Query : \A w \in since'[r] : w \in Query /\ answer[w] # Nothing
  BY <1>1, <1>2 DEF EmbedInv, Told, Answered
<1>7. /\ inbox' \in [Proc -> Seq(Message)]
      /\ \A b \in Proc :
           \/ inbox'[b] = inbox[b]
           \/ /\ b = b0 /\ b0 \in alive /\ answer' = answer
              /\ inbox'[b] = Append(inbox[b0], <<"ask", q>>)
  BY <1>1, <1>2, <1>3 DEF Sent
<1> HIDE DEF b0
\* What is at a place in a queue was there, or is the new message.
<1>8. ASSUME NEW b \in Proc, NEW i \in DOMAIN inbox'[b]
      PROVE  \/ i \in DOMAIN inbox[b] /\ inbox'[b][i] = inbox[b][i]
             \/ /\ b = b0 /\ b0 \in alive /\ answer' = answer
                /\ inbox'[b][i] = <<"ask", q>> /\ i = Len(inbox[b0]) + 1
  <2>1. CASE inbox'[b] = inbox[b]
    BY <2>1
  <2>2. CASE /\ b = b0 /\ b0 \in alive /\ answer' = answer
             /\ inbox'[b] = Append(inbox[b0], <<"ask", q>>)
    <3>1. i \in 1 .. Len(inbox[b0]) + 1
      BY <1>3, <2>2
    <3>2. i = Len(inbox[b0]) + 1 \/ i \in DOMAIN inbox[b0]
      BY <1>3, <3>1
    <3>3. QED
      BY <1>3, <2>2, <3>2
  <2>3. QED
    BY <1>7, <2>1, <2>2
<1>9. \A b \in Proc : \A i \in DOMAIN inbox[b] :
        i \in DOMAIN inbox'[b] /\ inbox'[b][i] = inbox[b][i]
  <2> TAKE b \in Proc
  <2>1. CASE inbox'[b] = inbox[b]
    BY <2>1
  <2>2. CASE b = b0 /\ inbox'[b] = Append(inbox[b0], <<"ask", q>>)
    <3>1. \A i \in DOMAIN inbox[b0] : i \in 1 .. Len(inbox[b0]) + 1
      BY <1>3
    <3>2. QED
      BY <1>3, <2>2, <3>1
  <2>3. QED
    BY <1>7, <2>1, <2>2
\* The question is new.
<1>10. \A b \in Proc : \A i \in DOMAIN inbox[b] : inbox[b][i] # <<"ask", q>>
  <2>1. <<"ask", q>>[1] = "ask" /\ <<"ask", q>>[2] = q
    OBVIOUS
  <2>2. QED
    BY <1>4, <2>1 DEF EmbedInv, Addressed
<1>11. Typed'
  <2>1. query' \in [Query -> Calls \cup {<<>>}]
    BY <1>1, <1>2, <1>4
  <2>2. since' \in [Query -> SUBSET Query]
    BY <1>1, <1>2 DEF Answered
  <2>3. answer' \in [Query -> Plain \cup Socket \cup Plug \cup {Nothing}]
    BY <1>1, <1>2
  <2>4. QED
    BY <1>1, <1>7, <2>1, <2>2, <2>3 DEF EmbedInv, Typed, EmbeddingTypeOK
<1>12. Addressed'
  <2> SUFFICES ASSUME NEW b \in Proc, NEW i \in DOMAIN inbox'[b]
               PROVE  /\ inbox'[b][i][1] = "Embedded" => Owner[inbox'[b][i][3]] = b
                      /\ inbox'[b][i][1] = "ask" =>
                           /\ query'[inbox'[b][i][2]] \in Calls
                           /\ Owner[query'[inbox'[b][i][2]][2]] = b
    BY DEF Addressed
  <2>1. CASE i \in DOMAIN inbox[b] /\ inbox'[b][i] = inbox[b][i]
    <3>1. inbox[b] \in Seq(Message) /\ inbox[b][i] \in Message
      <4>1. inbox[b] \in Seq(Message)
        BY <1>2
      <4>2. QED
        BY <2>1, <4>1
    <3>2. inbox[b][i][1] = "ask" => inbox[b][i][2] \in Query
      BY <3>1, AskMessage
    <3>3. QED
      BY <1>4, <2>1, <3>2 DEF EmbedInv, Addressed
  <2>2. CASE b = b0 /\ inbox'[b][i] = <<"ask", q>>
    BY <1>4, <2>2 DEF b0
  <2>3. QED
    BY <1>8, <2>1, <2>2
<1>13. Hooked' /\ AbortedByLonePlug'
  <2>1. UNCHANGED <<parentOf, asksSocket, alive>>
    BY <1>1
  <2>2. QED
    BY <2>1 DEF EmbedInv, Hooked, AbortedByLonePlug
<1>14. Told'
  <2>1. \A r \in Query : answer'[r] # Nothing => query'[r] \in Calls
    BY <1>4, <1>5
  <2>2. \A r \in Query : \A w \in since'[r] : answer'[w] # Nothing
    BY <1>5, <1>6
  <2>3. \A b \in Proc : waiting'[b] # Nothing =>
          query'[waiting'[b]] \in Calls /\ query'[waiting'[b]][1] \in {"Extents", "State"}
    <3>1. waiting' = waiting /\ waiting \in [Proc -> Query \cup {Nothing}]
      BY <1>1 DEF EmbedInv, Typed, EmbeddingTypeOK
    <3>2. \A b \in Proc : waiting[b] # Nothing =>
            /\ waiting[b] \in Query /\ query[waiting[b]] \in Calls
            /\ query[waiting[b]][1] \in {"Extents", "State"}
      BY <3>1 DEF EmbedInv, Told
    <3>3. QED
      BY <1>4, <3>1, <3>2
  <2>4. ASSUME NEW b \in Proc, NEW i \in DOMAIN inbox'[b],
               inbox'[b][i][1] = "ask", query'[inbox'[b][i][2]][1] = "Child"
        PROVE  /\ answer'[inbox'[b][i][2]] = Nothing
               /\ \A j \in DOMAIN inbox'[b] : inbox'[b][j] = inbox'[b][i] => j = i
    <3>1. CASE i \in DOMAIN inbox[b] /\ inbox'[b][i] = inbox[b][i]
      <4>1. inbox[b][i] \in Message
        <5>1. inbox[b] \in Seq(Message)
          BY <1>2
        <5>2. QED
          BY <3>1, <5>1
      <4>2. PICK r \in Query : inbox[b][i] = <<"ask", r>> /\ inbox[b][i][2] = r
        BY <2>4, <3>1, <4>1, AskMessage
      <4>3. query[r] \in Calls
        BY <2>4, <3>1, <4>2 DEF EmbedInv, Addressed
      <4>4. /\ answer[r] = Nothing
            /\ \A j \in DOMAIN inbox[b] : inbox[b][j] = inbox[b][i] => j = i
        BY <1>4, <2>4, <3>1, <4>2, <4>3 DEF EmbedInv, Told
      <4>5. \A j \in DOMAIN inbox'[b] : inbox'[b][j] = inbox'[b][i] => j = i
        BY <1>8, <1>10, <3>1, <4>4
      <4>6. QED
        BY <1>4, <1>5, <3>1, <4>2, <4>3, <4>4, <4>5
    <3>2. CASE /\ b = b0 /\ answer' = answer /\ inbox'[b][i] = <<"ask", q>>
               /\ i = Len(inbox[b0]) + 1
      <4>1. \A j \in DOMAIN inbox'[b] : inbox'[b][j] = inbox'[b][i] => j = i
        BY <1>8, <1>10, <3>2
      <4>2. inbox'[b][i][2] = q
        BY <3>2
      <4>3. QED
        BY <1>5, <3>2, <4>1, <4>2
    <3>3. QED
      BY <1>8, <3>1, <3>2
  <2>5. QED
    BY <2>1, <2>2, <2>3, <2>4 DEF Told
<1>15. ChildrenGiven'
  <2>1. \A x, y : Gave(x, y)' = Gave(x, y)
    BY <1>1 DEF Gave, By
  <2>2. ASSUME NEW r \in Query, query'[r] \in Calls, query'[r][1] = "Child", answer'[r] \in Plug
        PROVE  Gave(query'[r][2], answer'[r])
    <3>1. r # q
      BY <1>2, <1>5, <2>2
    <3>2. query'[r] = query[r] /\ answer'[r] = answer[r]
      BY <1>4, <1>5, <3>1
    <3>3. QED
      BY <2>2, <3>2 DEF EmbedInv, ChildrenGiven
  <2>3. \A s \in Socket : embedded'[s] # Nothing => Gave(s, embedded'[s])
    BY <1>1 DEF EmbedInv, ChildrenGiven
  <2>4. QED
    BY <2>1, <2>2, <2>3 DEF ChildrenGiven
<1>16. ASSUME NEW x \in Plug
       PROVE  /\ InFlight(x)' = InFlight(x)
              /\ \A i \in InFlight(x) : inbox'[Owner[x]][i] = inbox[Owner[x]][i]
  <2>1. Owner[x] \in Proc
    BY PlugOwner
  <2>2. <<"ask", q>>[1] # "Embedded"
    OBVIOUS
  <2>3. \A i \in InFlight(x) : i \in InFlight(x)' /\ inbox'[Owner[x]][i] = inbox[Owner[x]][i]
    BY <1>9, <2>1 DEF InFlight
  <2>4. ASSUME NEW i \in InFlight(x)' PROVE i \in InFlight(x)
    <3>1. i \in DOMAIN inbox'[Owner[x]] /\ inbox'[Owner[x]][i][1] = "Embedded"
      BY DEF InFlight
    <3>2. i \in DOMAIN inbox[Owner[x]] /\ inbox'[Owner[x]][i] = inbox[Owner[x]][i]
      BY <1>8, <2>1, <2>2, <3>1
    <3>3. QED
      BY <3>2 DEF InFlight
  <2>5. QED
    BY <2>3, <2>4
<1>17. ASSUME NEW x \in Plug, NEW n \in Nat, NEW S \in SUBSET Socket, Settles(x, n, S)
       PROVE  Settles(x, n, S)'
  <2>1. Before(x, n)' = Before(x, n) /\ Before(x, n) \subseteq InFlight(x)
    BY <1>16 DEF Before
  <2>2. QED
    BY <1>1, <1>16, <1>17, <2>1 DEF Settles
<1>18. ASSUME NEW x \in Plug
       PROVE  /\ By(x)' = By(x) /\ LastEmbedder(x)' = LastEmbedder(x)
              /\ \A j \in By(x) : EmbeddersSince(x, j)' = EmbeddersSince(x, j)
  BY <1>1 DEF By, LastEmbedder, EmbeddersSince
<1>19. Current'
  <2> SUFFICES ASSUME NEW x \in Plug, Owner[x] \in alive
               PROVE  IF By(x)' = {} THEN InFlight(x)' = {} /\ parentOf[x] = Nothing
                      ELSE \A n \in Nat : n > Len(inbox'[Owner[x]]) =>
                             Settles(x, n, LastEmbedder(x))'
    BY <1>1 DEF Current
  <2>1. Owner[x] \in Proc /\ inbox[Owner[x]] \in Seq(Message) /\ inbox'[Owner[x]] \in Seq(Message)
    BY <1>2, <1>7, PlugOwner
  <2>2. Len(inbox[Owner[x]]) \in Nat /\ Len(inbox'[Owner[x]]) \in Nat
        /\ Len(inbox[Owner[x]]) <= Len(inbox'[Owner[x]])
    BY <1>3, <1>7, <2>1, SMTT(30)
  <2>3. \A n \in Nat : n > Len(inbox'[Owner[x]]) => n > Len(inbox[Owner[x]])
    BY <2>2
  <2>4. PICK S \in SUBSET Socket : S = LastEmbedder(x)
    BY DEF LastEmbedder
  <2>5. ASSUME NEW n \in Nat, Settles(x, n, LastEmbedder(x))
        PROVE  Settles(x, n, LastEmbedder(x))'
    <3>1. Settles(x, n, S)'
      BY <1>17, <2>4, <2>5
    <3>2. QED
      BY <1>18, <2>4, <3>1 DEF Settles
  <2>6. QED
    BY <1>16, <1>18, <2>3, <2>5 DEF EmbedInv, Current
<1>20. Ordered'
  <2> SUFFICES ASSUME NEW x \in Plug, NEW n \in DOMAIN inbox'[Owner[x]],
                      NEW r \in Query, NEW w \in since'[r],
                      inbox'[Owner[x]][n] = <<"ask", r>>, query'[r] = <<"Parent", x>>,
                      query'[w][1] = "Child", answer'[w] = x
               PROVE  \E j \in By(x)' : /\ embeds'[j][1] = query'[w][2]
                                        /\ Settles(x, n, EmbeddersSince(x, j))'
    BY DEF Ordered
  <2>1. Owner[x] \in Proc /\ inbox[Owner[x]] \in Seq(Message) /\ inbox'[Owner[x]] \in Seq(Message)
    BY <1>2, <1>7, PlugOwner
  <2>2. /\ w \in Query /\ query[w] \in Calls /\ query'[w] = query[w] /\ answer[w] = x
    BY <1>4, <1>5, <1>6
  <2>3. n \in Nat
    BY <2>1
  <2>4. SUFFICES \E j \in By(x) : embeds[j][1] = query[w][2] /\ Settles(x, n, EmbeddersSince(x, j))
    <3>1. PICK j \in By(x) : embeds[j][1] = query[w][2] /\ Settles(x, n, EmbeddersSince(x, j))
      BY <2>4
    <3>2. PICK S \in SUBSET Socket : S = EmbeddersSince(x, j)
      BY DEF EmbeddersSince
    <3>3. Settles(x, n, S)'
      BY <1>17, <2>3, <3>1, <3>2
    <3>4. Settles(x, n, EmbeddersSince(x, j))'
      BY <1>18, <3>2, <3>3 DEF Settles
    <3>5. QED
      BY <1>1, <1>18, <2>2, <3>1, <3>4
  <2>5. CASE n \in DOMAIN inbox[Owner[x]] /\ inbox'[Owner[x]][n] = inbox[Owner[x]][n]
    <3>1. <<"ask", r>>[1] = "ask" /\ <<"ask", r>>[2] = r
      OBVIOUS
    <3>2. query[r] \in Calls
      BY <2>1, <2>5, <3>1 DEF EmbedInv, Addressed
    <3>3. r # q /\ query[r] = <<"Parent", x>> /\ since'[r] = since[r]
      BY <1>1, <1>2, <1>4, <3>2
    <3>4. QED
      BY <2>2, <2>5, <3>3 DEF EmbedInv, Ordered
  <2>6. CASE Owner[x] = b0 /\ b0 \in alive /\ n = Len(inbox[b0]) + 1
    <3>1. PICK j \in By(x) : embeds[j][1] = query[w][2]
      BY <2>2 DEF EmbedInv, ChildrenGiven, Gave
    <3>2. n > Len(inbox[Owner[x]])
      BY <1>3, <2>6
    <3>3. Settles(x, n, LastEmbedder(x))
      BY <2>3, <2>6, <3>1, <3>2 DEF EmbedInv, Current
    <3>4. Settles(x, n, EmbeddersSince(x, j))
      BY <3>3, LastIsSince DEF Settles
    <3>5. QED
      BY <3>1, <3>4
  <2>7. QED
    BY <1>8, <2>1, <2>5, <2>6
<1>21. ParentAfterChild'
  <2> SUFFICES ASSUME NEW w \in Query, NEW r \in Query,
                      query'[r] # <<>>, query'[r][1] = "Parent",
                      answer'[r] \notin {Nothing, "no answer"},
                      w \in since'[r], query'[w][1] = "Child", answer'[w] = query'[r][2]
               PROVE  \E i \in By(query[r][2])' :
                        /\ answer'[r] = embeds'[i][1]
                        /\ \E j \in By(query[r][2])' : j <= i /\ embeds'[j][1] = query'[w][2]
    BY DEF ParentAfterChild
  <2>1. r # q /\ query'[r] = query[r] /\ answer'[r] = answer[r] /\ since'[r] = since[r]
    BY <1>1, <1>2, <1>4, <1>5
  <2>2. query'[w] = query[w] /\ answer'[w] = answer[w]
    BY <1>4, <1>5, <1>6
  <2>3. \E i \in By(query[r][2]) :
          /\ answer[r] = embeds[i][1]
          /\ \E j \in By(query[r][2]) : j <= i /\ embeds[j][1] = query[w][2]
    BY <2>1, <2>2, ZenonT(40) DEF EmbedInv, ParentAfterChild
  <2>4. By(query[r][2])' = By(query[r][2]) /\ embeds' = embeds
    BY <1>1, <2>1 DEF By
  <2>5. QED
    BY <2>1, <2>2, <2>3, <2>4
<1>22. QED
  BY <1>11, <1>12, <1>13, <1>14, <1>15, <1>19, <1>20, <1>21 DEF EmbedInv

-----------------------------------------------------------------------------
LEMMA EmbeddingInitially == EmbedInit => EmbedInv
<1> SUFFICES ASSUME EmbedInit PROVE EmbedInv
  OBVIOUS
<1> USE DEF EmbedInit
<1>1. /\ <<>> \in Seq(Message) /\ <<>> \in Seq(Socket \X Plug) /\ DOMAIN <<>> = {}
  OBVIOUS
<1>2. \A a \in Proc : inbox[a] = <<>> /\ DOMAIN inbox[a] = {}
  BY <1>1
<1>3. Typed
  BY <1>1 DEF Typed, EmbeddingTypeOK
<1>4. Addressed /\ Hooked /\ AbortedByLonePlug
  BY <1>2 DEF Addressed, Hooked, AbortedByLonePlug
<1>5. Told
  BY <1>2 DEF Told
<1>6. ChildrenGiven
  BY EmbeddingAssumption DEF ChildrenGiven
<1>7. \A p \in Plug : By(p) = {} /\ InFlight(p) = {}
  BY <1>1, <1>2, PlugOwner DEF By, InFlight
<1>8. Current /\ Ordered
  BY <1>2, <1>7, PlugOwner DEF Current, Ordered
<1>9. ParentAfterChild
  BY DEF ParentAfterChild
<1>10. QED
  BY <1>3, <1>4, <1>5, <1>6, <1>8, <1>9 DEF EmbedInv

LEMMA EmbeddingStutters ==
  ASSUME EmbedInv, UNCHANGED embedVars
  PROVE  EmbedInv'
<1>1. /\ UNCHANGED <<embedded, parentOf, asksSocket, asksPlug, inbox, waiting, alive>>
      /\ UNCHANGED <<query, called, heard, answer, embeds, since>>
  BY DEF embedVars
<1>2. ChildrenStand
  BY <1>1 DEF ChildrenStand
<1>3. Addressed' /\ Current' /\ Ordered'
  BY <1>1, <1>2, NothingRead
<1>4. ChildrenGiven' /\ ParentAfterChild'
  BY <1>1, <1>2, GivenStands, ParentsStand
<1>5. Typed' /\ Hooked' /\ AbortedByLonePlug' /\ Told'
  BY <1>1 DEF EmbedInv, Typed, EmbeddingTypeOK, Hooked, AbortedByLonePlug, Told
<1>6. QED
  BY <1>3, <1>4, <1>5 DEF EmbedInv

LEMMA EmbeddingStep == EmbedInv /\ [EmbedNext]_embedVars => EmbedInv'
<1> SUFFICES ASSUME EmbedInv, [EmbedNext]_embedVars PROVE EmbedInv'
  OBVIOUS
<1>1. CASE UNCHANGED embedVars
  BY <1>1, EmbeddingStutters
<1>2. CASE EmbedNext
  BY <1>2, EmbedKeepsInv, AskKeepsInv, EmbeddedKeepsInv, DirectKeepsInv, PassOnKeepsInv,
     ServeKeepsInv, WaitsEnd, AbortKeepsInv DEF EmbedNext
<1>3. QED
  BY <1>1, <1>2

LEMMA EmbeddingInvariant == EmbedSpec => []EmbedInv
<1>1. QED
  BY EmbeddingInitially, EmbeddingStep, PTL DEF EmbedSpec

\* What each side keeps of sockets, plugs and queries has its type.
THEOREM EmbeddingTypeCorrect == EmbedSpec => []EmbeddingTypeOK
BY EmbeddingInvariant, PTL DEF EmbedInv, Typed

(* Only a query for the geometry of a plug that is not embedded, between   *)
(* the first embedding of a plug of its application and its own, aborts it.*)
THEOREM EmbeddingAbortedByLonePlug == EmbedSpec => []AbortedByLonePlug
BY EmbeddingInvariant, PTL DEF EmbedInv

(* The parent of a plug is the socket that embedded it last, once its      *)
(* application has read that; and no client is told of a child and then,   *)
(* when it asks the child, of no parent or of an earlier one.              *)
THEOREM EmbeddingParentsAgree == EmbedSpec => []ParentsAgree
<1>1. ASSUME EmbedInv PROVE LastEmbedderIsParent
  <2> SUFFICES ASSUME NEW p \in Plug, Owner[p] \in alive, InFlight(p) = {}
               PROVE  IF By(p) = {} THEN parentOf[p] = Nothing
                      ELSE \E i \in By(p) : /\ \A j \in By(p) : j <= i
                                            /\ parentOf[p] = embeds[i][1]
    BY DEF LastEmbedderIsParent
  <2>1. CASE By(p) = {}
    BY <1>1, <2>1 DEF EmbedInv, Current
  <2>2. CASE By(p) # {}
    <3>1. inbox[Owner[p]] \in Seq(Message)
      BY <1>1, PlugOwner DEF EmbedInv, Typed
    <3>2. PICK n \in Nat : n > Len(inbox[Owner[p]])
      <4>1. Len(inbox[Owner[p]]) \in Nat
        BY <3>1
      <4>2. Len(inbox[Owner[p]]) + 1 \in Nat /\ Len(inbox[Owner[p]]) + 1 > Len(inbox[Owner[p]])
        BY <4>1
      <4>3. QED
        BY <4>2
    <3>3. Settles(p, n, LastEmbedder(p)) /\ Before(p, n) = {}
      BY <1>1, <2>2, <3>2 DEF EmbedInv, Current, Before
    <3>4. parentOf[p] \in LastEmbedder(p)
      BY <3>3 DEF Settles
    <3>5. QED
      BY <2>2, <3>4 DEF LastEmbedder
  <2>3. QED
    BY <2>1, <2>2
<1>2. EmbedInv => ParentsAgree
  BY <1>1 DEF EmbedInv, ParentsAgree
<1>3. QED
  BY <1>2, EmbeddingInvariant, PTL
=============================================================================
