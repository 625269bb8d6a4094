---------------------------- MODULE DRouteProofs ----------------------------
(***************************************************************************)
(* What holds of the routing of calls for any number of calls, however     *)
(* deep they nest, on top of what RegisterProofs says of the register.     *)
(***************************************************************************)
EXTENDS DRoute, RegisterProofs

-----------------------------------------------------------------------------
(* Whatever the router does, the register is used as its own specification *)
(* says, so all that is proved of the register holds here.                 *)
THEOREM RouteImplementsRegister == RouteSpec => RegSpec
<1>1. RouteInit => RegInit
  BY DEF RouteInit
<1>2. [RouteNext]_allVars => [RegNext]_regVars
  BY DEF RouteNext, Send, HandleMessage, Return, Meanwhile, RegNext, allVars
<1>3. QED
  BY <1>1, <1>2, PTL DEF RouteSpec, RegSpec

-----------------------------------------------------------------------------
(* Sequences *)

LEMMA AppendOne ==
  ASSUME NEW S, NEW q \in Seq(S), NEW e \in S
  PROVE  Append(q, e) \in Seq(S) /\ Len(Append(q, e)) = Len(q) + 1
OBVIOUS

\* A sequence with an element put before it has that one element more.
LEMMA PushOne ==
  ASSUME NEW S, NEW q \in Seq(S), NEW e \in S
  PROVE  /\ <<e>> \o q \in Seq(S)
         /\ ToSet(<<e>> \o q) \ ToSet(q) \subseteq {e}
<1>1. <<e>> \in Seq(S)
  OBVIOUS
<1>2. <<e>> \o q \in Seq(S)
  BY <1>1
<1>3. /\ DOMAIN (<<e>> \o q) = 1 .. (1 + Len(q))
      /\ DOMAIN q = 1 .. Len(q) /\ Len(q) \in Nat
      /\ (<<e>> \o q)[1] = e
      /\ \A i \in 2 .. (1 + Len(q)) : (<<e>> \o q)[i] = q[i - 1]
  BY <1>1
<1>4. \A i \in 1 .. (1 + Len(q)) : i = 1 \/ (i \in 2 .. (1 + Len(q)) /\ i - 1 \in 1 .. Len(q))
  BY <1>3
<1>5. QED
  BY <1>2, <1>3, <1>4 DEF ToSet

LEMMA TailElementsOnly ==
  ASSUME NEW S, NEW q \in Seq(S), q # <<>>
  PROVE  /\ Head(q) \in S /\ Tail(q) \in Seq(S)
         /\ ToSet(Tail(q)) \subseteq ToSet(q)
<1>1. Head(q) \in S /\ Tail(q) \in Seq(S)
  OBVIOUS
<1>2. \A i \in DOMAIN Tail(q) : i + 1 \in DOMAIN q /\ Tail(q)[i] = q[i + 1]
  OBVIOUS
<1>3. QED
  BY <1>1, <1>2 DEF ToSet

LEMMA ReplaceOne ==
  ASSUME NEW S, NEW q \in Seq(S), NEW i, NEW e \in S
  PROVE  [q EXCEPT ![i] = e] \in Seq(S)
<1>1. q \in [1 .. Len(q) -> S] /\ Len(q) \in Nat
  OBVIOUS
<1>2. [q EXCEPT ![i] = e] \in [1 .. Len(q) -> S]
  BY <1>1
<1>3. QED
  BY <1>1, <1>2

-----------------------------------------------------------------------------
(* Types *)

LEMMA RepliedType ==
  ASSUME RouteTypeOK, NEW call \in Message, NEW answer \in Answer, Replied(call, answer)
  PROVE  answers' \in Seq(Seq(Answer))
<1>1. CASE call.id \in DOMAIN answers
  <2>1. answers[call.id] \in Seq(Answer)
    BY <1>1 DEF RouteTypeOK
  <2>2. Append(answers[call.id], answer) \in Seq(Answer)
    BY <2>1, AppendOne
  <2>3. QED
    BY <2>2, ReplaceOne DEF RouteTypeOK, Replied
<1>2. CASE call.id \notin DOMAIN answers
  <2>1. answers' = answers
    BY <1>2 DEF RouteTypeOK, Replied
  <2>2. QED
    BY <2>1 DEF RouteTypeOK
<1>3. QED
  BY <1>1, <1>2

\* What a path leads to is an object, or nothing.
LEMMA DatumType ==
  ASSUME RegTypeOK, NEW path \in Paths
  PROVE  Datum(path) \in Object \cup {Null}
<1>1. CASE path = <<"cache", 0>>
  BY <1>1 DEF Datum
<1>2. CASE path = <<"root", 0>>
  BY <1>2, RegisterAssumption DEF Datum
<1>3. ASSUME NEW r \in Ref, path = <<"accessible", RefToPath(r)>>
      PROVE  Datum(path) \in Object \cup {Null}
  <2>1. Datum(path) = ref2ptr[r]
    BY <1>3, PathRoundTrip DEF Datum
  <2>2. QED
    BY <2>1 DEF RegTypeOK
<1>4. QED
  BY <1>1, <1>2, <1>3 DEF Paths

LEMMA RunStep ==
  ASSUME RouteTypeOK, NEW call \in Message, Run(call)
  PROVE  \/ Answered(call, "does not exist") /\ Datum(call.to) = Null
         \/ \E o \in Object :
              /\ Datum(call.to) = o
              /\ [call |-> call, datum |-> <<o, gen[o]>>] \in Frame
              /\ stack' = <<[call |-> call, datum |-> <<o, gen[o]>>]>> \o stack
              /\ UNCHANGED <<answers, up>>
<1>1. CASE Datum(call.to) = Null
  BY <1>1 DEF Run
<1>2. CASE Datum(call.to) # Null
  <2>1. PICK o \in Object : Datum(call.to) = o
    BY <1>2, DatumType DEF RouteTypeOK, Message
  <2>2. <<o, gen[o]>> \in Life
    BY DEF RouteTypeOK, RegTypeOK, Life
  <2>3. QED
    BY <1>2, <2>1, <2>2 DEF Run, Frame
<1>3. QED
  BY <1>1, <1>2

(* A dispatched message is answered, runs a function, or takes the process *)
(* down.                                                                   *)
LEMMA HandleMessageStep ==
  ASSUME RouteTypeOK, HandleMessage
  PROVE  /\ Head(inbox) \in Message /\ inbox' \in Seq(Message)
         /\ UNCHANGED regVars
         /\ \/ Run(Head(inbox))
            \/ \E answer \in Answer : Answered(Head(inbox), answer)
            \/ up' = FALSE /\ UNCHANGED <<stack, answers>>
<1>1. Head(inbox) \in Message /\ inbox' \in Seq(Message)
  BY TailElementsOnly DEF RouteTypeOK, HandleMessage
<1>2. QED
  BY <1>1 DEF HandleMessage, HandleProperties, HandlePropertiesOther,
     HandleIntrospection, HandleOther, NotYetHandled, Answer

LEMMA ReturnStep ==
  ASSUME RouteTypeOK, Return
  PROVE  /\ stack # <<>> /\ stack' = Tail(stack) /\ UNCHANGED <<regVars, inbox, up>>
         /\ Head(stack).call \in Message
         /\ \E answer \in Answer : Replied(Head(stack).call, answer)
<1>1. Head(stack) \in Frame
  BY TailElementsOnly DEF RouteTypeOK, Return
<1>2. Head(stack).call \in Message
  BY <1>1 DEF Frame
<1>3. PICK reply \in Replies(Head(stack).call.member) : ReplyOrVoid(Head(stack).call, reply)
  BY DEF Return
<1>4. reply \in {"none", "return", "failed"}
  BY DEF Replies
<1>5. QED
  BY <1>2, <1>3, <1>4 DEF Return, ReplyOrVoid, Answer

LEMMA RouteTypeStep ==
  ASSUME RouteTypeOK, RegTypeOK', [RouteNext]_allVars
  PROVE  RouteTypeOK'
<1>1. ASSUME NEW path \in Paths, NEW member \in Members, Send(path, member)
      PROVE  RouteTypeOK'
  <2> DEFINE m == [id |-> Len(answers) + 1, to |-> path, member |-> member]
  <2>1. m \in Message
    BY <1>1, RouteAssumption DEF Send, RouteTypeOK, Message
  <2>2. inbox' \in Seq(Message)
    BY <1>1, <2>1, AppendOne DEF Send, RouteTypeOK
  <2>3. answers' \in Seq(Seq(Answer))
    <3>1. <<>> \in Seq(Answer)
      OBVIOUS
    <3>2. QED
      BY <1>1, <3>1, AppendOne DEF Send, RouteTypeOK
  <2>4. QED
    BY <1>1, <2>2, <2>3 DEF Send, RouteTypeOK
<1>2. CASE HandleMessage
  <2>1. CASE Run(Head(inbox)) /\ stack' # stack
    <3>1. PICK f \in Frame : stack' = <<f>> \o stack /\ UNCHANGED <<answers, up>>
      BY <1>2, <2>1, HandleMessageStep, RunStep DEF Answered
    <3>2. stack' \in Seq(Frame)
      BY <3>1, PushOne DEF RouteTypeOK
    <3>3. QED
      BY <1>2, <3>1, <3>2, HandleMessageStep DEF RouteTypeOK
  <2>2. CASE \E answer \in Answer : Answered(Head(inbox), answer)
    <3>1. answers' \in Seq(Seq(Answer))
      BY <1>2, <2>2, HandleMessageStep, RepliedType DEF Answered
    <3>2. QED
      BY <1>2, <2>2, <3>1, HandleMessageStep DEF RouteTypeOK, Answered
  <2>3. CASE up' = FALSE /\ UNCHANGED <<stack, answers>>
    <3>1. up' \in BOOLEAN
      BY <2>3
    <3>2. QED
      BY <1>2, <2>3, <3>1, HandleMessageStep DEF RouteTypeOK
  <2>4. CASE Run(Head(inbox)) /\ stack' = stack
    <3>1. CASE Datum(Head(inbox).to) = Null
      BY <2>2, <2>4, <3>1 DEF Run, Answer
    <3>2. CASE Datum(Head(inbox).to) # Null
      BY <1>2, <2>4, <3>2, HandleMessageStep DEF Run, RouteTypeOK
    <3>3. QED
      BY <3>1, <3>2
  <2>5. QED
    BY <1>2, <2>1, <2>2, <2>3, <2>4, HandleMessageStep
<1>3. CASE Return
  <2>1. stack' \in Seq(Frame)
    BY <1>3, ReturnStep, TailElementsOnly DEF RouteTypeOK
  <2>2. answers' \in Seq(Seq(Answer))
    BY <1>3, ReturnStep, RepliedType
  <2>3. QED
    BY <1>3, <2>1, <2>2, ReturnStep DEF RouteTypeOK
<1>4. CASE Meanwhile
  BY <1>4 DEF Meanwhile, RouteTypeOK, routeVars
<1>5. CASE UNCHANGED allVars
  BY <1>5 DEF RouteTypeOK, allVars, routeVars
<1>6. QED
  BY <1>1, <1>2, <1>3, <1>4, <1>5 DEF RouteNext

(* Inbox, stack and answers are well typed, with calls nested to any depth *)
(* and the reference counter wrapping as it may.                           *)
THEOREM RouteTypeCorrect == RouteSpec => []RouteTypeOK
<1>1. RouteInit /\ RegTypeOK => RouteTypeOK
  <2> SUFFICES ASSUME RouteInit, RegTypeOK PROVE RouteTypeOK
    OBVIOUS
  <2>1. inbox \in Seq(Message) /\ stack \in Seq(Frame) /\ answers \in Seq(Seq(Answer))
    BY DEF RouteInit
  <2>2. up \in BOOLEAN
    BY DEF RouteInit
  <2>3. QED
    BY <2>1, <2>2 DEF RouteTypeOK
<1>2. RouteTypeOK /\ RegTypeOK' /\ [RouteNext]_allVars => RouteTypeOK'
  BY RouteTypeStep
<1>3. QED
  BY <1>1, <1>2, RouteImplementsRegister, RegisterTypeCorrect, PTL DEF RouteSpec

-----------------------------------------------------------------------------
(* Which object a function runs on *)

\* Nothing destroys the root.
RootLives == Root \in alive

LEMMA RouteRootLives == RouteSpec => []RootLives
<1>1. RouteInit => RootLives
  BY DEF RouteInit, RegInit, RootLives
<1>2. RootLives /\ [RouteNext]_allVars => RootLives'
  BY DEF RootLives, RouteNext, Send, HandleMessage, Return, Meanwhile, Create,
     ObjectToPath, Destroy, allVars, regVars
<1>3. QED
  BY <1>1, <1>2, PTL DEF RouteSpec

\* Two references are never printed alike.
LEMMA RefToPathInjective ==
  ASSUME NEW r \in Ref, NEW s \in Ref, RefToPath(r) = RefToPath(s)
  PROVE  r = s
BY RegisterAssumption DEF Ref, RefToPath

(* Until the counter wraps, what a path leads to is alive and is the life  *)
(* the path was made for.                                                  *)
LEMMA DatumIsMeant ==
  ASSUME RegIndInv, RootLives, ~Wrapped, NEW path \in Paths, Datum(path) # Null
  PROVE  /\ Datum(path) \in alive
         /\ Meant(path) = {<<Datum(path), gen[Datum(path)]>>}
<1>1. CASE path = <<"cache", 0>>
  BY <1>1 DEF Datum
<1>2. CASE path = <<"root", 0>>
  BY <1>2 DEF Datum, Meant, RootLives
<1>3. ASSUME NEW r \in Ref, path = <<"accessible", RefToPath(r)>>
      PROVE  /\ Datum(path) \in alive
             /\ Meant(path) = {<<Datum(path), gen[Datum(path)]>>}
  <2>1. Datum(path) = ref2ptr[r]
    BY <1>3, PathRoundTrip DEF Datum
  <2>2. {s \in Ref : RefToPath(s) = path[2]} = {r}
    BY <1>3, RefToPathInjective
  <2>3. Meant(path) = issued[r]
    BY <1>3, <2>2 DEF Meant
  <2>4. QED
    BY <2>1, <2>3 DEF RegIndInv, EntriesAsIssued, TableAgreesWithData
<1>4. QED
  BY <1>1, <1>2, <1>3 DEF Paths

(* A function is only ever called on the live object that its path was     *)
(* made for (droute.c:503), until the counter wraps.                       *)
THEOREM RouteRunsOnNamedObject == RouteSpec => RunsOnNamedObject
<1>1. RouteTypeOK /\ RegIndInv /\ RootLives /\ [RouteNext]_allVars =>
        [\A f \in ToSet(stack') \ ToSet(stack) :
           ~Wrapped => f.datum[1] \in alive /\ Meant(f.call.to) = {f.datum}]_allVars
  <2> SUFFICES ASSUME RouteTypeOK, RegIndInv, RootLives, RouteNext, ~Wrapped,
                      NEW f \in ToSet(stack') \ ToSet(stack)
               PROVE  f.datum[1] \in alive /\ Meant(f.call.to) = {f.datum}
    OBVIOUS
  <2>1. ~Return
    BY ReturnStep, TailElementsOnly DEF RouteTypeOK
  <2>2. stack' # stack
    OBVIOUS
  <2>3. HandleMessage
    BY <2>1, <2>2 DEF RouteNext, Send, Meanwhile, routeVars
  <2>4. Run(Head(inbox)) /\ Head(inbox) \in Message
    BY <2>2, <2>3, HandleMessageStep DEF Answered
  <2>5. PICK o \in Object :
          LET g == [call |-> Head(inbox), datum |-> <<o, gen[o]>>] IN
          /\ Datum(Head(inbox).to) = o
          /\ g \in Frame
          /\ stack' = <<g>> \o stack
    BY <2>2, <2>4, RunStep DEF Answered
  <2>6. f = [call |-> Head(inbox), datum |-> <<o, gen[o]>>]
    <3> DEFINE g == [call |-> Head(inbox), datum |-> <<o, gen[o]>>]
    <3>1. g \in Frame /\ stack' = <<g>> \o stack
      BY <2>5
    <3> HIDE DEF g
    <3>2. ToSet(<<g>> \o stack) \ ToSet(stack) \subseteq {g}
      BY <3>1, PushOne DEF RouteTypeOK
    <3>3. f \in ToSet(<<g>> \o stack) \ ToSet(stack)
      BY <3>1
    <3>4. f = g
      BY <3>2, <3>3
    <3>5. QED
      BY <3>4 DEF g
  <2>7. Head(inbox).to \in Paths /\ o # Null
    BY <2>4, RegisterAssumption DEF Message
  <2>8. f.datum = <<o, gen[o]>> /\ f.call = Head(inbox)
    BY <2>6
  <2>9. o \in alive /\ Meant(Head(inbox).to) = {<<o, gen[o]>>}
    BY <2>5, <2>7, DatumIsMeant
  <2>10. QED
    BY <2>8, <2>9
<1>2. QED
  BY <1>1, RouteTypeCorrect, RouteImplementsRegister, RegisterInvariant,
     RouteRootLives, PTL DEF RouteSpec, RunsOnNamedObject

-----------------------------------------------------------------------------
(* What a call is answered *)

(* A message waits or runs in one place only: this is what the answers     *)
(* need, which are counted by message.                                     *)
InOnePlace ==
  /\ \A n \in DOMAIN inbox : inbox[n].id \in DOMAIN answers
  /\ \A n \in DOMAIN stack : stack[n].call.id \in DOMAIN answers
  /\ \A m, n \in DOMAIN inbox : inbox[m].id = inbox[n].id => m = n
  /\ \A m, n \in DOMAIN stack : stack[m].call.id = stack[n].call.id => m = n
  /\ \A m \in DOMAIN inbox, n \in DOMAIN stack : inbox[m].id # stack[n].call.id
CallsInv == RouteTypeOK /\ InOnePlace /\ OneAnswer

\* The elements of a longer and of a shorter sequence.
LEMMA AppendElements ==
  ASSUME NEW S, NEW q \in Seq(S), NEW e \in S
  PROVE  /\ Len(q) \in Nat /\ DOMAIN q = 1 .. Len(q)
         /\ DOMAIN Append(q, e) = 1 .. Len(q) + 1 /\ Append(q, e)[Len(q) + 1] = e
         /\ \A i \in DOMAIN q : Append(q, e)[i] = q[i]
OBVIOUS

LEMMA TailElements ==
  ASSUME NEW S, NEW q \in Seq(S), q # <<>>
  PROVE  /\ 1 \in DOMAIN q /\ Head(q) = q[1]
         /\ \A i \in DOMAIN Tail(q) :
              i \in Nat \ {0} /\ i + 1 \in DOMAIN q /\ Tail(q)[i] = q[i + 1]
         /\ \A i \in DOMAIN q :
              i \in Nat /\ (i # 1 => i - 1 \in DOMAIN Tail(q) /\ Tail(q)[i - 1] = q[i])
<1>1. Len(q) \in Nat /\ Len(q) # 0 /\ DOMAIN q = 1 .. Len(q)
  OBVIOUS
<1>2. Tail(q) \in Seq(S) /\ Len(Tail(q)) = Len(q) - 1 /\ DOMAIN Tail(q) = 1 .. Len(q) - 1
  BY <1>1
<1>3. \A i \in 1 .. Len(q) - 1 : Tail(q)[i] = q[i + 1]
  BY <1>1
<1>4. QED
  BY <1>1, <1>2, <1>3

LEMMA PushElements ==
  ASSUME NEW S, NEW q \in Seq(S), NEW e \in S
  PROVE  /\ 1 \in DOMAIN (<<e>> \o q) /\ (<<e>> \o q)[1] = e
         /\ \A i \in DOMAIN (<<e>> \o q) :
              i \in Nat /\ (i # 1 => i - 1 \in DOMAIN q /\ (<<e>> \o q)[i] = q[i - 1])
         /\ \A i \in DOMAIN q :
              i \in Nat /\ i + 1 \in DOMAIN (<<e>> \o q) /\ (<<e>> \o q)[i + 1] = q[i]
<1>1. <<e>> \in Seq(S) /\ Len(<<e>>) = 1 /\ <<e>>[1] = e
  OBVIOUS
<1>2. <<e>> \o q \in Seq(S) /\ Len(<<e>> \o q) = 1 + Len(q) /\ Len(q) \in Nat
  BY <1>1
<1>3. DOMAIN (<<e>> \o q) = 1 .. (1 + Len(q)) /\ DOMAIN q = 1 .. Len(q)
  BY <1>2
<1>4. /\ (<<e>> \o q)[1] = e
      /\ \A i \in 2 .. (1 + Len(q)) : (<<e>> \o q)[i] = q[i - 1]
  BY <1>1, <1>2
<1>5. \A i \in 1 .. (1 + Len(q)) : i # 1 => i \in 2 .. (1 + Len(q)) /\ i - 1 \in 1 .. Len(q)
  BY <1>2
<1>6. \A i \in 1 .. Len(q) : i + 1 \in 2 .. (1 + Len(q)) /\ (i + 1) - 1 = i
  BY <1>2
<1>7. QED
  BY <1>2, <1>3, <1>4, <1>5, <1>6

(* The message that leaves the inbox is in no other place, and the others  *)
(* are where they were.                                                    *)
LEMMA HeadLeaves ==
  ASSUME CallsInv, inbox # <<>>, inbox' = Tail(inbox), NEW c, c = Head(inbox)
  PROVE  /\ c \in Message /\ c.id \in DOMAIN answers /\ Waiting(c.id)
         /\ \A n \in DOMAIN inbox' : inbox'[n].id # c.id /\ inbox'[n].id \in DOMAIN answers
         /\ \A n \in DOMAIN stack : stack[n].call.id # c.id
         /\ \A m, n \in DOMAIN inbox' : inbox'[m].id = inbox'[n].id => m = n
         /\ \A m \in DOMAIN inbox', n \in DOMAIN stack : inbox'[m].id # stack[n].call.id
         /\ \A i : i # c.id =>
              ((\E n \in DOMAIN inbox' : inbox'[n].id = i) <=> \E n \in DOMAIN inbox : inbox[n].id = i)
<1>1. inbox \in Seq(Message)
  BY DEF CallsInv, RouteTypeOK
<1>2. /\ 1 \in DOMAIN inbox /\ c = inbox[1]
      /\ \A i \in DOMAIN inbox' :
           i \in Nat \ {0} /\ i + 1 \in DOMAIN inbox /\ inbox'[i] = inbox[i + 1]
      /\ \A i \in DOMAIN inbox :
           i \in Nat /\ (i # 1 => i - 1 \in DOMAIN inbox' /\ inbox'[i - 1] = inbox[i])
  BY <1>1, TailElements
<1>3. c \in Message
  BY <1>1, <1>2, TailElementsOnly
<1>4. c.id \in DOMAIN answers /\ Waiting(c.id)
  BY <1>2 DEF CallsInv, InOnePlace, Waiting
<1>5. ASSUME NEW n \in DOMAIN inbox' PROVE inbox'[n].id # c.id /\ inbox'[n].id \in DOMAIN answers
  <2>1. n + 1 # 1
    BY <1>2
  <2>2. QED
    BY <1>2, <2>1 DEF CallsInv, InOnePlace
<1>6. \A n \in DOMAIN stack : stack[n].call.id # c.id
  BY <1>2 DEF CallsInv, InOnePlace
<1>7. ASSUME NEW m \in DOMAIN inbox', NEW n \in DOMAIN inbox', inbox'[m].id = inbox'[n].id
      PROVE  m = n
  <2>1. m + 1 = n + 1
    BY <1>2, <1>7 DEF CallsInv, InOnePlace
  <2>2. QED
    BY <1>2, <2>1
<1>8. \A m \in DOMAIN inbox', n \in DOMAIN stack : inbox'[m].id # stack[n].call.id
  BY <1>2 DEF CallsInv, InOnePlace
<1>9. \A i : i # c.id =>
        ((\E n \in DOMAIN inbox' : inbox'[n].id = i) <=> \E n \in DOMAIN inbox : inbox[n].id = i)
  BY <1>2, ZenonT(40)
<1>10. QED
  BY <1>3, <1>4, <1>5, <1>6, <1>7, <1>8, <1>9

\* So does the one whose function returns.
LEMMA TopLeaves ==
  ASSUME CallsInv, stack # <<>>, stack' = Tail(stack), NEW c, c = Head(stack).call
  PROVE  /\ c \in Message /\ c.id \in DOMAIN answers /\ Waiting(c.id)
         /\ \A n \in DOMAIN stack' : stack'[n].call.id # c.id /\ stack'[n].call.id \in DOMAIN answers
         /\ \A n \in DOMAIN inbox : inbox[n].id # c.id
         /\ \A m, n \in DOMAIN stack' : stack'[m].call.id = stack'[n].call.id => m = n
         /\ \A m \in DOMAIN inbox, n \in DOMAIN stack' : inbox[m].id # stack'[n].call.id
         /\ \A i : i # c.id =>
              ((\E n \in DOMAIN stack' : stack'[n].call.id = i)
                 <=> \E n \in DOMAIN stack : stack[n].call.id = i)
<1>1. stack \in Seq(Frame)
  BY DEF CallsInv, RouteTypeOK
<1>2. /\ 1 \in DOMAIN stack /\ c = stack[1].call
      /\ \A i \in DOMAIN stack' :
           i \in Nat \ {0} /\ i + 1 \in DOMAIN stack /\ stack'[i] = stack[i + 1]
      /\ \A i \in DOMAIN stack :
           i \in Nat /\ (i # 1 => i - 1 \in DOMAIN stack' /\ stack'[i - 1] = stack[i])
  BY <1>1, TailElements
<1>3. c \in Message
  <2>1. Head(stack) \in Frame
    BY <1>1, TailElementsOnly
  <2>2. QED
    BY <2>1 DEF Frame
<1>4. c.id \in DOMAIN answers /\ Waiting(c.id)
  BY <1>2 DEF CallsInv, InOnePlace, Waiting
<1>5. ASSUME NEW n \in DOMAIN stack'
      PROVE  stack'[n].call.id # c.id /\ stack'[n].call.id \in DOMAIN answers
  <2>1. n + 1 # 1
    BY <1>2
  <2>2. QED
    BY <1>2, <2>1 DEF CallsInv, InOnePlace
<1>6. \A n \in DOMAIN inbox : inbox[n].id # c.id
  BY <1>2 DEF CallsInv, InOnePlace
<1>7. ASSUME NEW m \in DOMAIN stack', NEW n \in DOMAIN stack', stack'[m].call.id = stack'[n].call.id
      PROVE  m = n
  <2>1. m + 1 = n + 1
    BY <1>2, <1>7 DEF CallsInv, InOnePlace
  <2>2. QED
    BY <1>2, <2>1
<1>8. \A m \in DOMAIN inbox, n \in DOMAIN stack' : inbox[m].id # stack'[n].call.id
  BY <1>2 DEF CallsInv, InOnePlace
<1>9. \A i : i # c.id =>
        ((\E n \in DOMAIN stack' : stack'[n].call.id = i)
           <=> \E n \in DOMAIN stack : stack[n].call.id = i)
  BY <1>2, ZenonT(40)
<1>10. QED
  BY <1>3, <1>4, <1>5, <1>6, <1>7, <1>8, <1>9

\* A call that is answered as it leaves its place has that answer only.
LEMMA FirstAnswer ==
  ASSUME CallsInv, up, NEW c \in Message, c.id \in DOMAIN answers, Waiting(c.id),
         NEW a \in Answer, Replied(c, a)
  PROVE  /\ DOMAIN answers' = DOMAIN answers /\ answers'[c.id] = <<a>>
         /\ \A i \in DOMAIN answers : i # c.id => answers'[i] = answers[i]
<1>1. answers \in Seq(Seq(Answer)) /\ Len(answers[c.id]) = 0
  BY DEF CallsInv, RouteTypeOK, OneAnswer
<1>2. answers[c.id] \in Seq(Answer)
  BY <1>1
<1>3. answers[c.id] = <<>>
  BY <1>1, <1>2
<1>4. Append(answers[c.id], a) = <<a>>
  BY <1>3
<1>5. QED
  BY <1>1, <1>4 DEF Replied

LEMMA CallsSend ==
  ASSUME CallsInv, RouteTypeOK', NEW path \in Paths, NEW member \in Members, Send(path, member)
  PROVE  CallsInv'
<1> DEFINE N == Len(answers) + 1
<1>1. PICK c : c = [id |-> N, to |-> path, member |-> member]
  OBVIOUS
<1>2. /\ inbox \in Seq(Message) /\ answers \in Seq(Seq(Answer)) /\ <<>> \in Seq(Answer)
      /\ c \in Message /\ c.id = N
  BY <1>1, RouteAssumption DEF CallsInv, RouteTypeOK, Send, Message
<1>3. inbox' = Append(inbox, c) /\ answers' = Append(answers, <<>>) /\ UNCHANGED <<stack, up>>
  BY <1>1 DEF Send
<1> HIDE DEF N
<1>4. /\ Len(inbox) \in Nat /\ DOMAIN inbox = 1 .. Len(inbox)
      /\ DOMAIN inbox' = 1 .. Len(inbox) + 1 /\ inbox'[Len(inbox) + 1] = c
      /\ \A n \in DOMAIN inbox : inbox'[n] = inbox[n]
  BY <1>2, <1>3, AppendElements
<1>5. /\ N \notin DOMAIN answers /\ DOMAIN answers' = DOMAIN answers \cup {N}
      /\ answers'[N] = <<>> /\ \A i \in DOMAIN answers : answers'[i] = answers[i]
  <2>1. /\ Len(answers) \in Nat /\ DOMAIN answers = 1 .. Len(answers)
        /\ DOMAIN answers' = 1 .. Len(answers) + 1 /\ answers'[Len(answers) + 1] = <<>>
        /\ \A i \in DOMAIN answers : answers'[i] = answers[i]
    BY <1>2, <1>3, AppendElements
  <2>2. QED
    BY <2>1 DEF N
<1>6. \A n \in DOMAIN inbox' : n \in DOMAIN inbox \/ n = Len(inbox) + 1
  BY <1>4
<1>7. Len(inbox) + 1 \in DOMAIN inbox' /\ DOMAIN inbox \subseteq DOMAIN inbox'
  BY <1>4
<1>8. InOnePlace'
  <2>1. \A n \in DOMAIN inbox' : inbox'[n].id \in DOMAIN answers'
    BY <1>2, <1>4, <1>5, <1>6 DEF CallsInv, InOnePlace
  <2>2. \A n \in DOMAIN inbox : inbox'[n].id # N
    BY <1>4, <1>5 DEF CallsInv, InOnePlace
  <2>3. \A m, n \in DOMAIN inbox' : inbox'[m].id = inbox'[n].id => m = n
    BY <1>2, <1>4, <1>6, <2>2 DEF CallsInv, InOnePlace
  <2>4. ASSUME NEW m \in DOMAIN inbox', NEW n \in DOMAIN stack
        PROVE  inbox'[m].id # stack[n].call.id
    <3>1. CASE m \in DOMAIN inbox
      BY <1>4, <3>1 DEF CallsInv, InOnePlace
    <3>2. CASE m = Len(inbox) + 1
      <4>1. stack[n].call.id \in DOMAIN answers
        BY DEF CallsInv, InOnePlace
      <4>2. QED
        BY <1>2, <1>4, <1>5, <3>2, <4>1
    <3>3. QED
      BY <1>6, <3>1, <3>2
  <2>5. QED
    BY <1>3, <1>5, <2>1, <2>3, <2>4 DEF CallsInv, InOnePlace
<1>9. OneAnswer'
  <2> SUFFICES ASSUME up', NEW i \in DOMAIN answers'
               PROVE  Len(answers'[i]) = IF Waiting(i)' THEN 0 ELSE 1
    BY DEF OneAnswer
  <2>1. CASE i = N
    BY <1>2, <1>4, <1>5, <1>7, <2>1 DEF Waiting
  <2>2. CASE i \in DOMAIN answers
    <3>1. (\E n \in DOMAIN inbox' : inbox'[n].id = i) <=> \E n \in DOMAIN inbox : inbox[n].id = i
      BY <1>2, <1>4, <1>5, <1>6, <1>7, <2>2
    <3>2. Waiting(i)' <=> Waiting(i)
      BY <1>3, <3>1 DEF Waiting
    <3>3. QED
      BY <1>3, <1>5, <2>2, <3>2 DEF CallsInv, OneAnswer
  <2>3. QED
    BY <1>5, <2>1, <2>2
<1>10. QED
  BY <1>8, <1>9 DEF CallsInv

\* A message is answered as it is dispatched.
LEMMA CallsAnswered ==
  ASSUME CallsInv, RouteTypeOK', HandleMessage, NEW a \in Answer, Answered(Head(inbox), a)
  PROVE  CallsInv'
<1>1. PICK c : c = Head(inbox)
  OBVIOUS
<1>2. inbox # <<>> /\ inbox' = Tail(inbox) /\ up /\ Replied(c, a) /\ UNCHANGED <<stack, up>>
  BY <1>1 DEF HandleMessage, Answered
<1>3. /\ c \in Message /\ c.id \in DOMAIN answers /\ Waiting(c.id)
      /\ \A n \in DOMAIN inbox' : inbox'[n].id # c.id /\ inbox'[n].id \in DOMAIN answers
      /\ \A n \in DOMAIN stack : stack[n].call.id # c.id
      /\ \A m, n \in DOMAIN inbox' : inbox'[m].id = inbox'[n].id => m = n
      /\ \A m \in DOMAIN inbox', n \in DOMAIN stack : inbox'[m].id # stack[n].call.id
      /\ \A i : i # c.id =>
           ((\E n \in DOMAIN inbox' : inbox'[n].id = i) <=> \E n \in DOMAIN inbox : inbox[n].id = i)
  BY <1>1, <1>2, HeadLeaves, ZenonT(40)
<1>4. /\ DOMAIN answers' = DOMAIN answers /\ answers'[c.id] = <<a>>
      /\ \A i \in DOMAIN answers : i # c.id => answers'[i] = answers[i]
  BY <1>2, <1>3, FirstAnswer
<1>5. InOnePlace'
  BY <1>2, <1>3, <1>4 DEF CallsInv, InOnePlace
<1>6. OneAnswer'
  <2> SUFFICES ASSUME NEW i \in DOMAIN answers'
               PROVE  Len(answers'[i]) = IF Waiting(i)' THEN 0 ELSE 1
    BY DEF OneAnswer
  <2>1. CASE i = c.id
    <3>1. ~Waiting(i)'
      BY <1>2, <1>3, <2>1 DEF Waiting
    <3>2. Len(<<a>>) = 1
      OBVIOUS
    <3>3. QED
      BY <1>4, <2>1, <3>1, <3>2
  <2>2. CASE i # c.id
    <3>1. Waiting(i)' <=> Waiting(i)
      BY <1>2, <1>3, <2>2 DEF Waiting
    <3>2. QED
      BY <1>2, <1>4, <2>2, <3>1 DEF CallsInv, OneAnswer
  <2>3. QED
    BY <2>1, <2>2
<1>7. QED
  BY <1>5, <1>6 DEF CallsInv

\* A function is called: its message goes from the inbox to the stack.
LEMMA CallsPushed ==
  ASSUME CallsInv, RouteTypeOK', HandleMessage, NEW f \in Frame, f.call = Head(inbox),
         stack' = <<f>> \o stack, UNCHANGED <<answers, up>>
  PROVE  CallsInv'
<1>1. PICK c : c = Head(inbox)
  OBVIOUS
<1>2. inbox # <<>> /\ inbox' = Tail(inbox) /\ f.call = c
  BY <1>1 DEF HandleMessage
<1>3. /\ c \in Message /\ c.id \in DOMAIN answers /\ Waiting(c.id)
      /\ \A n \in DOMAIN inbox' : inbox'[n].id # c.id /\ inbox'[n].id \in DOMAIN answers
      /\ \A n \in DOMAIN stack : stack[n].call.id # c.id
      /\ \A m, n \in DOMAIN inbox' : inbox'[m].id = inbox'[n].id => m = n
      /\ \A m \in DOMAIN inbox', n \in DOMAIN stack : inbox'[m].id # stack[n].call.id
      /\ \A i : i # c.id =>
           ((\E n \in DOMAIN inbox' : inbox'[n].id = i) <=> \E n \in DOMAIN inbox : inbox[n].id = i)
  BY <1>1, <1>2, HeadLeaves
<1>4. stack \in Seq(Frame)
  BY DEF CallsInv, RouteTypeOK
<1>5. /\ 1 \in DOMAIN stack' /\ stack'[1] = f
      /\ \A n \in DOMAIN stack' :
           n \in Nat /\ (n # 1 => n - 1 \in DOMAIN stack /\ stack'[n] = stack[n - 1])
      /\ \A n \in DOMAIN stack :
           n \in Nat /\ n + 1 \in DOMAIN stack' /\ stack'[n + 1] = stack[n]
  BY <1>4, PushElements
<1>6. InOnePlace'
  <2>1. \A n \in DOMAIN stack' : stack'[n].call.id \in DOMAIN answers
    BY <1>2, <1>3, <1>5 DEF CallsInv, InOnePlace
  <2>2. ASSUME NEW m \in DOMAIN stack', NEW n \in DOMAIN stack', stack'[m].call.id = stack'[n].call.id
        PROVE  m = n
    <3>1. CASE m # 1 /\ n # 1
      <4>1. m - 1 = n - 1
        BY <1>5, <2>2, <3>1 DEF CallsInv, InOnePlace
      <4>2. QED
        BY <1>5, <4>1
    <3>2. CASE m = 1 \/ n = 1
      BY <1>2, <1>3, <1>5, <2>2, <3>2
    <3>3. QED
      BY <3>1, <3>2
  <2>3. \A m \in DOMAIN inbox', n \in DOMAIN stack' : inbox'[m].id # stack'[n].call.id
    BY <1>2, <1>3, <1>5
  <2>4. QED
    BY <1>3, <2>1, <2>2, <2>3 DEF InOnePlace
<1>7. OneAnswer'
  <2> SUFFICES ASSUME up', NEW i \in DOMAIN answers'
               PROVE  Len(answers'[i]) = IF Waiting(i)' THEN 0 ELSE 1
    BY DEF OneAnswer
  <2>1. CASE i = c.id
    BY <1>2, <1>3, <1>5, <2>1 DEF Waiting, CallsInv, OneAnswer
  <2>2. CASE i # c.id
    <3>1. (\E n \in DOMAIN stack' : stack'[n].call.id = i) <=> \E n \in DOMAIN stack : stack[n].call.id = i
      <4>1. ASSUME NEW n \in DOMAIN stack', stack'[n].call.id = i
            PROVE  \E m \in DOMAIN stack : stack[m].call.id = i
        BY <1>2, <1>5, <2>2, <4>1
      <4>2. ASSUME NEW n \in DOMAIN stack, stack[n].call.id = i
            PROVE  \E m \in DOMAIN stack' : stack'[m].call.id = i
        BY <1>5, <4>2
      <4>3. QED
        BY <4>1, <4>2
    <3>2. Waiting(i)' <=> Waiting(i)
      BY <1>3, <2>2, <3>1 DEF Waiting
    <3>3. QED
      BY <3>2 DEF CallsInv, OneAnswer
  <2>3. QED
    BY <2>1, <2>2
<1>8. QED
  BY <1>6, <1>7 DEF CallsInv

LEMMA CallsReturn ==
  ASSUME CallsInv, RouteTypeOK', Return
  PROVE  CallsInv'
<1>1. PICK c : c = Head(stack).call
  OBVIOUS
<1>2. PICK a \in Answer : Replied(c, a)
  BY <1>1, ReturnStep DEF CallsInv
<1>3. stack # <<>> /\ stack' = Tail(stack) /\ up /\ UNCHANGED <<inbox, up>>
  BY DEF Return
<1>4. /\ c \in Message /\ c.id \in DOMAIN answers /\ Waiting(c.id)
      /\ \A n \in DOMAIN stack' : stack'[n].call.id # c.id /\ stack'[n].call.id \in DOMAIN answers
      /\ \A n \in DOMAIN inbox : inbox[n].id # c.id
      /\ \A m, n \in DOMAIN stack' : stack'[m].call.id = stack'[n].call.id => m = n
      /\ \A m \in DOMAIN inbox, n \in DOMAIN stack' : inbox[m].id # stack'[n].call.id
      /\ \A i : i # c.id =>
           ((\E n \in DOMAIN stack' : stack'[n].call.id = i)
              <=> \E n \in DOMAIN stack : stack[n].call.id = i)
  BY ONLY CallsInv, <1>1, <1>3, TopLeaves, SMTT(30)
<1>5. /\ DOMAIN answers' = DOMAIN answers /\ answers'[c.id] = <<a>>
      /\ \A i \in DOMAIN answers : i # c.id => answers'[i] = answers[i]
  BY <1>2, <1>3, <1>4, FirstAnswer
<1>6. InOnePlace'
  BY <1>3, <1>4, <1>5 DEF CallsInv, InOnePlace
<1>7. OneAnswer'
  <2> SUFFICES ASSUME NEW i \in DOMAIN answers'
               PROVE  Len(answers'[i]) = IF Waiting(i)' THEN 0 ELSE 1
    BY DEF OneAnswer
  <2>1. CASE i = c.id
    <3>1. ~Waiting(i)'
      BY <1>3, <1>4, <2>1 DEF Waiting
    <3>2. Len(<<a>>) = 1
      OBVIOUS
    <3>3. QED
      BY <1>5, <2>1, <3>1, <3>2
  <2>2. CASE i # c.id
    <3>1. Waiting(i)' <=> Waiting(i)
      BY <1>3, <1>4, <2>2 DEF Waiting
    <3>2. QED
      BY <1>3, <1>5, <2>2, <3>1 DEF CallsInv, OneAnswer
  <2>3. QED
    BY <2>1, <2>2
<1>8. QED
  BY <1>6, <1>7 DEF CallsInv

LEMMA CallsStep ==
  ASSUME CallsInv, RouteTypeOK', [RouteNext]_allVars
  PROVE  CallsInv'
<1>1. ASSUME UNCHANGED routeVars PROVE CallsInv'
  BY <1>1 DEF CallsInv, InOnePlace, OneAnswer, Waiting, routeVars
<1>2. CASE HandleMessage
  <2>1. ASSUME Run(Head(inbox)) PROVE CallsInv'
    <3>1. Head(inbox) \in Message
      BY <1>2, HandleMessageStep DEF CallsInv
    <3>2. CASE Answered(Head(inbox), "does not exist")
      BY <1>2, <3>2, CallsAnswered DEF Answer
    <3>3. ASSUME NEW o \in Object,
                 [call |-> Head(inbox), datum |-> <<o, gen[o]>>] \in Frame,
                 stack' = <<[call |-> Head(inbox), datum |-> <<o, gen[o]>>]>> \o stack,
                 UNCHANGED <<answers, up>>
          PROVE  CallsInv'
      <4>1. PICK f : f = [call |-> Head(inbox), datum |-> <<o, gen[o]>>]
        OBVIOUS
      <4>2. f \in Frame /\ f.call = Head(inbox) /\ stack' = <<f>> \o stack
        BY <3>3, <4>1
      <4>3. QED
        BY <1>2, <3>3, <4>2, CallsPushed
    <3>4. QED
      BY <2>1, <3>1, <3>2, <3>3, RunStep DEF CallsInv
  <2>2. ASSUME up' = FALSE, UNCHANGED <<stack, answers>> PROVE CallsInv'
    <3>1. inbox # <<>> /\ inbox' = Tail(inbox)
      BY <1>2 DEF HandleMessage
    <3>2. InOnePlace'
      BY <2>2, <3>1, HeadLeaves DEF CallsInv, InOnePlace
    <3>3. QED
      BY <2>2, <3>2 DEF CallsInv, OneAnswer
  <2>3. QED
    BY <1>2, <2>1, <2>2, HandleMessageStep, CallsAnswered DEF CallsInv
<1>3. QED
  BY <1>1, <1>2, CallsSend, CallsReturn DEF RouteNext, Meanwhile, allVars, routeVars

LEMMA CallsInvariant == RouteSpec => []CallsInv
<1>1. RouteInit /\ RouteTypeOK => CallsInv
  <2> SUFFICES ASSUME RouteInit, RouteTypeOK PROVE CallsInv
    OBVIOUS
  <2>1. inbox = <<>> /\ stack = <<>> /\ answers = <<>>
    BY DEF RouteInit
  <2>2. DOMAIN inbox = {} /\ DOMAIN stack = {} /\ DOMAIN answers = {}
    BY ONLY <2>1
  <2>3. QED
    BY <2>2 DEF CallsInv, InOnePlace, OneAnswer
<1>2. CallsInv /\ RouteTypeOK' /\ [RouteNext]_allVars => CallsInv'
  BY CallsStep
<1>3. QED
  BY <1>1, <1>2, RouteTypeCorrect, PTL DEF RouteSpec

(* Every call has no answer while it waits or runs and exactly one from    *)
(* then on, however many calls nest (handle_message, droute.c).            *)
THEOREM RouteOneAnswer == RouteSpec => []OneAnswer
<1>1. CallsInv => OneAnswer
  BY DEF CallsInv
<1>2. QED
  BY <1>1, CallsInvariant, PTL

(* An accessible is said not to exist only when it has gone (droute.c:503), *)
(* until the counter wraps.                                                *)
THEOREM RouteRefusedOnlyIfGone == RouteSpec => RefusedOnlyIfGone
<1> DEFINE Gone(path) ==
      \A life \in Meant(path) : life[1] \notin alive \/ gen[life[1]] # life[2]
<1> DEFINE Refused(i) ==
      /\ answers'[i] # answers[i] /\ "does not exist" \in ToSet(answers'[i])
      /\ ~Wrapped /\ Head(inbox).to[1] = "accessible"
<1>1. ASSUME RegIndInv, ~Wrapped, NEW path \in Paths, path[1] = "accessible", Datum(path) = Null
      PROVE  Gone(path)
  <2>1. PICK r \in Ref : path = <<"accessible", RefToPath(r)>>
    BY <1>1 DEF Paths
  <2>2. ref2ptr[r] = Null
    BY <1>1, <2>1, PathRoundTrip DEF Datum
  <2>3. {s \in Ref : RefToPath(s) = path[2]} = {r}
    BY <2>1, RefToPathInjective
  <2>4. Meant(path) = issued[r]
    BY <2>1, <2>3 DEF Meant
  <2>5. ASSUME NEW life \in issued[r], life[1] \in alive, gen[life[1]] = life[2] PROVE FALSE
    <3>1. PICK o \in Object, g \in 0 .. MaxLives : life = <<o, g>>
      BY <1>1 DEF RegIndInv, RegTypeOK, Life
    <3>2. dbus_id[o] = r
      BY <1>1, <2>5, <3>1 DEF RegIndInv, OneReferencePerLife
    <3>3. ref2ptr[r] = o
      BY <1>1, <2>5, <3>1, <3>2, RegisterAssumption DEF RegIndInv, TableAgreesWithData, Ref
    <3>4. QED
      BY <2>2, <3>3, RegisterAssumption
  <2>6. QED
    BY <2>4, <2>5
<1>2. ASSUME CallsInv, RegIndInv, RouteNext, NEW i \in DOMAIN answers, Refused(i)
      PROVE  Gone(Head(inbox).to)
  <2>1. answers'[i] # answers[i] /\ \E n \in DOMAIN answers'[i] : answers'[i][n] = "does not exist"
    BY <1>2 DEF ToSet
  <2>2. ASSUME NEW c \in Message, NEW a \in Answer, c.id \in DOMAIN answers, Waiting(c.id), up,
               Replied(c, a)
        PROVE  a = "does not exist"
    <3>1. /\ answers'[c.id] = <<a>>
          /\ \A k \in DOMAIN answers : k # c.id => answers'[k] = answers[k]
      BY <1>2, <2>2, FirstAnswer
    <3>2. answers'[i] = <<a>>
      BY <2>1, <3>1
    <3>3. \A n \in DOMAIN <<a>> : <<a>>[n] = a
      OBVIOUS
    <3>4. QED
      BY <2>1, <3>2, <3>3
  <2>3. ~Return
    <3> SUFFICES ASSUME Return PROVE FALSE
      OBVIOUS
    <3>1. stack # <<>> /\ stack' = Tail(stack) /\ up
      BY DEF Return
    <3>2. /\ Head(stack).call \in Message /\ Head(stack).call.id \in DOMAIN answers
          /\ Waiting(Head(stack).call.id)
      BY <1>2, <3>1, TopLeaves
    <3>3. PICK reply \in {"none", "return", "failed"} : ReplyOrVoid(Head(stack).call, reply)
      BY DEF Return, Replies
    <3>4. PICK a \in {"return", "failed"} : Replied(Head(stack).call, a)
      BY <3>3 DEF ReplyOrVoid
    <3>5. QED
      BY <2>2, <3>1, <3>2, <3>4 DEF Answer
  <2>4. ASSUME NEW path \in Paths, NEW member \in Members, Send(path, member) PROVE FALSE
    <3>1. answers' = Append(answers, <<>>) /\ answers \in Seq(Seq(Answer))
      BY <1>2, <2>4 DEF Send, CallsInv, RouteTypeOK
    <3>2. <<>> \in Seq(Answer)
      OBVIOUS
    <3>3. answers'[i] = answers[i]
      BY <3>1, <3>2, AppendElements
    <3>4. QED
      BY <2>1, <3>3
  <2>5. HandleMessage
    BY <1>2, <2>1, <2>3, <2>4 DEF RouteNext, Meanwhile, routeVars
  <2>6. /\ Head(inbox) \in Message /\ Head(inbox).id \in DOMAIN answers /\ Waiting(Head(inbox).id)
        /\ inbox # <<>> /\ up
    BY <1>2, <2>5, HeadLeaves DEF HandleMessage
  <2>7. Run(Head(inbox))
    <3>1. ASSUME NEW a \in Answer, Answered(Head(inbox), a), a # "does not exist" PROVE FALSE
      BY <2>2, <2>6, <3>1 DEF Answered
    <3>2. QED
      BY <2>1, <2>5, <3>1 DEF HandleMessage, HandleProperties, HandlePropertiesOther,
         HandleIntrospection, HandleOther, NotYetHandled, Answer
  <2>8. Datum(Head(inbox).to) = Null
    BY <2>1, <2>7 DEF Run
  <2>9. Head(inbox).to \in Paths
    BY <2>6 DEF Message
  <2>10. QED
    BY <1>1, <1>2, <2>8, <2>9
<1>3. CallsInv /\ RegIndInv /\ [RouteNext]_allVars =>
        [\A i \in DOMAIN answers :
           answers'[i] # answers[i] /\ "does not exist" \in ToSet(answers'[i])
             /\ ~Wrapped /\ Head(inbox).to[1] = "accessible"
           => \A life \in Meant(Head(inbox).to) :
                life[1] \notin alive \/ gen[life[1]] # life[2]]_allVars
  BY <1>2
<1>4. QED
  BY <1>3, CallsInvariant, RouteImplementsRegister, RegisterInvariant, PTL
  DEF RouteSpec, RefusedOnlyIfGone
=============================================================================
