------------------------------- MODULE DRoute -------------------------------
(***************************************************************************)
(* droute/droute.c: the calls of a D-Bus client are routed to the function *)
(* registered for them, with the object that the path stands for as its    *)
(* datum, and answered.  bridge.c registers two paths, the cache with      *)
(* droute_add_one and all accessibles with droute_add_many, whose datum is *)
(* looked up in the register.                                              *)
(*                                                                         *)
(* A function is toolkit code in the end (an action may open a dialog and  *)
(* run a main loop until it is closed), so while it runs objects come and  *)
(* go and other calls are dispatched: the running calls are a stack.       *)
(***************************************************************************)
EXTENDS Register, Sequences, SequencesExt

CONSTANTS
  Members,     \* what clients send, of those below
  MaxCalls,    \* bound: how many messages clients send
  MaxNesting   \* bound: how many functions run inside one another

(* "method" is a method that the path has, "nothing" one that it has not   *)
(* or a call that names no interface; "property" is a method of the        *)
(* Properties interface that is neither Get, Set nor GetAll.  Messages     *)
(* that are no calls are left alone (handle_message) and left out.         *)
Calls == {"method", "nothing", "Get", "Set", "GetAll", "property", "Introspect"}

ASSUME RouteAssumption ==
  /\ Members \in SUBSET Calls
  /\ MaxCalls \in Nat /\ MaxNesting \in Nat \ {0}

VARIABLES
  inbox,    \* messages the connection has yet to dispatch
  stack,    \* functions that are running, the innermost first
  answers,  \* history: answers[i] is how message i was answered
  up        \* the process has not crashed

routeVars == <<inbox, stack, answers, up>>
allVars == <<regVars, routeVars>>

Paths == {<<"cache", 0>>, <<"root", 0>>}
           \cup {<<"accessible", RefToPath(r)>> : r \in Ref}
Message == [id : 1 .. MaxCalls, to : Paths, member : Members]
Frame == [call : Message, datum : Life]
Answer == {"return", "failed", "does not exist", "unknown method"}

RouteTypeOK ==
  /\ RegTypeOK
  /\ inbox \in Seq(Message)
  /\ stack \in Seq(Frame)
  /\ answers \in Seq(Seq(Answer))
  /\ up \in BOOLEAN

RouteInit ==
  /\ RegInit
  /\ inbox = <<>> /\ stack = <<>> /\ answers = <<>>
  /\ up = TRUE

Known(path) ==
  path[1] = "accessible" =>
    \E r \in Ref : issued[r] # {} /\ path[2] = RefToPath(r)

\* A client uses a path it was given, however long ago.
Send(path, member) ==
  /\ up /\ Len(answers) < MaxCalls
  /\ Known(path)
  /\ inbox' = Append(inbox, [id |-> Len(answers) + 1, to |-> path, member |-> member])
  /\ answers' = Append(answers, <<>>)
  /\ UNCHANGED <<regVars, stack, up>>

-----------------------------------------------------------------------------
(* Dispatch *)

(* path_get_datum: spi_global_register_path_to_object for an accessible,   *)
(* else path->user_data, which droute_add_one leaves NULL.                 *)
Datum(path) ==
  CASE path[1] = "cache" -> Null
    [] path[1] = "root" -> Root
    [] path[1] = "accessible" -> PathToObject(path[2])

\* Only accessible paths have properties.
HasProperties(path) == path[1] # "cache"

Replied(call, answer) == answers' = [answers EXCEPT ![call.id] = Append(@, answer)]

Answered(call, answer) == Replied(call, answer) /\ UNCHANGED <<stack, up>>

\* droute_object_does_not_exist_error, or the function is called
Run(call) ==
  IF Datum(call.to) = Null
    THEN Answered(call, "does not exist")
    ELSE LET o == Datum(call.to) IN
         /\ stack' = <<[call |-> call, datum |-> <<o, gen[o]>>]>> \o stack
         /\ UNCHANGED <<answers, up>>

\* DBUS_HANDLER_RESULT_NOT_YET_HANDLED: libdbus answers.
NotYetHandled(call) == Answered(call, "unknown method")

HandleOther(call) ==
  \/ call.member = "method" /\ Run(call)
  \/ call.member = "nothing" /\ NotYetHandled(call)

(* handle_properties: GetAll looks for the datum first; Get and Set look   *)
(* at their arguments, the property and then the datum.                    *)
HandleProperties(call) ==
  \/ call.member = "GetAll" /\ Run(call)
  \/ call.member \in {"Get", "Set"} /\ HasProperties(call.to) /\ Run(call)
  \/ call.member \in {"Get", "Set"} /\ Answered(call, "failed")

(* For any other member reply is never set.  It may happen to be NULL; if  *)
(* it is not, whatever it points to is sent and released.                  *)
HandlePropertiesOther(call) ==
  /\ call.member = "property"
  /\ \/ NotYetHandled(call)
     \/ up' = FALSE /\ UNCHANGED <<stack, answers>>

HandleIntrospection(call) ==
  call.member = "Introspect" /\ Answered(call, "return")

\* handle_message, from the main loop or one that a function runs
HandleMessage ==
  /\ up
  /\ inbox # <<>> /\ Len(stack) < MaxNesting
  /\ inbox' = Tail(inbox)
  /\ LET call == Head(inbox) IN
       \/ HandleProperties(call) \/ HandlePropertiesOther(call)
       \/ HandleIntrospection(call)
       \/ HandleOther(call)
  /\ UNCHANGED regVars

-----------------------------------------------------------------------------
(* Mutant: a function that has no reply to give leaves its caller without  *)
(* one.                                                                    *)
ReplyOrVoidNone(call, reply) ==
  IF reply = "none" THEN UNCHANGED answers ELSE Replied(call, reply)

(* A method may give no reply, which is taken for a void return.  A setter *)
(* has no say in the answer.                                               *)
ReplyOrVoid(call, reply) ==
  Replied(call, IF reply = "none" THEN "return" ELSE reply)

\* "failed" stands for arguments or an object the function has no use for.
Replies(member) ==
  {"return"} \cup (IF member = "Set" THEN {} ELSE {"failed"})
             \cup (IF member = "method" THEN {"none"} ELSE {})

\* The innermost function returns.
Return ==
  /\ up /\ stack # <<>>
  /\ stack' = Tail(stack)
  /\ LET call == Head(stack).call IN
       \E reply \in Replies(call.member) : ReplyOrVoid(call, reply)
  /\ UNCHANGED <<regVars, inbox, up>>

-----------------------------------------------------------------------------
\* What the toolkit and the rest of the bridge do meanwhile.
Meanwhile ==
  /\ up
  /\ \E o \in Object : Create(o) \/ ObjectToPath(o) \/ Destroy(o)
  /\ UNCHANGED routeVars

RouteNext ==
  \/ \E path \in Paths, member \in Members : Send(path, member)
  \/ HandleMessage \/ Return
  \/ Meanwhile

RouteSpec == RouteInit /\ [][RouteNext]_allVars

-----------------------------------------------------------------------------
Waiting(i) ==
  \/ \E n \in DOMAIN inbox : inbox[n].id = i
  \/ \E n \in DOMAIN stack : stack[n].call.id = i

(* A call has no answer while it waits or runs, under however many others, *)
(* and has exactly one from then on, as long as the process lives.         *)
OneAnswer ==
  up => \A i \in DOMAIN answers : Len(answers[i]) = IF Waiting(i) THEN 0 ELSE 1

\* the lives the client may mean by a path
Meant(path) ==
  IF path[1] = "root" THEN {<<Root, gen[Root]>>}
  ELSE UNION {issued[r] : r \in {s \in Ref : RefToPath(s) = path[2]}}

(* A function is called on the very object its path was made for, and only *)
(* while that is alive, whatever was destroyed and allocated since.        *)
RunsOnNamedObject ==
  [][ \A f \in ToSet(stack') \ ToSet(stack) :
        ~Wrapped => f.datum[1] \in alive /\ Meant(f.call.to) = {f.datum} ]_allVars

(* A client is told that an accessible does not exist only if it does not. *)
RefusedOnlyIfGone ==
  [][ \A i \in DOMAIN answers :
        answers'[i] # answers[i] /\ "does not exist" \in ToSet(answers'[i])
          /\ ~Wrapped /\ Head(inbox).to[1] = "accessible"
        => \A life \in Meant(Head(inbox).to) :
             life[1] \notin alive \/ gen[life[1]] # life[2] ]_allVars

(* The object given to droute_add_one is there for the methods of its path *)
(* (droute-test.c:224, bridge.c:518).                                      *)
CacheReachable ==
  [][ inbox # <<>> /\ Head(inbox).to[1] = "cache" /\ inbox' = Tail(inbox) =>
        \A i \in DOMAIN answers :
          answers'[i] # answers[i] => "does not exist" \notin ToSet(answers'[i]) ]_allVars
=============================================================================
