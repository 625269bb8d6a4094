---------------------------- MODULE AdaptorCalls ----------------------------
(***************************************************************************)
(* A client's call to one of the adaptors: what the tables of the adaptors *)
(* (AdaptorMethods) make of what clients send, going by introspection      *)
(* (Announced) or by the client library (ClientStubs), and what becomes of *)
(* the references to the objects that the toolkit hands over on the way.   *)
(* A handler runs to its end before the main loop does anything else.      *)
(***************************************************************************)
EXTENDS AtkObjects, AdaptorMethods, Announced, ClientStubs,
        Integers, Sequences, FiniteSets

CONSTANTS
  Datum,         \* the toolkit's objects: what a path stands for
  Implemented,   \* Implemented[d]: the interfaces of ATK that d has
  Links,         \* those that are AtkHyperlinks, the rest are AtkObjects
  Applications,  \* those whose role is APPLICATION
  MaxLeases      \* bound on the leases of one object

ASSUME AdaptorAssumption ==
  /\ Null \notin Datum
  /\ MaxLeases \in Nat
  /\ Links \subseteq Datum

VARIABLES
  alive,    \* the objects that exist
  refs,     \* refs[d]: its reference count
  kept,     \* those to which the toolkit has a reference
  cached,   \* those in the cache
  leases,   \* leases[d]: its leases
  call,     \* <<d, op, interface, member, arguments>> being answered, or Null
  doing,    \* what the handler does with objects, as in AdaptorMethods
  given,    \* the object it has from the toolkit, or Null
  appended, \* whether that one is in the reply
  sent,     \* the objects whose references are in the reply
  outcome   \* <<kind, signature>> once the call is answered, or Null

objectVars == <<alive, refs, kept, cached, leases>>
callVars == <<call, doing, given, appended, sent, outcome>>
adaptorVars == <<alive, refs, kept, cached, leases,
                 call, doing, given, appended, sent, outcome>>

AdaptorInit ==
  /\ alive = {} /\ kept = {} /\ cached = {}
  /\ refs = [d \in Datum |-> 0] /\ leases = [d \in Datum |-> 0]
  /\ call = Null /\ doing = "nothing" /\ given = Null /\ appended = FALSE
  /\ sent = {} /\ outcome = Null

Kind == {"nothing", "returned", "listed", "linked", "borrowed", "targets", "examined"}

-----------------------------------------------------------------------------
(* What a call is answered with *)

OnlyAtk(d, interface) ==
  interface \notin {"Application", "Accessible", "Hyperlink"} /\ interface \in Implemented[d]

\* Mutant: get_hyperlink takes the AtkHyperlink only.
ServesLinksOnly(d, interface, member) ==
  \/ interface = "Application" \/ member = "GetApplication"
  \/ interface = "Accessible" /\ d \notin Links
  \/ interface = "Hyperlink" /\ d \in Links
  \/ OnlyAtk(d, interface)

\* the tests that a function begins with, and get_hyperlink
Serves(d, interface, member) ==
  \/ interface = "Application" \/ member = "GetApplication"
  \/ interface = "Accessible" /\ d \notin Links
  \/ /\ interface = "Hyperlink"
     /\ d \in Links \/ (member # "NAnchors" /\ "Hyperlink" \in Implemented[d])
  \/ OnlyAtk(d, interface)

(* dbus_message_get_args looks no further than the arguments it is asked   *)
(* for; a function that wants none does not call it.                       *)
Accepts(in, arguments) ==
  Len(in) <= Len(arguments) /\ \A i \in DOMAIN in : in[i] = arguments[i]

Rows(interface, member) == {r \in Methods[interface] : r[1] = member}
Getters(interface, member) == {p \in Properties[interface] : p[1] = member}

Outcome(kind, signature) == <<kind, signature>>

\* handle_other
CallResult(d, interface, member, arguments) ==
  IF Rows(interface, member) = {} \/ ~Serves(d, interface, member)
    THEN Outcome("unknown method", NoResult)
  ELSE LET r == CHOOSE x \in Rows(interface, member) : TRUE IN
       IF Accepts(r[2], arguments) THEN Outcome("reply", r[3])
       ELSE Outcome("invalid arguments", NoResult)

\* impl_prop_GetSet, to get
GetResult(d, interface, name) ==
  IF Getters(interface, name) = {} \/ ~Serves(d, interface, name)
    THEN Outcome("failed", NoResult)
  ELSE Outcome("reply", (CHOOSE p \in Getters(interface, name) : TRUE)[2])

(* impl_prop_GetAll does not look at what a getter returns: an entry that  *)
(* the getter has not written a value for has none.                        *)
GetAllResult(d, interface) ==
  IF \E p \in Properties[interface] : ~Serves(d, interface, p[1])
    THEN Outcome("malformed", "a{sv}") ELSE Outcome("reply", "a{sv}")

\* impl_prop_GetSet, to set: nor here at what the setter returns.
SetResult(interface, name) ==
  Outcome(IF <<interface, name>> \in Settable THEN "reply" ELSE "failed", NoResult)

Result(c) ==
  CASE c[2] = "call" -> CallResult(c[1], c[3], c[4], c[5])
    [] c[2] = "get" -> GetResult(c[1], c[3], c[4])
    [] c[2] = "getall" -> GetAllResult(c[1], c[3])
    [] OTHER -> SetResult(c[3], c[4])

\* what a function that gets as far as that does with objects
Doing(c) ==
  IF Result(c)[1] # "reply" \/ c[2] = "set" THEN "nothing"
  ELSE IF c[2] = "call" THEN (CHOOSE r \in Rows(c[3], c[4]) : TRUE)[4]
  ELSE IF c[2] = "get" THEN (CHOOSE p \in Getters(c[3], c[4]) : TRUE)[3]
  ELSE IF \E p \in Properties[c[3]] : p[3] # "nothing" THEN "targets" ELSE "nothing"

(* spi_object_append_interfaces.  Implemented has Document for a document, *)
(* which is listed as a Collection too.                                    *)
ListedInterfaces(d) ==
  {"Accessible"} \cup Implemented[d]
    \cup (IF d \in Applications THEN {"Application"} ELSE {})

-----------------------------------------------------------------------------
(* The toolkit, the cache and the leases between two calls *)

Free == call = Null

Ref(d) == refs' = [refs EXCEPT ![d] = @ + 1] /\ UNCHANGED <<alive, cached>>

\* The last reference takes the object with it, and out of the cache.
Unref(d) ==
  /\ refs' = [refs EXCEPT ![d] = @ - 1]
  /\ alive' = IF refs[d] = 1 THEN alive \ {d} ELSE alive
  /\ cached' = IF refs[d] = 1 THEN cached \ {d} ELSE cached

Make(d) ==
  /\ Free /\ d \notin alive
  /\ alive' = alive \cup {d} /\ refs' = [refs EXCEPT ![d] = 1] /\ kept' = kept \cup {d}
  /\ UNCHANGED <<cached, leases, callVars>>

Forget(d) ==
  /\ Free /\ d \in kept
  /\ kept' = kept \ {d} /\ Unref(d)
  /\ UNCHANGED <<leases, callVars>>

Cache(d) ==
  /\ Free /\ d \in alive /\ cached' = cached \cup {d}
  /\ UNCHANGED <<alive, refs, kept, leases, callVars>>

LeaseEnds(d) ==
  /\ Free /\ leases[d] > 0
  /\ leases' = [leases EXCEPT ![d] = @ - 1] /\ Unref(d)
  /\ UNCHANGED <<kept, callVars>>

-----------------------------------------------------------------------------
(* A call *)

MethodCalls(interface) ==
  {<<"call", interface, r[1], r[2]>> : r \in Methods[interface]}
    \cup {<<"call", interface, r[1], <<>>>> : r \in Methods[interface]}
PropertyCalls(interface) ==
  {<<"get", interface, p[1], <<"s", "s">>>> : p \in Properties[interface]}
    \cup {<<"set", interface, p[1], <<"s", "s", "v">>>> : p \in Properties[interface]}
    \cup {<<"getall", interface, "", <<"s">>>>}
AnnouncedCalls(interface) ==
  {<<"call", interface, r[1], r[2]>> : r \in Announced[interface].methods}
    \cup {<<"get", interface, p[1], <<"s", "s">>>> : p \in Announced[interface].properties}
StubCalls(interface) ==
  {<<s[1], interface, s[2], s[3]>> : s \in Stubs[interface]}

Requests ==
  UNION {MethodCalls(i) \cup PropertyCalls(i) \cup AnnouncedCalls(i) \cup StubCalls(i) :
           i \in Interface}

(* droute has found the object of the path.  A refusal, or a reply without *)
(* objects, is all that there is to the call.                              *)
Receive(d, q) ==
  /\ Free /\ d \in alive
  /\ call' = <<d, q[1], q[2], q[3], q[4]>>
  /\ doing' = Doing(call')
  /\ outcome' = IF doing' = "nothing" THEN Result(call') ELSE Null
  /\ UNCHANGED <<alive, refs, kept, cached, leases, given, appended, sent>>

Several == {"listed", "targets", "examined"}
Owned == {"returned", "listed", "examined"}
Released == Owned \cup {"linked"}

Asking == call # Null /\ outcome = Null /\ given = Null

\* The toolkit gives a reference to an object it has, or to a new one.
Hand(d) ==
  /\ Asking /\ doing \in Owned
  /\ IF d \in alive THEN Ref(d)
     ELSE alive' = alive \cup {d} /\ refs' = [refs EXCEPT ![d] = 1] /\ UNCHANGED cached
  /\ given' = d
  /\ UNCHANGED <<kept, leases, call, doing, appended, sent, outcome>>

\* The toolkit shows an object; GetLink takes a reference to it.
Show(d) ==
  /\ Asking /\ doing \in Kind \ (Owned \cup {"nothing"}) /\ d \in kept
  /\ IF doing = "linked" THEN Ref(d) ELSE UNCHANGED <<alive, refs, cached>>
  /\ given' = d
  /\ UNCHANGED <<kept, leases, call, doing, appended, sent, outcome>>

\* Mutant: the object is in the reply, but not leased.
AppendUnleased(d) ==
  /\ given = d /\ ~appended
  /\ appended' = TRUE /\ sent' = sent \cup {d}
  /\ UNCHANGED <<objectVars, call, doing, given, outcome>>

\* spi_object_append_reference, spi_hyperlink_append_reference
Refer(d) ==
  /\ given = d /\ ~appended /\ doing # "examined"
  /\ IF d \in cached THEN UNCHANGED <<refs, leases>>
     ELSE /\ leases[d] < MaxLeases
          /\ refs' = [refs EXCEPT ![d] = @ + 1]
          /\ leases' = [leases EXCEPT ![d] = @ + 1]
  /\ appended' = TRUE /\ sent' = sent \cup {d}
  /\ UNCHANGED <<alive, kept, cached, call, doing, given, outcome>>

Finished(kinds) ==
  IF doing \in kinds THEN UNCHANGED outcome ELSE outcome' = Result(call)

\* Mutant: GetLink's reference is not dropped.
DropAllButLinks(d) ==
  /\ given = d /\ (appended \/ doing = "examined")
  /\ IF doing \in Owned THEN Unref(d) ELSE UNCHANGED <<alive, refs, cached>>
  /\ given' = Null /\ appended' = FALSE /\ Finished(Several)
  /\ UNCHANGED <<kept, leases, call, doing, sent>>

\* The handler is done with the object.
Drop(d) ==
  /\ given = d /\ (appended \/ doing = "examined")
  /\ IF doing \in Released THEN Unref(d) ELSE UNCHANGED <<alive, refs, cached>>
  /\ given' = Null /\ appended' = FALSE /\ Finished(Several)
  /\ UNCHANGED <<kept, leases, call, doing, sent>>

\* There is no object, or no other: a null reference, or the end of the list.
NoMore ==
  /\ Asking /\ outcome' = Result(call)
  /\ UNCHANGED <<objectVars, call, doing, given, appended, sent>>

Reply ==
  /\ outcome # Null
  /\ call' = Null /\ doing' = "nothing" /\ sent' = {} /\ outcome' = Null
  /\ UNCHANGED <<objectVars, given, appended>>

ClientCalls == Free /\ \E d \in alive : \E q \in Requests : Receive(d, q)

AdaptorNext ==
  \/ \E d \in Datum : Make(d) \/ Forget(d) \/ Cache(d) \/ LeaseEnds(d)
  \/ ClientCalls
  \/ \E d \in Datum : Hand(d) \/ Show(d) \/ Refer(d) \/ Drop(d)
  \/ NoMore \/ Reply

AdaptorSpec == AdaptorInit /\ [][AdaptorNext]_adaptorVars

-----------------------------------------------------------------------------
AdaptorTypeOK ==
  /\ alive \subseteq Datum /\ kept \subseteq Datum /\ cached \subseteq Datum
  /\ refs \in [Datum -> Nat] /\ leases \in [Datum -> Nat]
  /\ doing \in Kind /\ given \in Datum \cup {Null}
  /\ appended \in BOOLEAN /\ sent \subseteq Datum

One(condition) == IF condition THEN 1 ELSE 0

(* Whatever a function does with the objects it is given, every reference  *)
(* is the toolkit's, a lease's or the one in the function's hand: none is  *)
(* dropped twice and none is left when the call has been answered.         *)
ReferencesAdd ==
  \A d \in Datum :
    /\ refs[d] = One(d \in kept) + leases[d] + One(given = d /\ doing \in Released)
    /\ d \in alive <=> refs[d] > 0

(* An object that a reply names exists when the reply is sent, and goes on *)
(* to: the toolkit has it or it is leased, though all that the function    *)
(* had was a reference which it has dropped, to an object it had just been *)
(* the first to ask for.                                                   *)
NamedObjectsLive ==
  \A d \in sent : d \in alive /\ (d \in cached \/ leases[d] > 0)

(* The interfaces an object says it has, by GetInterfaces or by being the  *)
(* hyperlink that GetLink returned.                                        *)
Offered(d) == IF d \in Links THEN {"Hyperlink"} ELSE ListedInterfaces(d)
AskedAsOffered == outcome # Null /\ call[3] \in Offered(call[1])

(* What introspection announces and the adaptors do otherwise: a result of *)
(* another type, a name in another case, a method that returns nothing.    *)
Differences ==
  {<<"Accessible", "GetIndexInParent">>, <<"Application", "GetLocale">>,
   <<"Component", "Contains">>, <<"Component", "GrabFocus">>,
   <<"Document", "GetAttributes">>, <<"Selection", "deSelectChild">>,
   <<"Text", "GetDefaultAttributeSet">>}

(* A client that goes by introspection gets, from every interface that an  *)
(* object has, a reply of the announced type to every announced method     *)
(* called with the announced arguments, except for seven.                  *)
AnnouncedIsAnswered ==
  AskedAsOffered /\ call[2] = "call" /\ <<call[3], call[4]>> \notin Differences =>
    \A r \in Announced[call[3]].methods :
      <<r[1], r[2]>> = <<call[4], call[5]>> => outcome = Outcome("reply", r[3])

(* A client that goes by introspection can read no property but the three  *)
(* numbers of selected children, rows and columns: the adaptors have all   *)
(* the others under names that begin with a capital.                       *)
AnnouncedPropertiesFail ==
  outcome # Null /\ call[2] = "get"
      /\ call[4] \in {p[1] : p \in Announced[call[3]].properties}
      /\ outcome[1] = "reply" =>
    call[4] \in {"NSelectedChildren", "NSelectedRows", "NSelectedColumns"}

(* An object that says it has an interface answers its methods and gives   *)
(* its properties, one by one and all at once; but the number of anchors   *)
(* is only to be had from an AtkHyperlink, not from an accessible that     *)
(* implements AtkHyperlinkImpl, whose GetAll has an entry with no value.   *)
OfferedIsServed ==
  AskedAsOffered /\ outcome[1] \in {"unknown method", "failed", "malformed"} =>
    \/ call[2] = "call" /\ Rows(call[3], call[4]) = {}
    \/ call[2] = "get" /\ Getters(call[3], call[4]) = {}
    \/ call[2] = "set" /\ <<call[3], call[4]>> \notin Settable
    \/ call[2] \in {"get", "getall"} /\ call[3] = "Hyperlink" /\ call[1] \notin Links
         /\ call[4] \in {"NAnchors", ""}

(* No call of a wrapper of the client library is answered with a reply:    *)
(* its names are those of the interfaces before this bridge, and the one   *)
(* that is still the same has arguments of another type.                   *)
StubsGoUnanswered ==
  outcome # Null
      /\ <<call[2], call[4], call[5]>> \in {<<s[1], s[2], s[3]>> : s \in Stubs[call[3]]} =>
    outcome[1] # "reply"

(* How far clients can rely on what they go by.  Introspection, kept by    *)
(* hand beside the tables of functions, is right for methods, but for      *)
(* seven, and for three properties; the client library's wrappers, written *)
(* for another bridge, are right for none.                                 *)
DescriptionsHold == AnnouncedIsAnswered /\ AnnouncedPropertiesFail /\ StubsGoUnanswered
=============================================================================
