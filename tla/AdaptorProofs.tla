---------------------------- MODULE AdaptorProofs ----------------------------
(***************************************************************************)
(* What holds of a call to an adaptor for every set of objects, whatever   *)
(* they implement and however many leases they have; then, from the        *)
(* section on trees on, what holds of a call to a collection for every     *)
(* tree, every rule and every count.                                       *)
(***************************************************************************)
EXTENDS Collection, AdaptorCalls, TLAPS

\* Between two calls, and once a call is answered, no handler has an object.
HandEmpty ==
  /\ call = Null => given = Null /\ sent = {}
  /\ outcome # Null => given = Null

(* What a handler has in hand exists, even where it has no reference to it *)
(* of its own: nobody else does anything before it is done.                *)
GivenLives == given # Null => given \in alive

(* The cache has no references.  What is in it is held by the toolkit or   *)
(* by a lease, never by a handler alone: it was held when the toolkit last *)
(* had its turn, and handlers take nothing away but what they took.        *)
CachedIsHeld == \A d \in cached : d \in kept \/ leases[d] > 0

AdaptorInv ==
  /\ AdaptorTypeOK
  /\ ReferencesAdd
  /\ HandEmpty
  /\ GivenLives
  /\ CachedIsHeld
  /\ NamedObjectsLive

-----------------------------------------------------------------------------
(* The tables *)

LEMMA KindsOfMethods ==
  ASSUME NEW i \in Interface, NEW r \in Methods[i]
  PROVE  r[4] \in Kind
<1> DEFINE Fine(S) == \A x \in S : x[4] \in Kind
<1>1. /\ Fine(AccessibleMethods) /\ Fine(AccessibleRoles) /\ Fine(AccessibleAbout)
      /\ Fine(ActionMethods) /\ Fine(ActionMethodsMore) /\ Fine(ApplicationMethods)
      /\ Fine(ComponentMethods) /\ Fine(ComponentMethodsMore) /\ Fine(DocumentMethods)
  BY DEF Method, Plain, Kind, AccessibleMethods, AccessibleRoles, AccessibleAbout,
       ActionMethods, ActionMethodsMore, ApplicationMethods, ComponentMethods,
       ComponentMethodsMore, DocumentMethods
<1>2. /\ Fine(EditableTextMethods) /\ Fine(EditableTextMethodsMore)
      /\ Fine(HyperlinkMethods) /\ Fine(HypertextMethods) /\ Fine(ImageMethods)
      /\ Fine(SelectionMethods) /\ Fine(SelectionMethodsMore)
  BY DEF Method, Plain, Kind, EditableTextMethods, EditableTextMethodsMore,
       HyperlinkMethods, HypertextMethods, ImageMethods, SelectionMethods,
       SelectionMethodsMore
<1>3. /\ Fine(TableCells) /\ Fine(TableExtents) /\ Fine(TableSelected)
      /\ Fine(TableSelection) /\ Fine(TableIndex)
  BY DEF Method, Plain, Kind, TableCells, TableExtents, TableSelected, TableSelection,
       TableIndex
<1>4. /\ Fine(TextReading) /\ Fine(TextAround) /\ Fine(TextAttributes)
      /\ Fine(TextPlaces) /\ Fine(TextSelection) /\ Fine(TextRanges)
  BY DEF Method, Plain, Kind, TextReading, TextAround, TextAttributes, TextPlaces,
       TextSelection, TextRanges
<1>5. QED
  BY <1>1, <1>2, <1>3, <1>4 DEF Interface, Methods

LEMMA KindsOfProperties ==
  ASSUME NEW i \in Interface, NEW p \in Properties[i]
  PROVE  p[3] \in Kind
BY DEF Interface, Methods, Properties, Property, Value, Kind, AccessibleProperties,
       ActionProperties, ApplicationProperties, HyperlinkProperties, ImageProperties,
       SelectionProperties, TableProperties, TextProperties, ValueProperties

\* What a call makes the handler do with objects is what a table says, or nothing.
LEMMA DoingKind ==
  ASSUME NEW c, c[3] \in Interface
  PROVE  Doing(c) \in Kind
<1>1. "nothing" \in Kind /\ "targets" \in Kind
  BY DEF Kind
<1>2. CASE Result(c)[1] = "reply" /\ c[2] = "call"
  <2>1. Rows(c[3], c[4]) # {}
    BY <1>2 DEF Result, CallResult, Outcome
  <2>2. (CHOOSE r \in Rows(c[3], c[4]) : TRUE) \in Methods[c[3]]
    BY <2>1 DEF Rows
  <2>3. QED
    BY <1>2, <2>2, KindsOfMethods DEF Doing
<1>3. CASE Result(c)[1] = "reply" /\ c[2] = "get"
  <2>1. Getters(c[3], c[4]) # {}
    BY <1>3 DEF Result, GetResult, Outcome
  <2>2. (CHOOSE p \in Getters(c[3], c[4]) : TRUE) \in Properties[c[3]]
    BY <2>1 DEF Getters
  <2>3. QED
    BY <1>3, <2>2, KindsOfProperties DEF Doing
<1>4. CASE Result(c)[1] # "reply" \/ c[2] \notin {"call", "get"}
  BY <1>1, <1>4 DEF Doing
<1>5. QED
  BY <1>2, <1>3, <1>4

LEMMA RequestInterface ==
  ASSUME NEW q \in Requests
  PROVE  q[2] \in Interface
<1>1. PICK i \in Interface :
        q \in MethodCalls(i) \cup PropertyCalls(i) \cup AnnouncedCalls(i) \cup StubCalls(i)
  BY DEF Requests
<1>2. CASE q \in MethodCalls(i)
  <2>1. \E x, y, z : q = <<x, i, y, z>>
    BY <1>2, Zenon DEF MethodCalls
  <2>2. QED
    BY ONLY <2>1, i \in Interface
<1>3. CASE q \in PropertyCalls(i)
  <2>1. \E x, y, z : q = <<x, i, y, z>>
    BY <1>3, Zenon DEF PropertyCalls
  <2>2. QED
    BY ONLY <2>1, i \in Interface
<1>4. CASE q \in AnnouncedCalls(i)
  BY <1>4 DEF AnnouncedCalls
<1>5. CASE q \in StubCalls(i)
  BY <1>5 DEF StubCalls
<1>6. QED
  BY <1>1, <1>2, <1>3, <1>4, <1>5

-----------------------------------------------------------------------------
LEMMA AdaptorInitially == AdaptorInit => AdaptorInv
<1> SUFFICES ASSUME AdaptorInit PROVE AdaptorInv
  OBVIOUS
<1>1. AdaptorTypeOK
  BY DEF AdaptorInit, AdaptorTypeOK, Kind
<1>2. ReferencesAdd
  BY AdaptorAssumption DEF AdaptorInit, ReferencesAdd, One
<1>3. HandEmpty /\ GivenLives /\ CachedIsHeld /\ NamedObjectsLive
  BY DEF AdaptorInit, HandEmpty, GivenLives, CachedIsHeld, NamedObjectsLive
<1>4. QED
  BY <1>1, <1>2, <1>3 DEF AdaptorInv

(* What the toolkit, the cache and the leases do between two calls.        *)
LEMMA BetweenCalls ==
  ASSUME AdaptorInv, NEW d \in Datum, Make(d) \/ Forget(d) \/ Cache(d) \/ LeaseEnds(d)
  PROVE  AdaptorInv'
<1> USE DEF AdaptorInv
<1>1. /\ call = Null /\ given = Null /\ sent = {}
      /\ UNCHANGED <<call, doing, given, appended, sent, outcome>>
  BY DEF HandEmpty, Make, Forget, Cache, LeaseEnds, Free, callVars
<1>2. d # Null /\ Null \notin Datum
  BY AdaptorAssumption
<1>3. AdaptorTypeOK' /\ ReferencesAdd'
  <2>1. CASE Make(d)
    BY <1>1, <1>2, <2>1 DEF Make, AdaptorTypeOK, ReferencesAdd, One
  <2>2. CASE Forget(d)
    BY <1>1, <1>2, <2>2 DEF Forget, Unref, AdaptorTypeOK, ReferencesAdd, One
  <2>3. CASE Cache(d)
    BY <1>1, <1>2, <2>3 DEF Cache, AdaptorTypeOK, ReferencesAdd, One
  <2>4. CASE LeaseEnds(d)
    BY <1>1, <1>2, <2>4 DEF LeaseEnds, Unref, AdaptorTypeOK, ReferencesAdd, One
  <2>5. QED
    BY <2>1, <2>2, <2>3, <2>4
<1>4. CachedIsHeld'
  <2>1. CASE Make(d)
    BY <2>1 DEF Make, AdaptorTypeOK, CachedIsHeld
  <2>2. CASE Forget(d)
    BY <1>1, <1>2, <2>2 DEF Forget, Unref, AdaptorTypeOK, ReferencesAdd, CachedIsHeld, One
  <2>3. CASE Cache(d)
    BY <1>1, <1>2, <2>3 DEF Cache, AdaptorTypeOK, ReferencesAdd, CachedIsHeld, One
  <2>4. CASE LeaseEnds(d)
    BY <1>1, <1>2, <2>4 DEF LeaseEnds, Unref, AdaptorTypeOK, ReferencesAdd, CachedIsHeld, One
  <2>5. QED
    BY <2>1, <2>2, <2>3, <2>4
<1>5. HandEmpty' /\ GivenLives' /\ NamedObjectsLive'
  BY <1>1, <1>2 DEF HandEmpty, GivenLives, NamedObjectsLive
<1>6. QED
  BY <1>3, <1>4, <1>5

\* A call comes in; it may be refused or answered at once.
LEMMA CallComesIn ==
  ASSUME AdaptorInv, NEW d \in Datum, NEW q \in Requests, Receive(d, q)
  PROVE  AdaptorInv'
<1> USE DEF AdaptorInv
<1>1. /\ call = Null /\ given = Null /\ sent = {}
      /\ UNCHANGED <<alive, refs, kept, cached, leases, given, appended, sent>>
  BY DEF Receive, HandEmpty, Free
<1>2. doing' \in Kind
  <2>1. q[2] \in Interface
    BY RequestInterface
  <2>2. call'[3] \in Interface /\ doing' = Doing(call')
    BY <2>1 DEF Receive
  <2>3. QED
    BY <2>2, DoingKind
<1>3. AdaptorTypeOK' /\ ReferencesAdd'
  BY <1>1, <1>2, AdaptorAssumption DEF AdaptorTypeOK, ReferencesAdd, One
<1>4. HandEmpty' /\ GivenLives' /\ CachedIsHeld' /\ NamedObjectsLive'
  BY <1>1 DEF HandEmpty, GivenLives, CachedIsHeld, NamedObjectsLive
<1>5. QED
  BY <1>3, <1>4

\* ATK gives the handler an object, with a reference or without.
LEMMA ObjectComes ==
  ASSUME AdaptorInv, NEW d \in Datum, Hand(d) \/ Show(d)
  PROVE  AdaptorInv'
<1> USE DEF AdaptorInv
<1>1. /\ call # Null /\ outcome = Null /\ given = Null /\ given' = d
      /\ UNCHANGED <<kept, leases, call, doing, appended, sent, outcome>>
  BY DEF Hand, Show, Asking
<1>2. d # Null /\ Null \notin Datum
  BY AdaptorAssumption
<1>3. /\ d \in alive' /\ cached' = cached /\ alive' = alive \cup {d}
      /\ refs' = [refs EXCEPT ![d] = IF doing \in Released THEN @ + 1 ELSE @]
  <2>1. CASE Hand(d) /\ d \in alive
    BY <2>1 DEF Hand, Ref, Released
  <2>2. CASE Hand(d) /\ d \notin alive
    <3>1. refs[d] = 0
      BY <2>2 DEF AdaptorTypeOK, ReferencesAdd
    <3>2. QED
      BY <2>2, <3>1 DEF Hand, Released, AdaptorTypeOK
  <2>3. CASE Show(d) /\ doing = "linked"
    <3>1. d \in alive
      BY <2>3 DEF Show, AdaptorTypeOK, ReferencesAdd, One
    <3>2. QED
      BY <2>3, <3>1 DEF Show, Ref, Released
  <2>4. CASE Show(d) /\ doing # "linked"
    <3>1. d \in alive
      BY <1>1, <1>2, <2>4 DEF Show, AdaptorTypeOK, ReferencesAdd, One
    <3>2. doing \notin Released
      BY <2>4 DEF Show, Released
    <3>3. QED
      BY <2>4, <3>1, <3>2 DEF Show, AdaptorTypeOK
  <2>5. QED
    BY <2>1, <2>2, <2>3, <2>4
<1>4. AdaptorTypeOK'
  BY <1>1, <1>3 DEF AdaptorTypeOK
<1>5. ASSUME NEW x \in Datum
      PROVE  /\ refs'[x] = One(x \in kept') + leases'[x]
                            + One(given' = x /\ doing' \in Released)
             /\ x \in alive' <=> refs'[x] > 0
  <2>1. /\ refs[x] = One(x \in kept) + leases[x] + One(given = x /\ doing \in Released)
        /\ x \in alive <=> refs[x] > 0
    BY DEF ReferencesAdd
  <2>2. given # x /\ refs \in [Datum -> Nat] /\ leases \in [Datum -> Nat]
    BY <1>1, <1>2 DEF AdaptorTypeOK
  <2>3. CASE x # d
    BY <1>1, <1>3, <2>1, <2>2, <2>3 DEF One
  <2>4. CASE x = d /\ doing \in Released
    BY <1>1, <1>3, <2>1, <2>2, <2>4 DEF One
  <2>5. CASE x = d /\ doing \notin Released
    <3>1. x \in kept
      BY <1>1, <2>5 DEF Hand, Show, Released
    <3>2. QED
      BY <1>1, <1>3, <2>1, <2>2, <2>5, <3>1 DEF One
  <2>6. QED
    BY <2>3, <2>4, <2>5
<1>6. HandEmpty' /\ GivenLives' /\ CachedIsHeld' /\ NamedObjectsLive'
  BY <1>1, <1>3 DEF HandEmpty, GivenLives, CachedIsHeld, NamedObjectsLive
<1>7. QED
  BY <1>4, <1>5, <1>6 DEF ReferencesAdd

\* The object is named in the reply and, if it is not in the cache, leased.
LEMMA ObjectIsNamed ==
  ASSUME AdaptorInv, NEW d \in Datum, Refer(d)
  PROVE  AdaptorInv'
<1> USE DEF AdaptorInv
<1>1. /\ given = d /\ d # Null /\ d \in alive /\ sent' = sent \cup {d}
      /\ UNCHANGED <<alive, kept, cached, call, doing, given, outcome>>
      /\ appended' = TRUE
  BY AdaptorAssumption DEF Refer, GivenLives
<1>2. call # Null
  BY <1>1 DEF HandEmpty
<1>3. CASE d \in cached
  <2>1. UNCHANGED <<refs, leases>>
    BY <1>3 DEF Refer
  <2>2. AdaptorTypeOK' /\ ReferencesAdd'
    BY <1>1, <2>1 DEF AdaptorTypeOK, ReferencesAdd
  <2>3. HandEmpty' /\ GivenLives' /\ CachedIsHeld' /\ NamedObjectsLive'
    BY <1>1, <1>2, <1>3, <2>1 DEF HandEmpty, GivenLives, CachedIsHeld, NamedObjectsLive
  <2>4. QED
    BY <2>2, <2>3
<1>4. CASE d \notin cached
  <2>1. /\ refs' = [refs EXCEPT ![d] = @ + 1]
        /\ leases' = [leases EXCEPT ![d] = @ + 1]
    BY <1>4 DEF Refer
  <2>2. AdaptorTypeOK' /\ ReferencesAdd'
    BY <1>1, <2>1 DEF AdaptorTypeOK, ReferencesAdd, One
  <2>3. HandEmpty' /\ GivenLives' /\ CachedIsHeld' /\ NamedObjectsLive'
    BY <1>1, <1>2, <1>4, <2>1
    DEF AdaptorTypeOK, HandEmpty, GivenLives, CachedIsHeld, NamedObjectsLive
  <2>4. QED
    BY <2>2, <2>3
<1>5. QED
  BY <1>3, <1>4

(* The handler gives its reference back.  What it leaves in the reply is   *)
(* leased, or cached and so held by somebody else: it is not the last one. *)
LEMMA ObjectIsDropped ==
  ASSUME AdaptorInv, NEW d \in Datum, Drop(d)
  PROVE  AdaptorInv'
<1> USE DEF AdaptorInv
<1>1. /\ given = d /\ d # Null /\ given' = Null /\ appended' = FALSE
      /\ UNCHANGED <<kept, leases, call, doing, sent>>
  BY AdaptorAssumption DEF Drop
<1>2. call # Null /\ outcome = Null /\ d \in alive
  BY <1>1 DEF HandEmpty, GivenLives
<1>3. CASE doing \in Released
  <2>1. Unref(d)
    BY <1>3 DEF Drop
  <2>2. /\ refs \in [Datum -> Nat] /\ leases \in [Datum -> Nat]
        /\ One(d \in kept) \in {0, 1}
        /\ refs[d] = One(d \in kept) + leases[d] + 1
    BY <1>1, <1>3 DEF ReferencesAdd, AdaptorTypeOK, One
  <2>3. refs[d] - 1 = One(d \in kept) + leases[d] /\ refs[d] - 1 \in Nat
    BY <2>2
  <2>4. refs' \in [Datum -> Nat]
    BY <2>1, <2>2, <2>3 DEF Unref
  <2>5. alive' \subseteq alive /\ cached' \subseteq cached
    BY <2>1 DEF Unref
  <2>6. AdaptorTypeOK'
    BY <1>1, <2>4, <2>5 DEF AdaptorTypeOK
  <2>7. refs'[d] = refs[d] - 1 /\ (d \in alive' <=> refs'[d] > 0)
    <3>1. refs'[d] = refs[d] - 1
      BY <2>1, <2>2 DEF Unref
    <3>2. d \in alive' <=> refs[d] # 1
      BY <1>2, <2>1 DEF Unref
    <3>3. QED
      BY ONLY <2>2, <2>3, <3>1, <3>2
  <2>8. ReferencesAdd'
    <3>1. SUFFICES ASSUME NEW x \in Datum
                   PROVE  /\ refs'[x] = One(x \in kept) + leases[x]
                          /\ x \in alive' <=> refs'[x] > 0
      BY <1>1, AdaptorAssumption DEF ReferencesAdd, One, AdaptorTypeOK
    <3>2. /\ refs[x] = One(x \in kept) + leases[x] + One(given = x /\ doing \in Released)
          /\ x \in alive <=> refs[x] > 0
      BY DEF ReferencesAdd
    <3>3. CASE x # d
      BY <1>1, <2>1, <2>2, <3>2, <3>3 DEF Unref, One
    <3>4. CASE x = d
      BY <2>3, <2>7, <3>4
    <3>5. QED
      BY <3>3, <3>4
  <2>9. CachedIsHeld' /\ NamedObjectsLive'
    BY <1>1, <2>1, <2>2
    DEF Unref, AdaptorTypeOK, CachedIsHeld, NamedObjectsLive, One
  <2>10. HandEmpty' /\ GivenLives'
    BY <1>1, <1>2 DEF HandEmpty, GivenLives
  <2>11. QED
    BY <2>6, <2>8, <2>9, <2>10
<1>4. CASE doing \notin Released
  <2>1. UNCHANGED <<alive, refs, cached>>
    BY <1>4 DEF Drop
  <2>2. AdaptorTypeOK' /\ ReferencesAdd'
    BY <1>1, <1>4, <2>1, AdaptorAssumption DEF AdaptorTypeOK, ReferencesAdd, One
  <2>3. HandEmpty' /\ GivenLives' /\ CachedIsHeld' /\ NamedObjectsLive'
    BY <1>1, <1>2, <2>1 DEF HandEmpty, GivenLives, CachedIsHeld, NamedObjectsLive
  <2>4. QED
    BY <2>2, <2>3
<1>5. QED
  BY <1>3, <1>4

\* There is nothing more to ask, or the reply goes out.
LEMMA CallEnds ==
  ASSUME AdaptorInv, NoMore \/ Reply
  PROVE  AdaptorInv'
<1> USE DEF AdaptorInv
<1>1. given = Null /\ UNCHANGED <<alive, refs, kept, cached, leases, given, appended>>
  BY DEF NoMore, Reply, Asking, objectVars, HandEmpty
<1>2. doing' \in Kind /\ (sent' = sent \/ sent' = {})
  BY DEF NoMore, Reply, AdaptorTypeOK, Kind
<1>3. AdaptorTypeOK'
  BY <1>1, <1>2 DEF AdaptorTypeOK
<1>4. ReferencesAdd'
  BY <1>1, AdaptorAssumption DEF ReferencesAdd, One
<1>5. HandEmpty'
  BY <1>1 DEF NoMore, Reply, Asking, HandEmpty
<1>6. GivenLives' /\ CachedIsHeld' /\ NamedObjectsLive'
  BY <1>1, <1>2 DEF GivenLives, CachedIsHeld, NamedObjectsLive
<1>7. QED
  BY <1>3, <1>4, <1>5, <1>6

-----------------------------------------------------------------------------
LEMMA AdaptorStep == AdaptorInv /\ [AdaptorNext]_adaptorVars => AdaptorInv'
<1> SUFFICES ASSUME AdaptorInv, [AdaptorNext]_adaptorVars PROVE AdaptorInv'
  OBVIOUS
<1>1. CASE UNCHANGED adaptorVars
  BY <1>1 DEF adaptorVars, AdaptorInv, AdaptorTypeOK, ReferencesAdd, HandEmpty, GivenLives,
       CachedIsHeld, NamedObjectsLive, One
<1>2. CASE AdaptorNext
  BY <1>2, BetweenCalls, CallComesIn, ObjectComes, ObjectIsNamed, ObjectIsDropped, CallEnds
  DEF AdaptorNext, ClientCalls, AdaptorInv, AdaptorTypeOK
<1>3. QED
  BY <1>1, <1>2

LEMMA AdaptorInvariant == AdaptorSpec => []AdaptorInv
<1>1. QED
  BY AdaptorInitially, AdaptorStep, PTL DEF AdaptorSpec

(* Every variable of a call to an adaptor has its type; that includes that *)
(* each row of the adaptors' tables says one of the seven things that a    *)
(* function may do with objects.                                           *)
THEOREM AdaptorTypeCorrect == AdaptorSpec => []AdaptorTypeOK
BY AdaptorInvariant, PTL DEF AdaptorInv

(* However many objects a function is given, in whatever way, every        *)
(* reference is accounted for at every moment of every call.               *)
THEOREM AdaptorReferencesAdd == AdaptorSpec => []ReferencesAdd
BY AdaptorInvariant, PTL DEF AdaptorInv

\* What a reply names lives when the handler has dropped its own reference.
THEOREM AdaptorNamedObjectsLive == AdaptorSpec => []NamedObjectsLive
BY AdaptorInvariant, PTL DEF AdaptorInv

-----------------------------------------------------------------------------
(* What a call is answered with *)

Understood(c) ==
  /\ c[2] \in {"call", "get", "getall", "set"} /\ c[3] \in Interface
  /\ c[2] = "getall" => c[4] = ""

(* A call is one of the four that droute has, to an interface that has a   *)
(* table, and the answer it has got is the one that this table makes of it.*)
AnswerInv ==
  /\ call # Null => Understood(call)
  /\ outcome # Null => Understood(call) /\ outcome = Result(call)

LEMMA StubsCallOrRead ==
  ASSUME NEW i \in Interface, NEW s \in Stubs[i]
  PROVE  s[1] \in {"call", "get"}
<1> DEFINE Fine(x) == x[1] \in {"call", "get"}
<1>1. /\ \A member, in, expects, after : Fine(Call(member, in, expects, after))
      /\ \A name, type : Fine(Read(name, type))
  BY DEF Call, Read
<1> HIDE DEF Fine
<1>2. \A x \in AccessibleStubs \cup ActionStubs \cup ApplicationStubs : Fine(x)
  BY <1>1, Zenon DEF AccessibleStubs, ActionStubs, ApplicationStubs
<1>3. \A x \in ComponentStubs \cup ComponentStubsMore : Fine(x)
  BY <1>1, Zenon DEF ComponentStubs, ComponentStubsMore
<1>4. \A x \in EditableTextStubs \cup EditableTextStubsMore : Fine(x)
  BY <1>1, Zenon DEF EditableTextStubs, EditableTextStubsMore
<1>5. \A x \in HyperlinkStubs \cup HypertextStubs \cup ImageStubs : Fine(x)
  BY <1>1, Zenon DEF HyperlinkStubs, HypertextStubs, ImageStubs
<1>6. \A x \in SelectionStubs \cup SelectionStubsMore : Fine(x)
  BY <1>1, Zenon DEF SelectionStubs, SelectionStubsMore
<1>7. \A x \in TablePropertyStubs \cup TableCellStubs \cup TableHeaderStubs : Fine(x)
  BY <1>1, Zenon DEF TablePropertyStubs, TableCellStubs, TableHeaderStubs
<1>8. \A x \in TableSelectedStubs \cup TableSelectionStubs \cup TableIndexStubs : Fine(x)
  BY <1>1, Zenon DEF TableSelectedStubs, TableSelectionStubs, TableIndexStubs
<1>9. \A x \in TextStubs \cup TextAroundStubs \cup TextPlaceStubs : Fine(x)
  BY <1>1, Zenon DEF TextStubs, TextAroundStubs, TextPlaceStubs
<1>10. \A x \in TextRangeStubs \cup TextSelectionStubs \cup TextAttributeStubs : Fine(x)
  BY <1>1, Zenon DEF TextRangeStubs, TextSelectionStubs, TextAttributeStubs
<1>11. \A x \in ValueStubs : Fine(x)
  BY <1>1, Zenon DEF ValueStubs
<1>12. Fine(s)
  BY <1>2, <1>3, <1>4, <1>5, <1>6, <1>7, <1>8, <1>9, <1>10, <1>11
  DEF Stubs, Interface, Methods
<1>13. QED
  BY <1>12 DEF Fine

\* what a request says first and third
Asks(q) ==
  q[1] \in {"call", "get", "getall", "set"} /\ (q[1] = "getall" => q[3] = "")

LEMMA RequestsAsk ==
  ASSUME NEW q \in Requests
  PROVE  Asks(q)
<1>1. PICK i \in Interface :
        q \in MethodCalls(i) \cup PropertyCalls(i) \cup AnnouncedCalls(i) \cup StubCalls(i)
  BY DEF Requests
<1>2. \A x, y, z : /\ Asks(<<"call", x, y, z>>) /\ Asks(<<"get", x, y, z>>)
                  /\ Asks(<<"set", x, y, z>>) /\ Asks(<<"getall", x, "", z>>)
  BY DEF Asks
<1> HIDE DEF Asks
<1>3. CASE q \in MethodCalls(i)
  BY <1>2, <1>3, Zenon DEF MethodCalls
<1>4. CASE q \in PropertyCalls(i)
  BY <1>2, <1>4, Zenon DEF PropertyCalls
<1>5. CASE q \in AnnouncedCalls(i)
  BY <1>2, <1>5, Zenon DEF AnnouncedCalls
<1>6. CASE q \in StubCalls(i)
  <2>1. PICK s \in Stubs[i] : q = <<s[1], i, s[2], s[3]>>
    BY <1>6, Zenon DEF StubCalls
  <2>2. s[1] = "call" \/ s[1] = "get"
    BY StubsCallOrRead
  <2>3. QED
    BY <1>2, <2>1, <2>2, Zenon
<1>7. QED
  BY <1>1, <1>3, <1>4, <1>5, <1>6

LEMMA RequestsUnderstood ==
  ASSUME NEW q \in Requests, NEW d
  PROVE  Understood(<<d, q[1], q[2], q[3], q[4]>>)
BY RequestsAsk, RequestInterface DEF Asks, Understood

LEMMA AnswerStep == HandEmpty /\ AnswerInv /\ [AdaptorNext]_adaptorVars => AnswerInv'
<1> SUFFICES ASSUME HandEmpty, AnswerInv, [AdaptorNext]_adaptorVars PROVE AnswerInv'
  OBVIOUS
<1>1. ASSUME NEW d \in alive, NEW q \in Requests, Receive(d, q)
      PROVE  AnswerInv'
  <2>1. Understood(call')
    BY <1>1, RequestsUnderstood DEF Receive
  <2>2. outcome' # Null => outcome' = Result(call')
    BY <1>1 DEF Receive
  <2>3. QED
    BY <2>1, <2>2 DEF AnswerInv
<1>2. ASSUME NEW d \in Datum, Drop(d)
      PROVE  AnswerInv'
  <2>1. call' = call /\ (outcome' = outcome \/ outcome' = Result(call))
    BY <1>2 DEF Drop, Finished
  <2>2. call # Null
    BY <1>2, AdaptorAssumption DEF Drop, HandEmpty
  <2>3. QED
    BY <2>1, <2>2 DEF AnswerInv
<1>3. CASE NoMore
  BY <1>3 DEF NoMore, Asking, AnswerInv
<1>4. CASE Reply
  BY <1>4 DEF Reply, AnswerInv
<1>5. ASSUME NEW d \in Datum,
             \/ Make(d) \/ Forget(d) \/ Cache(d) \/ LeaseEnds(d)
             \/ Hand(d) \/ Show(d) \/ Refer(d)
      PROVE  AnswerInv'
  <2>1. call' = call /\ outcome' = outcome
    BY <1>5 DEF Make, Forget, Cache, LeaseEnds, Hand, Show, Refer, callVars
  <2>2. QED
    BY <2>1 DEF AnswerInv
<1>6. CASE UNCHANGED adaptorVars
  BY <1>6 DEF adaptorVars, AnswerInv
<1>7. QED
  BY <1>1, <1>2, <1>3, <1>4, <1>5, <1>6 DEF AdaptorNext, ClientCalls

(* An object that offers an interface passes the tests of its functions,   *)
(* but for the number of anchors.                                          *)
LEMMA OfferedServes ==
  ASSUME NEW d, NEW i, i \in Offered(d), NEW m, ~Serves(d, i, m)
  PROVE  i = "Hyperlink" /\ d \notin Links /\ m = "NAnchors"
BY DEF Offered, ListedInterfaces, Serves, OnlyAtk

LEMMA NoSuchMethod == Rows("Hyperlink", "NAnchors") = {}
<1> DEFINE Other(r) == r[1] # "NAnchors"
<1>1. \A x, y, z : /\ Other(<<"GetObject", x, y, z>>) /\ Other(<<"GetURI", x, y, z>>)
                  /\ Other(<<"IsValid", x, y, z>>)
  OBVIOUS
<1> HIDE DEF Other
<1>2. \A r \in HyperlinkMethods : Other(r)
  BY <1>1, Zenon DEF HyperlinkMethods, Method, Plain
<1>3. Methods["Hyperlink"] = HyperlinkMethods
  BY DEF Methods
<1>4. QED
  BY <1>2, <1>3 DEF Rows, Other

(* The tables of AdaptorMethods, with the tests that their functions begin *)
(* with, serve whatever spi_object_append_interfaces lists: for all        *)
(* objects and whatever they implement.                                    *)
THEOREM AdaptorOfferedIsServed == AdaptorSpec => []OfferedIsServed
<1>1. AdaptorInit => AnswerInv
  BY DEF AdaptorInit, AnswerInv
<1>2. AnswerInv => OfferedIsServed
  <2>1. SUFFICES ASSUME AnswerInv, AskedAsOffered,
                        outcome[1] \in {"unknown method", "failed", "malformed"}
                 PROVE  \/ call[2] = "call" /\ Rows(call[3], call[4]) = {}
                        \/ call[2] = "get" /\ Getters(call[3], call[4]) = {}
                        \/ call[2] = "set" /\ <<call[3], call[4]>> \notin Settable
                        \/ /\ call[2] \in {"get", "getall"} /\ call[3] = "Hyperlink"
                           /\ call[1] \notin Links /\ call[4] \in {"NAnchors", ""}
    BY DEF OfferedIsServed
  <2>2. outcome = Result(call) /\ Understood(call) /\ call[3] \in Offered(call[1])
    BY <2>1 DEF AnswerInv, AskedAsOffered
  <2>3. CASE call[2] = "call"
    <3>1. outcome = CallResult(call[1], call[3], call[4], call[5])
      BY <2>2, <2>3 DEF Result
    <3>2. Rows(call[3], call[4]) = {} \/ ~Serves(call[1], call[3], call[4])
      BY <2>1, <3>1 DEF CallResult, Outcome
    <3>3. QED
      BY <2>2, <2>3, <3>2, OfferedServes, NoSuchMethod
  <2>4. CASE call[2] = "get"
    <3>1. outcome = GetResult(call[1], call[3], call[4])
      BY <2>2, <2>4 DEF Result
    <3>2. Getters(call[3], call[4]) = {} \/ ~Serves(call[1], call[3], call[4])
      BY <2>1, <3>1 DEF GetResult, Outcome
    <3>3. QED
      BY <2>2, <2>4, <3>2, OfferedServes
  <2>5. CASE call[2] = "getall"
    <3>1. outcome = GetAllResult(call[1], call[3])
      BY <2>2, <2>5 DEF Result
    <3>2. PICK p \in Properties[call[3]] : ~Serves(call[1], call[3], p[1])
      BY <2>1, <3>1 DEF GetAllResult, Outcome
    <3>3. QED
      BY <2>2, <2>5, <3>2, OfferedServes DEF Understood
  <2>6. CASE call[2] = "set"
    <3>1. outcome = SetResult(call[3], call[4])
      BY <2>2, <2>6 DEF Result
    <3>2. QED
      BY <2>1, <2>6, <3>1 DEF SetResult, Outcome
  <2>7. QED
    BY <2>2, <2>3, <2>4, <2>5, <2>6 DEF Understood
<1>3. QED
  BY <1>1, <1>2, AnswerStep, AdaptorInvariant, PTL DEF AdaptorSpec, AdaptorInv

-----------------------------------------------------------------------------
(* What clients go by, against the tables *)

(* Every row of A, but for the names in D, has a row of T of its name, and *)
(* all that T has of its name take and return the same.                    *)
Agree(A, T, D) ==
  \A r \in A : r[1] \notin D =>
    /\ \E m \in T : m[1] = r[1]
    /\ \A m \in T : m[1] = r[1] => m[2] = r[2] /\ m[3] = r[3]

LEMMA SmallTablesAgree ==
  /\ Agree(AnnouncedAction.methods, ActionMethods \cup ActionMethodsMore, {})
  /\ Agree(AnnouncedApplication.methods, ApplicationMethods, {"GetLocale"})
  /\ Agree(AnnouncedDocument.methods, DocumentMethods, {"GetAttributes"})
  /\ Agree(AnnouncedEditableText.methods,
           EditableTextMethods \cup EditableTextMethodsMore, {})
  /\ Agree(AnnouncedHyperlink.methods, HyperlinkMethods, {})
  /\ Agree(AnnouncedHypertext.methods, HypertextMethods, {})
  /\ Agree(AnnouncedImage.methods, ImageMethods, {})
  /\ Agree(AnnouncedValue.methods, {}, {})
<1> USE DEF Agree, Method, Plain
<1>1. Agree(AnnouncedAction.methods, ActionMethods \cup ActionMethodsMore, {})
  BY DEF AnnouncedAction, ActionMethods, ActionMethodsMore
<1>2. Agree(AnnouncedApplication.methods, ApplicationMethods, {"GetLocale"})
  BY DEF AnnouncedApplication
<1>3. Agree(AnnouncedDocument.methods, DocumentMethods, {"GetAttributes"})
  BY DEF AnnouncedDocument, DocumentMethods
<1>4. Agree(AnnouncedEditableText.methods,
            EditableTextMethods \cup EditableTextMethodsMore, {})
  BY DEF AnnouncedEditableText, EditableTextMethods, EditableTextMethodsMore
<1>5. Agree(AnnouncedHyperlink.methods, HyperlinkMethods, {})
  BY DEF AnnouncedHyperlink, HyperlinkMethods
<1>6. Agree(AnnouncedHypertext.methods, HypertextMethods, {})
  BY DEF AnnouncedHypertext, HypertextMethods
<1>7. Agree(AnnouncedImage.methods, ImageMethods, {})
  BY DEF AnnouncedImage, ImageMethods
<1>8. Agree(AnnouncedValue.methods, {}, {})
  BY DEF AnnouncedValue
<1>9. QED
  BY <1>1, <1>2, <1>3, <1>4, <1>5, <1>6, <1>7, <1>8

LEMMA AccessibleAgrees ==
  Agree(AnnouncedAccessible.methods,
        AccessibleMethods \cup AccessibleRoles \cup AccessibleAbout, {"GetIndexInParent"})
BY DEF Agree, Method, Plain, AnnouncedAccessible, AccessibleMethods, AccessibleRoles,
       AccessibleAbout

LEMMA ComponentAgrees ==
  Agree(AnnouncedComponent.methods,
        ComponentMethods \cup ComponentMethodsMore, {"Contains", "GrabFocus"})
BY DEF Agree, Method, Plain, AnnouncedComponent, ComponentMethods, ComponentMethodsMore

LEMMA SelectionAgrees ==
  Agree(AnnouncedSelection.methods,
        SelectionMethods \cup SelectionMethodsMore, {"deSelectChild"})
BY DEF Agree, Method, Plain, AnnouncedSelection, SelectionMethods, SelectionMethodsMore

LEMMA TableAgrees ==
  Agree(AnnouncedTable.methods,
        TableCells \cup TableExtents \cup TableSelected \cup TableSelection
          \cup TableIndex, {})
BY DEF Agree, Method, Plain, AnnouncedTable, TableCells, TableExtents, TableSelected,
       TableSelection, TableIndex

LEMMA TextAgrees ==
  Agree(AnnouncedText.methods,
        TextReading \cup TextAround \cup TextAttributes \cup TextPlaces
          \cup TextSelection \cup TextRanges, {"GetDefaultAttributeSet"})
BY DEF Agree, Method, Plain, AnnouncedText, TextReading, TextAround, TextAttributes,
       TextPlaces, TextSelection, TextRanges

LEMMA AnnouncedMethodsAgree ==
  ASSUME NEW i \in Interface, NEW r \in Announced[i].methods,
         <<i, r[1]>> \notin Differences
  PROVE  /\ \E m \in Methods[i] : m[1] = r[1]
         /\ \A m \in Methods[i] : m[1] = r[1] => m[2] = r[2] /\ m[3] = r[3]
<1>1. CASE i = "Accessible"
  BY <1>1, AccessibleAgrees DEF Agree, Announced, Methods, Differences
<1>2. CASE i = "Action"
  BY <1>2, SmallTablesAgree DEF Agree, Announced, Methods
<1>3. CASE i = "Application"
  BY <1>3, SmallTablesAgree DEF Agree, Announced, Methods, Differences
<1>4. CASE i = "Component"
  BY <1>4, ComponentAgrees DEF Agree, Announced, Methods, Differences
<1>5. CASE i = "Document"
  BY <1>5, SmallTablesAgree DEF Agree, Announced, Methods, Differences
<1>6. CASE i = "EditableText"
  BY <1>6, SmallTablesAgree DEF Agree, Announced, Methods
<1>7. CASE i \in {"Hyperlink", "Hypertext", "Image", "Value"}
  BY <1>7, SmallTablesAgree DEF Agree, Announced, Methods
<1>8. CASE i = "Selection"
  BY <1>8, SelectionAgrees DEF Agree, Announced, Methods, Differences
<1>9. CASE i = "Table"
  BY <1>9, TableAgrees DEF Agree, Announced, Methods
<1>10. CASE i = "Text"
  BY <1>10, TextAgrees DEF Agree, Announced, Methods, Differences
<1>11. QED
  BY <1>1, <1>2, <1>3, <1>4, <1>5, <1>6, <1>7, <1>8, <1>9, <1>10 DEF Interface, Methods

LEMMA AnnouncedPropertiesAreNone ==
  ASSUME NEW i \in Interface, NEW a \in Announced[i].properties,
         NEW p \in Properties[i], p[1] = a[1]
  PROVE  a[1] \in {"NSelectedChildren", "NSelectedRows", "NSelectedColumns"}
<1> USE DEF Properties, Property, Value
<1>1. CASE i = "Accessible"
  BY <1>1 DEF Announced, AnnouncedAccessible, AccessibleProperties
<1>2. CASE i = "Action"
  BY <1>2 DEF Announced, AnnouncedAction, ActionProperties
<1>3. CASE i = "Application"
  BY <1>3 DEF Announced, AnnouncedApplication, ApplicationProperties
<1>4. CASE i = "Hyperlink"
  BY <1>4 DEF Announced, AnnouncedHyperlink, HyperlinkProperties
<1>5. CASE i = "Image"
  BY <1>5 DEF Announced, AnnouncedImage, ImageProperties
<1>6. CASE i = "Selection"
  BY <1>6 DEF Announced, AnnouncedSelection
<1>7. CASE i = "Table"
  BY <1>7 DEF Announced, AnnouncedTable, TableProperties
<1>8. CASE i = "Text"
  BY <1>8 DEF Announced, AnnouncedText, TextProperties
<1>9. CASE i = "Value"
  BY <1>9 DEF Announced, AnnouncedValue, ValueProperties
<1>10. CASE i \in {"Component", "Document", "EditableText", "Hypertext"}
  BY <1>10
<1>11. QED
  BY <1>1, <1>2, <1>3, <1>4, <1>5, <1>6, <1>7, <1>8, <1>9, <1>10 DEF Interface, Methods


(* No name in S, the wrappers', is one in T, the methods', or in P, the    *)
(* properties', of the kind that it is sent for, but for those in D.       *)
Strange(S, T, P, D) ==
  \A s \in S : /\ s[1] = "call" => s[2] \in D \/ \A m \in T : m[1] # s[2]
               /\ s[1] = "get" => \A p \in P : p[1] # s[2]

LEMMA SmallStubsAreStrange ==
  /\ Strange(AccessibleStubs, Methods["Accessible"], AccessibleProperties, {})
  /\ Strange(ActionStubs, Methods["Action"], ActionProperties, {})
  /\ Strange(ApplicationStubs, Methods["Application"], ApplicationProperties, {})
  /\ Strange(Stubs["Component"], Methods["Component"], {}, {"contains"})
  /\ Strange(Stubs["EditableText"], Methods["EditableText"], {}, {})
  /\ Strange(HyperlinkStubs, Methods["Hyperlink"], HyperlinkProperties, {})
  /\ Strange(HypertextStubs, Methods["Hypertext"], {}, {})
  /\ Strange(ImageStubs, Methods["Image"], ImageProperties, {})
  /\ Strange(Stubs["Selection"], Methods["Selection"], SelectionProperties, {})
  /\ Strange(ValueStubs, {}, ValueProperties, {})
<1> USE DEF Strange, Method, Plain, Call, Read, Property, Value
<1>1. Strange(AccessibleStubs, AccessibleMethods \cup AccessibleRoles \cup AccessibleAbout,
              AccessibleProperties, {})
  BY DEF AccessibleStubs, AccessibleMethods, AccessibleRoles, AccessibleAbout,
         AccessibleProperties
<1>2. Strange(ActionStubs, ActionMethods \cup ActionMethodsMore, ActionProperties, {})
  BY DEF ActionStubs, ActionMethods, ActionMethodsMore, ActionProperties
<1>3. Strange(ApplicationStubs, ApplicationMethods, ApplicationProperties, {})
  BY DEF ApplicationStubs, ApplicationMethods, ApplicationProperties
<1>4. Strange(ComponentStubs \cup ComponentStubsMore,
              ComponentMethods \cup ComponentMethodsMore, {}, {"contains"})
  BY DEF ComponentStubs, ComponentStubsMore, ComponentMethods, ComponentMethodsMore
<1>5. Strange(EditableTextStubs \cup EditableTextStubsMore,
              EditableTextMethods \cup EditableTextMethodsMore, {}, {})
  BY DEF EditableTextStubs, EditableTextStubsMore, EditableTextMethods,
         EditableTextMethodsMore
<1>6. Strange(HyperlinkStubs, HyperlinkMethods, HyperlinkProperties, {})
  BY DEF HyperlinkStubs, HyperlinkMethods, HyperlinkProperties
<1>7. Strange(HypertextStubs, HypertextMethods, {}, {})
  BY DEF HypertextStubs, HypertextMethods
<1>8. Strange(ImageStubs, ImageMethods, ImageProperties, {})
  BY DEF ImageStubs, ImageMethods, ImageProperties
<1>9. Strange(SelectionStubs \cup SelectionStubsMore,
              SelectionMethods \cup SelectionMethodsMore, SelectionProperties, {})
  BY DEF SelectionStubs, SelectionStubsMore, SelectionMethods, SelectionMethodsMore,
         SelectionProperties
<1>10. Strange(ValueStubs, {}, ValueProperties, {})
  BY DEF ValueStubs, ValueProperties
<1> HIDE DEF Strange
<1>11. QED
  BY <1>1, <1>2, <1>3, <1>4, <1>5, <1>6, <1>7, <1>8, <1>9, <1>10 DEF Methods, Stubs

LEMMA TableStubsAreStrange ==
  Strange(TablePropertyStubs \cup TableCellStubs \cup TableHeaderStubs
            \cup TableSelectedStubs \cup TableSelectionStubs \cup TableIndexStubs,
          TableCells \cup TableExtents \cup TableSelected \cup TableSelection
            \cup TableIndex, TableProperties, {})
BY DEF Strange, Method, Plain, Call, Read, Property, Value, TableProperties,
       TablePropertyStubs, TableCellStubs, TableHeaderStubs, TableSelectedStubs,
       TableSelectionStubs, TableIndexStubs, TableCells, TableExtents, TableSelected,
       TableSelection, TableIndex

LEMMA TextStubsAreStrange ==
  Strange(TextStubs \cup TextAroundStubs \cup TextPlaceStubs
            \cup TextRangeStubs \cup TextSelectionStubs \cup TextAttributeStubs,
          TextReading \cup TextAround \cup TextAttributes \cup TextPlaces
            \cup TextSelection \cup TextRanges, TextProperties, {})
BY DEF Strange, Method, Plain, Call, Read, Property, Value, TextProperties,
       TextStubs, TextAroundStubs, TextPlaceStubs, TextRangeStubs, TextSelectionStubs,
       TextAttributeStubs, TextReading, TextAround, TextAttributes, TextPlaces,
       TextSelection, TextRanges


LEMMA StubsAreStrange ==
  ASSUME NEW i \in Interface, NEW s \in Stubs[i]
  PROVE  /\ s[1] = "call" => \/ \A m \in Methods[i] : m[1] # s[2]
                             \/ i = "Component" /\ s[2] = "contains"
         /\ s[1] = "get" => \A p \in Properties[i] : p[1] # s[2]
<1>1. CASE i = "Table"
  BY <1>1, TableStubsAreStrange DEF Strange, Stubs, Methods, Properties
<1>2. CASE i = "Text"
  BY <1>2, TextStubsAreStrange DEF Strange, Stubs, Methods, Properties
<1>3. CASE i = "Component"
  BY <1>3, SmallStubsAreStrange DEF Strange, Properties
<1>4. CASE i \in {"EditableText", "Selection"}
  BY <1>4, SmallStubsAreStrange DEF Strange, Properties
<1>5. CASE i \in {"Accessible", "Action", "Application"}
  BY <1>5, SmallStubsAreStrange DEF Strange, Stubs, Properties
<1>6. CASE i \in {"Hyperlink", "Hypertext", "Image"}
  BY <1>6, SmallStubsAreStrange DEF Strange, Stubs, Properties
<1>7. CASE i \in {"Document", "Value"}
  BY <1>7, SmallStubsAreStrange DEF Strange, Stubs, Methods, Properties
<1>8. QED
  BY <1>1, <1>2, <1>3, <1>4, <1>5, <1>6, <1>7 DEF Interface, Methods

\* The wrapper of contains sends its coordinates' type as another number.
LEMMA ContainsIsRefused ==
  ASSUME NEW s \in Stubs["Component"], s[1] = "call", s[2] = "contains",
         NEW m \in Methods["Component"], m[1] = s[2]
  PROVE  ~Accepts(m[2], s[3])
<1>1. s[3] = <<"i", "i", "n">>
  BY DEF Stubs, ComponentStubs, ComponentStubsMore, Call
<1>2. m[2] = <<"i", "i", "u">>
  BY DEF Methods, ComponentMethods, ComponentMethodsMore, Method, Plain
<1>3. QED
  BY <1>1, <1>2 DEF Accepts

LEMMA AcceptsItself ==
  ASSUME NEW s, NEW t, t = s, Len(s) \in Nat
  PROVE  Accepts(t, s)
BY DEF Accepts

\* Every announced method has a sequence of types for its arguments.
LEMMA AnnouncedSignatures ==
  ASSUME NEW i \in Interface, NEW r \in Announced[i].methods
  PROVE  Len(r[2]) \in Nat
<1> DEFINE Fine(A) == \A x \in A : Len(x[2]) \in Nat
<1>1. Fine(AnnouncedText.methods)
  BY DEF AnnouncedText
<1>2. Fine(AnnouncedTable.methods)
  BY DEF AnnouncedTable
<1>3. Fine(AnnouncedAccessible.methods) /\ Fine(AnnouncedAction.methods)
  BY DEF AnnouncedAccessible, AnnouncedAction
<1>4. Fine(AnnouncedApplication.methods) /\ Fine(AnnouncedComponent.methods)
  BY DEF AnnouncedApplication, AnnouncedComponent
<1>5. Fine(AnnouncedDocument.methods) /\ Fine(AnnouncedEditableText.methods)
  BY DEF AnnouncedDocument, AnnouncedEditableText
<1>6. Fine(AnnouncedHyperlink.methods) /\ Fine(AnnouncedHypertext.methods)
  BY DEF AnnouncedHyperlink, AnnouncedHypertext
<1>7. Fine(AnnouncedImage.methods) /\ Fine(AnnouncedSelection.methods)
  BY DEF AnnouncedImage, AnnouncedSelection
<1>8. Fine(AnnouncedValue.methods)
  BY DEF AnnouncedValue
<1>9. QED
  BY <1>1, <1>2, <1>3, <1>4, <1>5, <1>6, <1>7, <1>8 DEF Announced, Interface, Methods


LEMMA AnnouncedCallAnswered ==
  ASSUME NEW d, NEW i \in Interface, i \in Offered(d),
         NEW r \in Announced[i].methods, <<i, r[1]>> \notin Differences
  PROVE  CallResult(d, i, r[1], r[2]) = Outcome("reply", r[3])
<1>1. /\ Rows(i, r[1]) # {}
      /\ \A m \in Rows(i, r[1]) : m[2] = r[2] /\ m[3] = r[3]
  BY AnnouncedMethodsAgree DEF Rows
<1>2. PICK m : m = CHOOSE x \in Rows(i, r[1]) : TRUE
  OBVIOUS
<1>3. m \in Rows(i, r[1]) /\ m[2] = r[2] /\ m[3] = r[3]
  BY <1>1, <1>2
<1>4. Serves(d, i, r[1])
  <2>1. r[1] # "NAnchors" \/ i # "Hyperlink"
    BY <1>1, NoSuchMethod
  <2>2. QED
    BY <2>1, OfferedServes
<1>5. Accepts(m[2], r[2])
  BY <1>3, AnnouncedSignatures, AcceptsItself
<1>6. QED
  BY <1>1, <1>2, <1>3, <1>4, <1>5 DEF CallResult

LEMMA AnnouncedPropertyFails ==
  ASSUME NEW d, NEW i \in Interface, NEW a \in Announced[i].properties,
         GetResult(d, i, a[1])[1] = "reply"
  PROVE  a[1] \in {"NSelectedChildren", "NSelectedRows", "NSelectedColumns"}
<1>1. Getters(i, a[1]) # {}
  BY DEF GetResult, Outcome
<1>2. PICK p \in Properties[i] : p[1] = a[1]
  BY <1>1 DEF Getters
<1>3. QED
  BY <1>2, AnnouncedPropertiesAreNone

LEMMA StubUnanswered ==
  ASSUME NEW d, NEW i \in Interface, NEW s \in Stubs[i]
  PROVE  /\ s[1] = "call" => CallResult(d, i, s[2], s[3])[1] # "reply"
         /\ s[1] = "get" => GetResult(d, i, s[2])[1] # "reply"
<1>1. ASSUME s[1] = "call", CallResult(d, i, s[2], s[3])[1] = "reply"
      PROVE  FALSE
  <2>1. Rows(i, s[2]) # {}
    BY <1>1 DEF CallResult, Outcome
  <2>2. PICK m : m = CHOOSE x \in Rows(i, s[2]) : TRUE
    OBVIOUS
  <2>3. m \in Methods[i] /\ m[1] = s[2]
    BY <2>1, <2>2 DEF Rows
  <2>4. Accepts(m[2], s[3])
    BY <1>1, <2>2 DEF CallResult, Outcome
  <2>5. i = "Component" /\ s[2] = "contains"
    BY <1>1, <2>3, StubsAreStrange
  <2>6. QED
    BY <1>1, <2>3, <2>4, <2>5, ContainsIsRefused
<1>2. ASSUME s[1] = "get", GetResult(d, i, s[2])[1] = "reply"
      PROVE  FALSE
  <2>1. Getters(i, s[2]) # {}
    BY <1>2 DEF GetResult, Outcome
  <2>2. QED
    BY <1>2, <2>1, StubsAreStrange DEF Getters
<1>3. QED
  BY <1>1, <1>2

(* What introspection announces and the wrappers expect, against the       *)
(* tables of the adaptors, for all objects and whatever they implement:    *)
(* methods are as announced but for seven, properties but for three are    *)
(* not, and no wrapper is answered.                                        *)
THEOREM AdaptorDescriptionsHold == AdaptorSpec => []DescriptionsHold
<1>1. AdaptorInit => AnswerInv
  BY DEF AdaptorInit, AnswerInv
<1>2. AnswerInv => DescriptionsHold
  <2>1. SUFFICES ASSUME AnswerInv, outcome # Null PROVE DescriptionsHold
    BY DEF DescriptionsHold, AnnouncedIsAnswered, AnnouncedPropertiesFail,
           StubsGoUnanswered, AskedAsOffered
  <2>2. outcome = Result(call) /\ call[3] \in Interface
    BY <2>1 DEF AnswerInv, Understood
  <2>3. AnnouncedIsAnswered
    <3>1. SUFFICES ASSUME call[3] \in Offered(call[1]), call[2] = "call",
                          <<call[3], call[4]>> \notin Differences,
                          NEW r \in Announced[call[3]].methods,
                          <<r[1], r[2]>> = <<call[4], call[5]>>
                   PROVE  outcome = Outcome("reply", r[3])
      BY DEF AnnouncedIsAnswered, AskedAsOffered
    <3>2. r[1] = call[4] /\ r[2] = call[5]
      BY <3>1
    <3>3. outcome = CallResult(call[1], call[3], r[1], r[2])
      BY <2>2, <3>1, <3>2 DEF Result
    <3>4. QED
      BY <2>2, <3>1, <3>2, <3>3, AnnouncedCallAnswered
  <2>4. AnnouncedPropertiesFail
    <3>1. SUFFICES ASSUME call[2] = "get", outcome[1] = "reply",
                          NEW a \in Announced[call[3]].properties, call[4] = a[1]
                   PROVE  a[1] \in {"NSelectedChildren", "NSelectedRows",
                                    "NSelectedColumns"}
      BY DEF AnnouncedPropertiesFail
    <3>2. outcome = GetResult(call[1], call[3], a[1])
      BY <2>2, <3>1 DEF Result
    <3>3. QED
      BY <2>2, <3>1, <3>2, AnnouncedPropertyFails
  <2>5. StubsGoUnanswered
    <3>1. SUFFICES ASSUME NEW s \in Stubs[call[3]],
                          <<call[2], call[4], call[5]>> = <<s[1], s[2], s[3]>>
                   PROVE  outcome[1] # "reply"
      BY DEF StubsGoUnanswered
    <3>2. call[2] = s[1] /\ call[4] = s[2] /\ call[5] = s[3]
      BY <3>1
    <3>3. CASE s[1] = "call"
      BY <2>2, <3>1, <3>2, <3>3, StubUnanswered DEF Result
    <3>4. CASE s[1] = "get"
      BY <2>2, <3>1, <3>2, <3>4, StubUnanswered DEF Result
    <3>5. QED
      BY <2>2, <3>1, <3>3, <3>4, StubsCallOrRead
  <2>6. QED
    BY <2>3, <2>4, <2>5 DEF DescriptionsHold
<1>3. QED
  BY <1>1, <1>2, AnswerStep, AdaptorInvariant, PTL DEF AdaptorSpec, AdaptorInv

-----------------------------------------------------------------------------
(* The trees of the toolkit: subtrees and parents *)

LEMMA SubtreeFacts ==
  ASSUME NEW t, IsForest(t), NEW p \in Object
  PROVE  /\ Subtree(t, p) \subseteq Object
         /\ p \in Subtree(t, p)
         /\ \A y \in Subtree(t, p) : \A i \in DOMAIN t[y] :
              t[y][i] \in Object /\ t[y][i] \in Subtree(t, p)
         /\ \A S \in SUBSET Object :
              p \in S /\ (\A y \in S : \A i \in DOMAIN t[y] : t[y][i] \in S) =>
                Subtree(t, p) \subseteq S
<1>1. \A y \in Object : t[y] \in Seq(Object)
  BY DEF IsForest
<1>2. \A y \in Object : \A i \in DOMAIN t[y] : t[y][i] \in Object /\ t[y][i] \in ToSet(t[y])
  BY <1>1 DEF ToSet
<1>3. \A y \in Object : \A S : (\A i \in DOMAIN t[y] : t[y][i] \in S) <=> ToSet(t[y]) \subseteq S
  BY <1>1 DEF ToSet
<1> QED  BY <1>2, <1>3 DEF Subtree

LEMMA SubtreeOfSubtree ==
  ASSUME NEW t, IsForest(t), NEW p \in Object, NEW q \in Subtree(t, p)
  PROVE  Subtree(t, q) \subseteq Subtree(t, p)
<1>1. q \in Object /\ Subtree(t, p) \in SUBSET Object
  BY SubtreeFacts
<1> QED  BY <1>1, SubtreeFacts

\* Below an object are the subtrees of its children.
LEMMA SubtreeUnfolds ==
  ASSUME NEW t, IsForest(t), NEW p \in Object, NEW x \in Subtree(t, p)
  PROVE  x = p \/ \E i \in DOMAIN t[p] : x \in Subtree(t, t[p][i])
<1> DEFINE S == {y \in Object : y = p \/ \E i \in DOMAIN t[p] : y \in Subtree(t, t[p][i])}
<1>0. \A i \in DOMAIN t[p] : t[p][i] \in Object
  BY SubtreeFacts
<1>1. ASSUME NEW y \in S, NEW i \in DOMAIN t[y]
      PROVE  t[y][i] \in S
  <2>1. t[y][i] \in Object
    BY SubtreeFacts
  <2>2. CASE y = p
    BY <2>1, <2>2, SubtreeFacts
  <2>3. CASE y # p
    <3>1. PICK j \in DOMAIN t[p] : y \in Subtree(t, t[p][j])
      BY <2>3
    <3>2. t[y][i] \in Subtree(t, t[p][j])
      BY <1>0, <3>1, SubtreeFacts
    <3> QED  BY <2>1, <3>2
  <2> QED  BY <2>2, <2>3
<1>2. S \in SUBSET Object /\ p \in S
  OBVIOUS
<1>3. Subtree(t, p) \subseteq S
  BY <1>1, <1>2, SubtreeFacts
<1> QED  BY <1>3

\* What is below an object has its parent there too.
LEMMA ParentInSubtree ==
  ASSUME NEW t, IsForest(t), NEW q \in Object, NEW p \in Object, NEW i \in DOMAIN t[p],
         t[p][i] \in Subtree(t, q), t[p][i] # q
  PROVE  p \in Subtree(t, q)
<1> DEFINE S == {y \in Subtree(t, q) :
                   y = q \/ \A r \in Object : \A j \in DOMAIN t[r] :
                              t[r][j] = y => r \in Subtree(t, q)}
<1>1. ASSUME NEW y \in S, NEW j \in DOMAIN t[y]
      PROVE  t[y][j] \in S
  <2>1. y \in Subtree(t, q) /\ y \in Object
    BY SubtreeFacts
  <2>2. t[y][j] \in Subtree(t, q)
    BY <2>1, SubtreeFacts
  <2>3. \A r \in Object : \A k \in DOMAIN t[r] : t[r][k] = t[y][j] => r = y
    BY <2>1 DEF IsForest
  <2> QED  BY <2>1, <2>2, <2>3
<1>2. S \in SUBSET Object /\ q \in S
  BY SubtreeFacts
<1>3. Subtree(t, q) \subseteq S
  BY <1>1, <1>2, SubtreeFacts
<1> QED  BY <1>3

\* Two subtrees with an object in common are one inside the other.
LEMMA SubtreesNest ==
  ASSUME NEW t, IsForest(t), NEW x \in Object, NEW y \in Object,
         NEW a \in Subtree(t, x), a \in Subtree(t, y)
  PROVE  x \in Subtree(t, y) \/ y \in Subtree(t, x)
<1> DEFINE S == {b \in Subtree(t, x) :
                   b \in Subtree(t, y) => x \in Subtree(t, y) \/ y \in Subtree(t, x)}
<1>1. ASSUME NEW b \in S, NEW j \in DOMAIN t[b]
      PROVE  t[b][j] \in S
  <2>1. b \in Subtree(t, x) /\ b \in Object
    BY SubtreeFacts
  <2>2. t[b][j] \in Subtree(t, x)
    BY <2>1, SubtreeFacts
  <2>3. t[b][j] \in Subtree(t, y) /\ t[b][j] # y => b \in Subtree(t, y)
    BY <2>1, ParentInSubtree
  <2> QED  BY <2>1, <2>2, <2>3
<1>2. S \in SUBSET Object /\ x \in S
  BY SubtreeFacts
<1>3. Subtree(t, x) \subseteq S
  BY <1>1, <1>2, SubtreeFacts
<1> QED  BY <1>3

LEMMA ChildIsBelow ==
  ASSUME NEW t, IsForest(t), NEW p \in Object, NEW i \in DOMAIN t[p]
  PROVE  /\ t[p][i] \in Object /\ t[p][i] # p /\ p \notin Subtree(t, t[p][i])
         /\ t[p][i] \in Subtree(t, p)
         /\ Subtree(t, t[p][i]) \subseteq Below(t, p)
<1>1. t[p][i] \in Object /\ t[p][i] \in Subtree(t, p)
  BY SubtreeFacts
<1>2. p \notin Subtree(t, t[p][i])
  BY DEF IsForest, ToSet
<1> QED  BY <1>1, <1>2, SubtreeFacts, SubtreeOfSubtree DEF Below

LEMMA SiblingsApart ==
  ASSUME NEW t, IsForest(t), NEW p \in Object, NEW i \in DOMAIN t[p], NEW j \in DOMAIN t[p],
         NEW x \in Subtree(t, t[p][i]), x \in Subtree(t, t[p][j])
  PROVE  i = j
<1>1. SUFFICES ASSUME i # j PROVE FALSE
  OBVIOUS
<1>2. t[p][i] # t[p][j]
  BY <1>1 DEF IsForest
<1>3. t[p][i] \in Object /\ t[p][j] \in Object
  BY ChildIsBelow
<1>4. CASE t[p][i] \in Subtree(t, t[p][j])
  BY <1>2, <1>3, <1>4, ParentInSubtree, ChildIsBelow
<1>5. CASE t[p][j] \in Subtree(t, t[p][i])
  BY <1>2, <1>3, <1>5, ParentInSubtree, ChildIsBelow
<1> QED  BY <1>3, <1>4, <1>5, SubtreesNest

LEMMA ParentAndIndex ==
  ASSUME NEW t, IsForest(t), Null \notin Object, NEW o \in Object
  PROVE  \/ /\ Parent(t, o) = Null
            /\ \A p \in Object : \A i \in DOMAIN t[p] : t[p][i] # o
         \/ /\ Parent(t, o) \in Object
            /\ Index(t, o) \in DOMAIN t[Parent(t, o)]
            /\ t[Parent(t, o)][Index(t, o)] = o
<1>1. \A p \in Object : o \in ToSet(t[p]) <=> \E i \in DOMAIN t[p] : t[p][i] = o
  BY DEF ToSet
<1>2. CASE \E p \in Object : o \in ToSet(t[p])
  <2>1. Parent(t, o) \in Object /\ o \in ToSet(t[Parent(t, o)])
    BY <1>2 DEF Parent
  <2>2. \E i \in DOMAIN t[Parent(t, o)] : t[Parent(t, o)][i] = o
    BY <1>1, <2>1
  <2> QED  BY <2>1, <2>2 DEF Index
<1>3. CASE ~\E p \in Object : o \in ToSet(t[p])
  BY <1>1, <1>3 DEF Parent
<1> QED  BY <1>2, <1>3

\* The parent and the index of a child are those by which it is found.
LEMMA ParentOfChild ==
  ASSUME NEW t, IsForest(t), Null \notin Object, NEW p \in Object, NEW i \in DOMAIN t[p]
  PROVE  Parent(t, t[p][i]) = p /\ Index(t, t[p][i]) = i
<1>1. PICK c : c = t[p][i]
  OBVIOUS
<1>2. c \in Object
  BY <1>1, ChildIsBelow
<1>3. \/ Parent(t, c) = Null /\ \A q \in Object : \A j \in DOMAIN t[q] : t[q][j] # c
      \/ /\ Parent(t, c) \in Object /\ Index(t, c) \in DOMAIN t[Parent(t, c)]
         /\ t[Parent(t, c)][Index(t, c)] = c
  BY <1>2, ParentAndIndex
<1>4. Parent(t, c) \in Object /\ Index(t, c) \in DOMAIN t[Parent(t, c)]
         /\ t[Parent(t, c)][Index(t, c)] = c
  BY <1>1, <1>3
<1> QED  BY <1>1, <1>4 DEF IsForest

-----------------------------------------------------------------------------
(* Document order *)

LEMMA BelowIsStrict ==
  ASSUME NEW t, IsForest(t), NEW a \in Object, NEW b \in Below(t, a)
  PROVE  b \in Object /\ a \notin Subtree(t, b) /\ Subtree(t, b) \subseteq Below(t, a)
<1>1. b \in Subtree(t, a) /\ b # a /\ b \in Object
  BY SubtreeFacts DEF Below
<1>2. PICK i \in DOMAIN t[a] : b \in Subtree(t, t[a][i])
  BY <1>1, SubtreeUnfolds
<1>3. t[a][i] \in Object /\ a \notin Subtree(t, t[a][i]) /\ Subtree(t, t[a][i]) \subseteq Below(t, a)
  BY ChildIsBelow
<1> QED  BY <1>1, <1>2, <1>3, SubtreeOfSubtree

LEMMA RightOfSubtree ==
  ASSUME NEW t, IsForest(t), NEW a \in Object, NEW b \in RightOf(t, a)
  PROVE  /\ b \in Object /\ b \notin Subtree(t, a) /\ a \notin Subtree(t, b)
         /\ a \notin RightOf(t, b)
<1>10. PICK p \in Object : \E i, j \in DOMAIN t[p] :
        i < j /\ a \in Subtree(t, t[p][i]) /\ b \in Subtree(t, t[p][j])
  BY DEF RightOf
<1>1. PICK i \in DOMAIN t[p], j \in DOMAIN t[p] :
        i < j /\ a \in Subtree(t, t[p][i]) /\ b \in Subtree(t, t[p][j])
  BY <1>10
<1>2. /\ t[p][i] \in Object /\ t[p][j] \in Object /\ b \in Object
      /\ i \in Nat /\ j \in Nat
  <2>1. t[p] \in Seq(Object)
    BY DEF IsForest
  <2>2. DOMAIN t[p] \subseteq Nat
    BY <2>1
  <2> QED  BY <2>2, ChildIsBelow DEF RightOf
<1>3. b \notin Subtree(t, a) /\ a \notin Subtree(t, b)
  BY <1>1, <1>2, SubtreeOfSubtree, SiblingsApart
<1>4. a \notin RightOf(t, b)
  <2>1. SUFFICES ASSUME a \in RightOf(t, b) PROVE FALSE
    OBVIOUS
  <2>20. PICK q \in Object : \E k, l \in DOMAIN t[q] :
          k < l /\ b \in Subtree(t, t[q][k]) /\ a \in Subtree(t, t[q][l])
    BY <2>1 DEF RightOf
  <2>2. PICK k \in DOMAIN t[q], l \in DOMAIN t[q] :
          k < l /\ b \in Subtree(t, t[q][k]) /\ a \in Subtree(t, t[q][l])
    BY <2>20
  <2>3. t[q][k] \in Object /\ t[q][l] \in Object /\ k \in Nat /\ l \in Nat
    <3>1. t[q] \in Seq(Object)
      BY DEF IsForest
    <3>2. DOMAIN t[q] \subseteq Nat
      BY <3>1
    <3> QED  BY <3>2, ChildIsBelow
  <2>4. CASE p = q
    <3>1. i = l
      BY <1>1, <2>2, <2>4, SiblingsApart
    <3>2. j = k
      BY <1>1, <2>2, <2>4, SiblingsApart
    <3> QED  BY <1>1, <1>2, <2>2, <2>3, <3>1, <3>2
  <2>5. CASE p # q
    <3>1. t[p][i] # t[q][l]
      BY <2>5 DEF IsForest
    <3>2. CASE t[p][i] \in Subtree(t, t[q][l])
      <4>1. p \in Subtree(t, t[q][l])
        BY <2>3, <3>1, <3>2, ParentInSubtree
      <4>2. b \in Subtree(t, p)
        BY <1>1, ChildIsBelow DEF Below
      <4>3. b \in Subtree(t, t[q][l])
        BY <2>3, <4>1, <4>2, SubtreeOfSubtree
      <4>4. k = l
        BY <2>2, <4>3, SiblingsApart
      <4> QED  BY <2>2, <2>3, <4>4
    <3>3. CASE t[q][l] \in Subtree(t, t[p][i])
      <4>1. q \in Subtree(t, t[p][i])
        BY <1>2, <3>1, <3>3, ParentInSubtree
      <4>2. b \in Subtree(t, q)
        BY <2>2, ChildIsBelow DEF Below
      <4>3. b \in Subtree(t, t[p][i])
        BY <1>2, <4>1, <4>2, SubtreeOfSubtree
      <4> QED  BY <1>1, <1>2, <4>3, SiblingsApart, SMTT(30)
    <3> QED  BY <1>1, <1>2, <2>2, <2>3, <3>2, <3>3, SubtreesNest
  <2> QED  BY <2>4, <2>5
<1> QED  BY <1>2, <1>3, <1>4

\* Document order is irreflexive and asymmetric.
LEMMA PrecedesOneWay ==
  ASSUME NEW t, IsForest(t), NEW a \in Object, NEW b \in Object, Precedes(t, a, b)
  PROVE  a # b /\ ~Precedes(t, b, a)
<1>1. CASE b \in Below(t, a)
  <2>1. a \notin Subtree(t, b) /\ b # a /\ b \in Subtree(t, a)
    BY <1>1, BelowIsStrict DEF Below
  <2>2. a \notin RightOf(t, b)
    BY <2>1, RightOfSubtree
  <2> QED  BY <2>1, <2>2 DEF Precedes, Below
<1>2. CASE b \in RightOf(t, a)
  <2>1. /\ b \notin Subtree(t, a) /\ a \notin Subtree(t, b) /\ a \notin RightOf(t, b)
    BY <1>2, RightOfSubtree
  <2> QED  BY <2>1, SubtreeFacts DEF Precedes, Below
<1> QED  BY <1>1, <1>2 DEF Precedes

\* Right of a child: its later siblings' subtrees, and what is right of its parent.
LEMMA RightOfChild ==
  ASSUME NEW t, IsForest(t), NEW p \in Object, NEW i \in DOMAIN t[p], NEW x \in Object
  PROVE  x \in RightOf(t, t[p][i]) <=>
           \/ x \in RightOf(t, p)
           \/ \E j \in DOMAIN t[p] : i < j /\ x \in Subtree(t, t[p][j])
<1>1. PICK c : c = t[p][i]
  OBVIOUS
<1>2. c \in Object /\ c \in Subtree(t, c) /\ c \in Subtree(t, p)
  BY <1>1, ChildIsBelow, SubtreeFacts
<1>3. ASSUME x \in RightOf(t, c)
      PROVE  \/ x \in RightOf(t, p)
             \/ \E j \in DOMAIN t[p] : i < j /\ x \in Subtree(t, t[p][j])
  <2>10. PICK q \in Object : \E k, l \in DOMAIN t[q] :
          k < l /\ c \in Subtree(t, t[q][k]) /\ x \in Subtree(t, t[q][l])
    BY <1>3 DEF RightOf
  <2>1. PICK k \in DOMAIN t[q], l \in DOMAIN t[q] :
          k < l /\ c \in Subtree(t, t[q][k]) /\ x \in Subtree(t, t[q][l])
    BY <2>10
  <2>2. t[q][k] \in Object
    BY ChildIsBelow
  <2>3. CASE c = t[q][k]
    <3>0. t[p][i] = t[q][k]
      BY <1>1, <2>3
    <3>1. p = q /\ i = k
      BY <3>0 DEF IsForest
    <3>2. l \in DOMAIN t[p] /\ i < l /\ x \in Subtree(t, t[p][l])
      BY <2>1, <3>1, Zenon
    <3> QED  BY <3>2
  <2>4. CASE c # t[q][k]
    <3>1. p \in Subtree(t, t[q][k])
      BY <1>1, <2>1, <2>2, <2>4, ParentInSubtree
    <3> QED  BY <2>1, <3>1 DEF RightOf
  <2> QED  BY <2>3, <2>4
<1>4. ASSUME x \in RightOf(t, p)
      PROVE  x \in RightOf(t, c)
  <2>10. PICK q \in Object : \E k, l \in DOMAIN t[q] :
          k < l /\ p \in Subtree(t, t[q][k]) /\ x \in Subtree(t, t[q][l])
    BY <1>4 DEF RightOf
  <2>1. PICK k \in DOMAIN t[q], l \in DOMAIN t[q] :
          k < l /\ p \in Subtree(t, t[q][k]) /\ x \in Subtree(t, t[q][l])
    BY <2>10
  <2>2. c \in Subtree(t, t[q][k])
    BY <1>2, <2>1, ChildIsBelow, SubtreeOfSubtree
  <2> QED  BY <2>1, <2>2 DEF RightOf
<1>5. ASSUME NEW j \in DOMAIN t[p], i < j, x \in Subtree(t, t[p][j])
      PROVE  x \in RightOf(t, c)
  BY <1>1, <1>2, <1>5 DEF RightOf
<1> QED  BY <1>1, <1>3, <1>4, <1>5

\* What precedes a child: its parent, what precedes that, and what is below
\* its earlier siblings or is one of them.
LEMMA PrecedesChild ==
  ASSUME NEW t, IsForest(t), NEW p \in Object, NEW i \in DOMAIN t[p], NEW x \in Object
  PROVE  Precedes(t, x, t[p][i]) <=>
           \/ x = p \/ Precedes(t, x, p)
           \/ \E k \in DOMAIN t[p] : k < i /\ x \in Subtree(t, t[p][k])
<1>1. PICK c : c = t[p][i]
  OBVIOUS
<1>2. c \in Object /\ c \in Subtree(t, c) /\ c \in Subtree(t, p) /\ c # p
  BY <1>1, ChildIsBelow, SubtreeFacts
<1>3. c \in Below(t, x) <=> p \in Subtree(t, x)
  <2>1. c \in Below(t, x) => p \in Subtree(t, x)
    BY <1>1, ParentInSubtree DEF Below
  <2>2. p \in Subtree(t, x) => c \in Subtree(t, x) /\ c # x
    <3>1. p \in Subtree(t, x) => c \in Subtree(t, x)
      BY <1>1, SubtreeFacts
    <3>2. c = x => p \notin Subtree(t, x)
      BY <1>1, ChildIsBelow
    <3> QED  BY <3>1, <3>2
  <2> QED  BY <2>1, <2>2 DEF Below
<1>4. p \in Subtree(t, x) <=> x = p \/ p \in Below(t, x)
  BY SubtreeFacts DEF Below
<1>5. ASSUME c \in RightOf(t, x)
      PROVE  \/ p \in RightOf(t, x)
             \/ \E k \in DOMAIN t[p] : k < i /\ x \in Subtree(t, t[p][k])
  <2>10. PICK q \in Object : \E k, l \in DOMAIN t[q] :
          k < l /\ x \in Subtree(t, t[q][k]) /\ c \in Subtree(t, t[q][l])
    BY <1>5 DEF RightOf
  <2>1. PICK k \in DOMAIN t[q], l \in DOMAIN t[q] :
          k < l /\ x \in Subtree(t, t[q][k]) /\ c \in Subtree(t, t[q][l])
    BY <2>10
  <2>2. t[q][l] \in Object
    BY ChildIsBelow
  <2>3. CASE c = t[q][l]
    <3>1. p = q /\ i = l
      BY <1>1, <2>3, ZenonT(40) DEF IsForest
    <3> QED  BY <2>1, <3>1
  <2>4. CASE c # t[q][l]
    <3>1. p \in Subtree(t, t[q][l])
      BY <1>1, <2>1, <2>2, <2>4, ParentInSubtree
    <3> QED  BY <2>1, <3>1 DEF RightOf
  <2> QED  BY <2>3, <2>4
<1>6. ASSUME p \in RightOf(t, x)
      PROVE  c \in RightOf(t, x)
  <2>10. PICK q \in Object : \E k, l \in DOMAIN t[q] :
          k < l /\ x \in Subtree(t, t[q][k]) /\ p \in Subtree(t, t[q][l])
    BY <1>6 DEF RightOf
  <2>1. PICK k \in DOMAIN t[q], l \in DOMAIN t[q] :
          k < l /\ x \in Subtree(t, t[q][k]) /\ p \in Subtree(t, t[q][l])
    BY <2>10
  <2>2. c \in Subtree(t, t[q][l])
    BY <1>2, <2>1, ChildIsBelow, SubtreeOfSubtree
  <2> QED  BY <1>2, <2>1, <2>2 DEF RightOf
<1>7. ASSUME NEW k \in DOMAIN t[p], k < i, x \in Subtree(t, t[p][k])
      PROVE  c \in RightOf(t, x)
  BY <1>1, <1>2, <1>7 DEF RightOf
<1> QED  BY <1>1, <1>3, <1>4, <1>5, <1>6, <1>7 DEF Precedes

\* Nothing is right of a root, and nothing precedes it.
LEMMA RootIsFirst ==
  ASSUME NEW t, IsForest(t), NEW r \in Object,
         \A p \in Object : \A i \in DOMAIN t[p] : t[p][i] # r,
         NEW x \in Object
  PROVE  x \notin RightOf(t, r) /\ ~Precedes(t, x, r)
<1>1. ASSUME NEW y \in Object, r \in Subtree(t, y)
      PROVE  r = y
  <2>1. SUFFICES ASSUME r # y PROVE FALSE
    OBVIOUS
  <2> DEFINE S == Subtree(t, y) \ {r}
  <2>2. S \in SUBSET Object /\ y \in S
    BY <2>1, SubtreeFacts
  <2>3. \A z \in S : \A i \in DOMAIN t[z] : t[z][i] \in S
    BY SubtreeFacts
  <2>4. Subtree(t, y) \subseteq S
    BY <2>2, <2>3, SubtreeFacts
  <2> QED  BY <1>1, <2>4
<1>2. \A p \in Object : \A i \in DOMAIN t[p] : r \notin Subtree(t, t[p][i])
  BY <1>1, ChildIsBelow
<1>3. x \notin RightOf(t, r) /\ r \notin RightOf(t, x)
  BY <1>2 DEF RightOf
<1> QED  BY <1>1, <1>3 DEF Precedes, Below

-----------------------------------------------------------------------------
(* What a walk has listed and what it is still to list *)

(* How far a walk has come: ls lists what matches in S but not in A, the   *)
(* objects that are still to be walked, all of which come after it.        *)
Progress(t, q, ls, S, A, back) ==
  /\ ls = <<>> \/ MoreThan(q, Len(ls) - 1)
  /\ A \subseteq S
  /\ \A i \in DOMAIN ls : ls[i] \in S \ A /\ Match(ls[i], q.rule)
  /\ \A i, j \in DOMAIN ls : i < j => InOrder(t, ls[i], ls[j], back)
  /\ \A o \in S \ A : Match(o, q.rule) => \E i \in DOMAIN ls : ls[i] = o
  /\ \A i \in DOMAIN ls : \A o \in A : InOrder(t, ls[i], o, back)

(* While more is wanted A is exact; after that it is only unwound.         *)
Going(t, q, ls, S, A, back) ==
  /\ ls \in Seq(Object)
  /\ S \subseteq Object
  /\ MoreThan(q, Len(ls)) => Progress(t, q, ls, S, A, back)
  /\ ~MoreThan(q, Len(ls)) => Lists(t, q, ls, S, back)

LEMMA ProgressLists ==
  ASSUME NEW t, NEW q, NEW ls \in Seq(Object), NEW S, NEW A, NEW back \in BOOLEAN,
         Progress(t, q, ls, S, A, back), A = {} \/ ~MoreThan(q, Len(ls))
  PROVE  Lists(t, q, ls, S, back)
<1>1. \A o : o \in ToSet(ls) <=> \E i \in DOMAIN ls : ls[i] = o
  BY DEF ToSet
<1>2. ASSUME NEW o \in S \ ToSet(ls), Match(o, q.rule)
      PROVE  ~MoreThan(q, Len(ls)) /\ \A i \in DOMAIN ls : InOrder(t, ls[i], o, back)
  <2>1. o \in A
    BY <1>1, <1>2 DEF Progress
  <2> QED  BY <2>1 DEF Progress
<1> QED  BY <1>2 DEF Lists, Progress

LEMMA GoingStarts ==
  ASSUME NEW t, NEW q, NEW S \in SUBSET Object, NEW back \in BOOLEAN
  PROVE  Going(t, q, <<>>, S, S, back)
<1>1. <<>> \in Seq(Object) /\ DOMAIN <<>> = {} /\ Len(<<>>) = 0
  OBVIOUS
<1>2. Progress(t, q, <<>>, S, S, back)
  BY <1>1 DEF Progress
<1> QED  BY <1>1, <1>2, ProgressLists DEF Going

LEMMA GoingEnds ==
  ASSUME NEW t, NEW q, NEW ls, NEW S, NEW A, NEW back \in BOOLEAN,
         Going(t, q, ls, S, A, back), A = {} \/ ~MoreThan(q, Len(ls))
  PROVE  Lists(t, q, ls, S, back)
BY ProgressLists DEF Going

\* An object that precedes the rest has been tested.
LEMMA GoingOn ==
  ASSUME NEW t, NEW q, NEW ls, NEW S, NEW A, NEW B, NEW back \in BOOLEAN, NEW new,
         q.count \in Int,
         Going(t, q, ls, S, A, back), MoreThan(q, Len(ls)),
         NEW x \in A, B = A \ {x}, \A y \in B : InOrder(t, x, y, back),
         new = IF Match(x, q.rule) THEN Append(ls, x) ELSE ls
  PROVE  Going(t, q, new, S, B, back)
<1>1. /\ ls \in Seq(Object) /\ S \subseteq Object /\ x \in Object /\ x \in S
      /\ Progress(t, q, ls, S, A, back)
  BY DEF Going, Progress
<1>2. CASE Match(x, q.rule)
  <2>1. new = Append(ls, x)
    BY <1>2
  <2>2. /\ new \in Seq(Object) /\ Len(new) = Len(ls) + 1 /\ Len(ls) \in Nat
        /\ DOMAIN new = 1 .. Len(ls) + 1 /\ DOMAIN ls = 1 .. Len(ls)
        /\ new[Len(ls) + 1] = x /\ \A i \in DOMAIN ls : new[i] = ls[i]
    BY <1>1, <2>1
  <2>3. new = <<>> \/ MoreThan(q, Len(new) - 1)
    BY <2>2
  <2>4. \A i \in DOMAIN new : i \in DOMAIN ls \/ i = Len(ls) + 1
    BY <2>2
  <2>5. \A i \in DOMAIN new : new[i] \in S \ B /\ Match(new[i], q.rule)
    BY <1>1, <1>2, <2>2, <2>4 DEF Progress
  <2>6. ASSUME NEW i \in DOMAIN new, NEW j \in DOMAIN new, i < j
        PROVE  InOrder(t, new[i], new[j], back)
    <3>1. i \in DOMAIN ls
      BY <2>2, <2>4, <2>6
    <3>2. CASE j \in DOMAIN ls
      BY <1>1, <2>2, <2>6, <3>1, <3>2 DEF Progress
    <3>3. CASE j = Len(ls) + 1
      BY <1>1, <2>2, <3>1, <3>3 DEF Progress
    <3> QED  BY <2>4, <3>2, <3>3
  <2>7. ASSUME NEW o \in S \ B, Match(o, q.rule)
        PROVE  \E i \in DOMAIN new : new[i] = o
    <3>1. CASE o = x
      BY <2>2, <3>1
    <3>2. CASE o # x
      <4>1. \E i \in DOMAIN ls : ls[i] = o
        BY <1>1, <2>7, <3>2 DEF Progress
      <4> QED  BY <2>2, <4>1
    <3> QED  BY <3>1, <3>2
  <2>8. \A i \in DOMAIN new : \A o \in B : InOrder(t, new[i], o, back)
    BY <1>1, <2>2, <2>4 DEF Progress
  <2>9. Progress(t, q, new, S, B, back)
    BY <1>1, <2>3, <2>5, <2>6, <2>7, <2>8 DEF Progress
  <2> QED  BY <1>1, <2>2, <2>9, ProgressLists DEF Going
<1>3. CASE ~Match(x, q.rule)
  <2>1. new = ls
    BY <1>3
  <2>2. Progress(t, q, ls, S, B, back)
    BY <1>1, <1>3 DEF Progress
  <2> QED  BY <1>1, <2>1, <2>2 DEF Going
<1> QED  BY <1>2, <1>3

LEMMA GoingUnwinds ==
  ASSUME NEW t, NEW q, NEW ls, NEW S, NEW A, NEW B, NEW back,
         Going(t, q, ls, S, A, back), A = B \/ ~MoreThan(q, Len(ls))
  PROVE  Going(t, q, ls, S, B, back)
BY DEF Going

LEMMA GoingIsOrdered ==
  ASSUME NEW t \in Trees, NEW q, NEW ls, NEW S, NEW A, NEW back \in BOOLEAN,
         Going(t, q, ls, S, A, back)
  PROVE  IsInjective(ls)
<1>1. ls \in Seq(Object) /\ IsForest(t)
  BY TreesAssumption DEF Going
<1>2. \A i, j \in DOMAIN ls : i < j => InOrder(t, ls[i], ls[j], back)
  BY DEF Going, Progress, Lists
<1>3. \A i, j \in DOMAIN ls : i < j => ls[i] # ls[j]
  <2>1. \A i \in DOMAIN ls : ls[i] \in Object
    BY <1>1
  <2> QED  BY <1>1, <1>2, <2>1, PrecedesOneWay DEF InOrder
<1>4. \A i, j \in DOMAIN ls : i < j \/ i = j \/ j < i
  BY <1>1
<1> QED  BY <1>3, <1>4 DEF IsInjective

LEMMA ReverseFacts ==
  ASSUME NEW ls \in Seq(Object)
  PROVE  /\ Reverse(ls) \in Seq(Object)
         /\ Reverse(Reverse(ls)) = ls
         /\ ToSet(Reverse(ls)) = ToSet(ls)
         /\ IsInjective(ls) => IsInjective(Reverse(ls))
<1>1. PICK n \in Nat : n = Len(ls)
  OBVIOUS
<1>2. PICK rev : rev = Reverse(ls)
  OBVIOUS
<1>3. /\ DOMAIN ls = 1 .. n /\ \A i \in 1 .. n : ls[i] \in Object
      /\ DOMAIN rev = 1 .. n /\ \A i \in 1 .. n : rev[i] = ls[n - i + 1]
      /\ \A i \in 1 .. n : n - i + 1 \in 1 .. n /\ n - (n - i + 1) + 1 = i
  BY <1>1, <1>2 DEF Reverse
<1>4. rev \in Seq(Object) /\ Len(rev) = n
  <2>1. rev \in [1 .. n -> Object]
    BY <1>1, <1>2, <1>3 DEF Reverse
  <2> QED  BY <1>3, <2>1
<1>5. Reverse(rev) = ls
  <2>1. Reverse(rev) = [i \in 1 .. n |-> rev[n - i + 1]]
    BY <1>4 DEF Reverse
  <2>2. \A i \in 1 .. n : rev[n - i + 1] = ls[i]
    BY <1>3
  <2>3. ls = [i \in 1 .. n |-> ls[i]]
    BY <1>1, <1>3
  <2> QED  BY <2>1, <2>2, <2>3
<1>6. ToSet(rev) = ToSet(ls)
  <2>1. \A o : (\E i \in 1 .. n : rev[i] = o) <=> (\E i \in 1 .. n : ls[i] = o)
    BY <1>3
  <2> QED  BY <1>3, <2>1 DEF ToSet
<1>7. ASSUME IsInjective(ls) PROVE IsInjective(rev)
  <2>1. ASSUME NEW i \in 1 .. n, NEW j \in 1 .. n, rev[i] = rev[j] PROVE i = j
    <3>1. ls[n - i + 1] = ls[n - j + 1] /\ n - i + 1 \in DOMAIN ls /\ n - j + 1 \in DOMAIN ls
      BY <1>3, <2>1
    <3>2. n - i + 1 = n - j + 1
      BY <1>7, <3>1 DEF IsInjective
    <3> QED  BY <1>1, <3>2
  <2> QED  BY <1>3, <2>1 DEF IsInjective
<1> QED  BY <1>2, <1>4, <1>5, <1>6, <1>7

-----------------------------------------------------------------------------
(* The activations of sort_order_canonical *)

\* what one activation of sort_order_canonical is still to walk, and all do
Down(t, deep, c) == IF deep THEN Subtree(t, c) ELSE {c}
Ahead(t, deep, f) ==
  {x \in Object : \E j \in DOMAIN t[f.obj] :
     /\ f.index <= j /\ x \in Down(t, deep, t[f.obj][j])
     /\ f.flag \/ x # t[f.obj][f.index]}
AllAhead(t, deep, fs) == {x \in Object : \E k \in DOMAIN fs : x \in Ahead(t, deep, fs[k])}

(* An activation was called for the child before the one that its caller   *)
(* is to go on with, or for something below that child.                    *)
Stack(t, deep, fs, base) ==
  /\ fs \in Seq(Frame)
  /\ fs # <<>> => fs[1].obj = base
  /\ Len(fs) > 1 => deep
  /\ \A k, m \in DOMAIN fs : k < m =>
       /\ fs[k].flag /\ fs[k].index - 1 \in DOMAIN t[fs[k].obj]
       /\ fs[m].obj \in Subtree(t, t[fs[k].obj][fs[k].index - 1])

LEMMA StackIsBelow ==
  ASSUME NEW t, IsForest(t), NEW deep \in BOOLEAN, NEW fs, NEW base,
         Stack(t, deep, fs, base), NEW k \in DOMAIN fs
  PROVE  /\ fs[k] \in Frame /\ fs[k].obj \in Object /\ base \in Object
         /\ fs[k].obj \in Subtree(t, base)
         /\ ~deep => fs[k].obj = base
<1>1. /\ fs \in Seq(Frame) /\ DOMAIN fs = 1 .. Len(fs) /\ Len(fs) \in Nat /\ k \in Nat
      /\ fs # <<>> /\ 1 \in DOMAIN fs
  BY DEF Stack
<1>2. fs[k] \in Frame /\ fs[1] \in Frame
  BY <1>1
<1>3. fs[k].obj \in Object /\ base \in Object
  BY <1>1, <1>2 DEF Frame, Stack
<1>4. CASE k = 1
  BY <1>1, <1>2, <1>3, <1>4, SubtreeFacts DEF Stack
<1>5. CASE k # 1
  <2>1. 1 < k /\ Len(fs) > 1
    BY <1>1, <1>5
  <2>2. /\ fs[1].index - 1 \in DOMAIN t[base]
        /\ fs[k].obj \in Subtree(t, t[base][fs[1].index - 1])
    BY <1>1, <2>1 DEF Stack
  <2>3. fs[k].obj \in Subtree(t, base)
    BY <1>3, <2>2, ChildIsBelow DEF Below
  <2> QED  BY <1>2, <1>3, <2>1, <2>3 DEF Stack
<1> QED  BY <1>4, <1>5

LEMMA StackPops ==
  ASSUME NEW t, NEW deep \in BOOLEAN, NEW fs, NEW base,
         Stack(t, deep, fs, base), fs # <<>>
  PROVE  /\ Stack(t, deep, Front(fs), base)
         /\ AllAhead(t, deep, fs) =
              AllAhead(t, deep, Front(fs)) \cup Ahead(t, deep, fs[Len(fs)])
<1>1. PICK n \in Nat : n = Len(fs)
  BY DEF Stack
<1>2. fs \in Seq(Frame) /\ DOMAIN fs = 1 .. n /\ n # 0
  BY <1>1 DEF Stack
<1>3. PICK new : new = Front(fs)
  OBVIOUS
<1>4. /\ new \in Seq(Frame) /\ Len(new) = n - 1 /\ DOMAIN new = 1 .. n - 1
      /\ \A k \in 1 .. n - 1 : new[k] = fs[k]
  BY <1>1, <1>2, <1>3 DEF Front
<1>5. Stack(t, deep, new, base)
  <2>1. new # <<>> => new[1].obj = base
    BY <1>2, <1>4 DEF Stack
  <2>2. Len(new) > 1 => deep
    BY <1>1, <1>2, <1>4 DEF Stack
  <2>3. ASSUME NEW k \in DOMAIN new, NEW m \in DOMAIN new, k < m
        PROVE  /\ new[k].flag /\ new[k].index - 1 \in DOMAIN t[new[k].obj]
               /\ new[m].obj \in Subtree(t, t[new[k].obj][new[k].index - 1])
    <3>1. k \in DOMAIN fs /\ m \in DOMAIN fs /\ new[k] = fs[k] /\ new[m] = fs[m]
      BY <1>2, <1>4
    <3> QED  BY <2>3, <3>1 DEF Stack
  <2> QED  BY <1>4, <2>1, <2>2, <2>3 DEF Stack
<1>6. \A k \in DOMAIN fs : k \in DOMAIN new \/ k = n
  BY <1>2, <1>4
<1>7. \A k \in DOMAIN new : k \in DOMAIN fs /\ new[k] = fs[k]
  BY <1>2, <1>4
<1>8. n \in DOMAIN fs
  BY <1>2
<1>9. AllAhead(t, deep, fs) = AllAhead(t, deep, new) \cup Ahead(t, deep, fs[n])
  <2>1. ASSUME NEW x \in Object
        PROVE  (\E k \in DOMAIN fs : x \in Ahead(t, deep, fs[k])) <=>
                 \/ \E k \in DOMAIN new : x \in Ahead(t, deep, new[k])
                 \/ x \in Ahead(t, deep, fs[n])
    BY <1>6, <1>7, <1>8
  <2>2. Ahead(t, deep, fs[n]) \subseteq Object
    BY DEF Ahead
  <2> QED  BY <2>1, <2>2 DEF AllAhead
<1> QED  BY <1>1, <1>3, <1>5, <1>9

\* A turn of the loop walks the child, what is below it and later siblings.
Turns(t, deep, f, c) ==
  /\ deep => Ahead(t, deep, f) \ {c} =
              Ahead(t, deep, Activation(f.obj, f.index + 1, TRUE))
                \cup Ahead(t, deep, Activation(c, 1, TRUE))
  /\ ~deep => Ahead(t, deep, f) \ {c} = Ahead(t, deep, Activation(f.obj, f.index + 1, TRUE))
  /\ f.flag => c \in Ahead(t, deep, f)
  /\ \A y \in Ahead(t, deep, f) \ {c} : Precedes(t, c, y)

LEMMA LoopTurns ==
  ASSUME NEW t, IsForest(t), NEW deep \in BOOLEAN, NEW f \in Frame,
         f.index \in DOMAIN t[f.obj], NEW c, c = t[f.obj][f.index]
  PROVE  Turns(t, deep, f, c)
<1>1. PICK p \in Object, i \in Nat : p = f.obj /\ i = f.index /\ i > 0
  BY DEF Frame
<1>2. /\ i \in DOMAIN t[p] /\ c = t[p][i] /\ c \in Object /\ c \in Subtree(t, c)
  BY <1>1, ChildIsBelow, SubtreeFacts
<1>3. t[p] \in Seq(Object) /\ DOMAIN t[p] \subseteq Nat
  <2>1. t[p] \in Seq(Object)
    BY DEF IsForest
  <2> QED  BY <2>1
<1>4. t[c] \in Seq(Object) /\ \A j \in DOMAIN t[c] : j \in Nat /\ 1 <= j
  <2>1. t[c] \in Seq(Object)
    BY <1>2 DEF IsForest
  <2> QED  BY <2>1
<1>5. PICK later : later = {x \in Object : \E j \in DOMAIN t[p] :
                                i < j /\ x \in Down(t, deep, t[p][j])}
  OBVIOUS
<1>6. Ahead(t, deep, Activation(p, i + 1, TRUE)) = later
  <2>1. \A j \in DOMAIN t[p] : i + 1 <= j <=> i < j
    BY <1>3
  <2>2. Activation(p, i + 1, TRUE).obj = p /\ Activation(p, i + 1, TRUE).index = i + 1
        /\ Activation(p, i + 1, TRUE).flag
    BY DEF Activation
  <2> QED  BY <1>5, <2>1, <2>2 DEF Ahead
<1>7. \A j \in DOMAIN t[p] : t[p][j] \in Object /\ t[p][j] \in Subtree(t, t[p][j])
  BY ChildIsBelow, SubtreeFacts
<1>8. \A j \in DOMAIN t[p] : \A x \in Down(t, deep, t[p][j]) : x \in Subtree(t, t[p][j])
  BY <1>7 DEF Down
<1>9. ASSUME NEW x \in later
      PROVE  x # c /\ Precedes(t, c, x)
  <2>1. PICK j \in DOMAIN t[p] : i < j /\ x \in Subtree(t, t[p][j])
    BY <1>5, <1>8
  <2>2. x \in Object /\ x \in RightOf(t, c)
    BY <1>2, <1>5, <2>1 DEF RightOf
  <2>3. Precedes(t, c, x)
    BY <2>2 DEF Precedes
  <2> QED  BY <1>2, <2>2, <2>3, PrecedesOneWay
<1>10. \A x \in Object : x \in Ahead(t, deep, f) \ {c} <=>
                           x # c /\ (x \in later \/ x \in Down(t, deep, c))
  <2>1. \A j \in DOMAIN t[p] : i <= j <=> (i < j \/ j = i)
    BY <1>3
  <2> QED  BY <1>1, <1>2, <1>5, <2>1 DEF Ahead
<1>11. \A x \in Below(t, c) : x # c /\ Precedes(t, c, x) /\ x \in Object
  BY <1>2, SubtreeFacts DEF Below, Precedes
<1>12. f.flag => c \in Ahead(t, deep, f)
  BY <1>1, <1>2, <1>3 DEF Ahead, Down
<1>13. CASE deep
  <2>1. Ahead(t, deep, Activation(c, 1, TRUE)) = Below(t, c)
    <3>1. Activation(c, 1, TRUE).obj = c /\ Activation(c, 1, TRUE).index = 1 /\ Activation(c, 1, TRUE).flag
      BY DEF Activation
    <3>2. Ahead(t, deep, Activation(c, 1, TRUE)) =
            {x \in Object : \E j \in DOMAIN t[c] : x \in Subtree(t, t[c][j])}
      BY <1>4, <1>13, <3>1 DEF Ahead, Down
    <3>3. \A x \in Below(t, c) : \E j \in DOMAIN t[c] : x \in Subtree(t, t[c][j])
      BY <1>2, SubtreeUnfolds DEF Below
    <3>4. \A j \in DOMAIN t[c] : Subtree(t, t[c][j]) \subseteq Below(t, c)
      BY <1>2, ChildIsBelow
    <3> QED  BY <1>11, <3>2, <3>3, <3>4
  <2>2. \A x \in Object : x # c /\ x \in Down(t, deep, c) <=> x \in Below(t, c)
    BY <1>13 DEF Down, Below
  <2>3. Ahead(t, deep, f) \subseteq Object /\ later \subseteq Object
    BY <1>5 DEF Ahead
  <2>4. Ahead(t, deep, f) \ {c} = later \cup Below(t, c)
    BY <1>9, <1>10, <1>11, <2>2, <2>3
  <2> QED  BY <1>1, <1>6, <1>9, <1>11, <1>12, <1>13, <2>1, <2>4 DEF Turns
<1>14. CASE ~deep
  <2>1. Down(t, deep, c) = {c}
    BY <1>14 DEF Down
  <2>2. Ahead(t, deep, f) \subseteq Object /\ later \subseteq Object
    BY <1>5 DEF Ahead
  <2>3. Ahead(t, deep, f) \ {c} = later
    BY <1>9, <1>10, <2>1, <2>2
  <2> QED  BY <1>1, <1>6, <1>9, <1>12, <1>14, <2>3 DEF Turns
<1> QED  BY <1>13, <1>14

LEMMA CallersComeLater ==
  ASSUME NEW t, IsForest(t), NEW deep \in BOOLEAN, NEW fs, NEW base,
         Stack(t, deep, fs, base), fs # <<>>,
         fs[Len(fs)].index \in DOMAIN t[fs[Len(fs)].obj],
         NEW c, c = t[fs[Len(fs)].obj][fs[Len(fs)].index],
         NEW y \in AllAhead(t, deep, Front(fs))
  PROVE  y \in Object /\ c \in Object /\ Precedes(t, c, y) /\ y # c
<1>1. PICK n \in Nat : n = Len(fs)
  BY DEF Stack
<1>2. fs \in Seq(Frame) /\ DOMAIN fs = 1 .. n /\ n # 0
  BY <1>1 DEF Stack
<1>3. /\ DOMAIN Front(fs) = 1 .. n - 1
      /\ \A k \in 1 .. n - 1 : Front(fs)[k] = fs[k]
  BY <1>1, <1>2 DEF Front
<1>4. PICK k \in 1 .. n - 1 : y \in Ahead(t, deep, fs[k])
  BY <1>3 DEF AllAhead
<1>5. k \in DOMAIN fs /\ n \in DOMAIN fs /\ k < n /\ fs[k] \in Frame /\ fs[n] \in Frame
  BY <1>2
<1>6. PICK p \in Object, i \in Nat : p = fs[k].obj /\ i = fs[k].index
  BY <1>5 DEF Frame
<1>7. PICK r \in Object : r = fs[n].obj
  BY <1>5 DEF Frame
<1>8. /\ i - 1 \in DOMAIN t[p] /\ r \in Subtree(t, t[p][i - 1])
      /\ Len(fs) > 1
  BY <1>1, <1>5, <1>6, <1>7 DEF Stack
<1>9. deep
  BY <1>8 DEF Stack
<1>10. PICK j \in DOMAIN t[p] : i <= j /\ y \in Subtree(t, t[p][j])
  BY <1>4, <1>6, <1>9 DEF Ahead, Down
<1>11. i - 1 < j
  <2>1. t[p] \in Seq(Object)
    BY DEF IsForest
  <2>2. j \in Nat
    BY <2>1
  <2> QED  BY <1>6, <1>10, <2>2
<1>12. c \in Object /\ c \in Subtree(t, r)
  BY <1>1, <1>7, ChildIsBelow
<1>13. c \in Subtree(t, t[p][i - 1])
  BY <1>8, <1>12, ChildIsBelow, SubtreeOfSubtree
<1>14. y \in Object
  BY <1>4 DEF Ahead
<1>15. y \in RightOf(t, c)
  BY <1>8, <1>10, <1>11, <1>13, <1>14 DEF RightOf
<1>16. Precedes(t, c, y)
  BY <1>15 DEF Precedes
<1> QED  BY <1>12, <1>14, <1>16, PrecedesOneWay

LEMMA AppendFacts ==
  ASSUME NEW S, NEW s \in Seq(S), NEW e \in S
  PROVE  /\ Append(s, e) \in Seq(S) /\ Len(Append(s, e)) = Len(s) + 1
         /\ Append(s, e)[Len(s) + 1] = e
         /\ DOMAIN Append(s, e) = 1 .. Len(s) + 1
         /\ \A i \in 1 .. Len(s) : Append(s, e)[i] = s[i]
OBVIOUS

\* the activations after a turn of the loop
Grown(deep, fs, f, c) ==
  LET rest == [fs EXCEPT ![Len(fs)] = Activation(f.obj, f.index + 1, TRUE)] IN
  IF deep THEN Append(rest, Activation(c, 1, TRUE)) ELSE rest

\* A turn of the loop takes its child out of what is to be walked.
Takes(t, deep, fs, new, base, f, c) ==
  /\ Stack(t, deep, new, base)
  /\ AllAhead(t, deep, new) = AllAhead(t, deep, fs) \ {c}
  /\ f.flag => c \in AllAhead(t, deep, fs)
  /\ \A y \in AllAhead(t, deep, new) : Precedes(t, c, y)

LEMMA StackGrows ==
  ASSUME NEW t, IsForest(t), NEW deep \in BOOLEAN, NEW fs, NEW base,
         Stack(t, deep, fs, base), fs # <<>>,
         NEW f, f = fs[Len(fs)], f.index \in DOMAIN t[f.obj],
         NEW c, c = t[f.obj][f.index],
         NEW new, new = Grown(deep, fs, f, c)
  PROVE  Takes(t, deep, fs, new, base, f, c)
<1>1. PICK n \in Nat : n = Len(fs)
  BY DEF Stack
<1>2. fs \in Seq(Frame) /\ DOMAIN fs = 1 .. n /\ n # 0 /\ n \in DOMAIN fs
  BY <1>1 DEF Stack
<1>0. f = fs[n] /\ f \in Frame
  BY <1>1, <1>2
<1>3. f.obj \in Object /\ f.index \in Nat /\ f.index # 0
  BY <1>0 DEF Frame
<1>4. c \in Object
  BY <1>3, ChildIsBelow
<1>5. PICK g : g = Activation(f.obj, f.index + 1, TRUE)
  OBVIOUS
<1>6. PICK h : h = Activation(c, 1, TRUE)
  OBVIOUS
<1>7. /\ g \in Frame /\ g.obj = f.obj /\ g.index = f.index + 1 /\ g.flag
      /\ h \in Frame /\ h.obj = c /\ h.index = 1 /\ h.flag
  BY <1>3, <1>4, <1>5, <1>6 DEF Frame, Activation
<1>8. PICK rest : rest = [fs EXCEPT ![n] = g]
  OBVIOUS
<1>9. /\ rest \in Seq(Frame) /\ Len(rest) = n /\ DOMAIN rest = 1 .. n
      /\ rest[n] = g /\ \A k \in 1 .. n : k # n => rest[k] = fs[k]
  BY <1>1, <1>2, <1>7, <1>8
<1>10. PICK m \in Nat : (deep => m = n + 1) /\ (~deep => m = n)
  OBVIOUS
<1>11. /\ new \in Seq(Frame) /\ Len(new) = m /\ DOMAIN new = 1 .. m
       /\ new[n] = g /\ \A k \in 1 .. n : k # n => new[k] = fs[k]
       /\ deep => new[n + 1] = h
  <2>0. new = IF deep THEN Append(rest, h) ELSE rest
    BY <1>1, <1>5, <1>6, <1>8 DEF Grown
  <2>1. CASE deep
    <3>1. new = Append(rest, h)
      BY <2>0, <2>1
    <3>2. /\ new \in Seq(Frame) /\ Len(new) = n + 1 /\ new[n + 1] = h
          /\ \A k \in 1 .. n : new[k] = rest[k]
      BY <1>7, <1>9, <3>1, AppendFacts
    <3>3. DOMAIN new = 1 .. n + 1 /\ n \in 1 .. n
      BY <1>2, <1>7, <1>9, <3>1, AppendFacts
    <3> QED  BY <1>9, <1>10, <2>1, <3>2, <3>3
  <2>2. CASE ~deep
    <3>1. new = rest
      BY <2>0, <2>2
    <3> QED  BY <1>2, <1>9, <1>10, <2>2, <3>1
  <2> QED  BY <2>1, <2>2
<1>12. \A k \in 1 .. m : \/ k \in 1 .. n - 1 \/ k = n \/ (deep /\ k = n + 1)
  BY <1>10
<1>21. \A k \in 1 .. n - 1 : k \in DOMAIN fs /\ k < n /\ new[k] = fs[k]
  <2>1. \A k \in 1 .. n - 1 : k \in 1 .. n /\ k # n /\ k < n
    OBVIOUS
  <2> QED  BY <1>2, <1>11, <2>1
<1>13. Stack(t, deep, new, base)
  <2>0. fs[1].obj = base
    BY DEF Stack
  <2>1. new[1].obj = base
    <3>1. CASE n = 1
      BY <1>0, <1>7, <1>11, <2>0, <3>1
    <3>2. CASE n # 1
      <4>0. 1 \in 1 .. n - 1
        BY <1>2, <3>2
      <4>1. new[1] = fs[1]
        BY <1>21, <4>0
      <4> QED  BY <2>0, <4>1
    <3> QED  BY <3>1, <3>2
  <2>2. Len(new) > 1 => deep
    BY <1>1, <1>10, <1>11 DEF Stack
  <2>3. ASSUME NEW k \in DOMAIN new, NEW l \in DOMAIN new, k < l
        PROVE  /\ new[k].flag /\ new[k].index - 1 \in DOMAIN t[new[k].obj]
               /\ new[l].obj \in Subtree(t, t[new[k].obj][new[k].index - 1])
    <3>1. CASE k \in 1 .. n - 1 /\ l \in 1 .. n
      <4>0. k \in DOMAIN fs /\ l \in DOMAIN fs /\ new[k] = fs[k]
        BY <1>2, <1>21, <3>1
      <4>1. new[l].obj = fs[l].obj
        BY <1>0, <1>7, <1>11, <3>1
      <4> QED  BY <2>3, <4>0, <4>1 DEF Stack
    <3>2. CASE k \in 1 .. n - 1 /\ deep /\ l = n + 1
      <4>1. k \in DOMAIN fs /\ k < n /\ new[k] = fs[k] /\ new[l].obj = c
        <5>1. new[l] = h
          BY <1>11, <3>2
        <5> QED  BY <1>7, <1>21, <3>2, <5>1
      <4>2. fs[k].flag /\ fs[k].index - 1 \in DOMAIN t[fs[k].obj]
            /\ f.obj \in Subtree(t, t[fs[k].obj][fs[k].index - 1])
        BY <1>0, <1>2, <4>1 DEF Stack
      <4>3. fs[k].obj \in Object
        <5>1. fs[k] \in Frame
          BY <1>2, <4>1
        <5> QED  BY <5>1 DEF Frame
      <4>4. t[fs[k].obj][fs[k].index - 1] \in Object
        BY <4>2, <4>3, ChildIsBelow
      <4>5. c \in Subtree(t, t[fs[k].obj][fs[k].index - 1])
        BY <4>2, <4>4, SubtreeFacts
      <4> QED  BY <4>1, <4>2, <4>5
    <3>3. CASE k = n /\ deep /\ l = n + 1
      <4>0. new[k] = g /\ new[l] = h
        BY <1>11, <3>3
      <4>1. g.index - 1 = f.index
        BY <1>3, <1>7
      <4>2. c \in Subtree(t, c)
        BY <1>4, SubtreeFacts
      <4> QED  BY <1>7, <4>0, <4>1, <4>2
    <3>4. k \in 1 .. m /\ l \in 1 .. m /\ k \in Nat /\ l \in Nat
      BY <1>11, SMTT(30)
    <3>5. CASE k \in 1 .. n - 1
      <4>1. l \in 1 .. n \/ (deep /\ l = n + 1)
        BY <1>10, <3>4
      <4> QED  BY <3>1, <3>2, <3>5, <4>1
    <3>6. CASE k \notin 1 .. n - 1
      <4>1. k = n /\ deep /\ l = n + 1
        BY <1>10, <2>3, <3>4, <3>6
      <4> QED  BY <3>3, <4>1
    <3> QED  BY <3>5, <3>6
  <2> QED  BY <1>11, <2>1, <2>2, <2>3 DEF Stack
<1>14. PICK lower : lower = AllAhead(t, deep, Front(fs))
  OBVIOUS
<1>15. AllAhead(t, deep, fs) = lower \cup Ahead(t, deep, f)
  BY <1>14, StackPops
<1>16. /\ deep => AllAhead(t, deep, new) =
                    (lower \cup Ahead(t, deep, g)) \cup Ahead(t, deep, h)
       /\ ~deep => AllAhead(t, deep, new) = lower \cup Ahead(t, deep, g)
  <2>1. /\ DOMAIN Front(fs) = 1 .. n - 1
        /\ \A k \in 1 .. n - 1 : Front(fs)[k] = fs[k]
    BY <1>1, <1>2 DEF Front
  <2>2. \A k \in 1 .. n - 1 : new[k] = fs[k] /\ k \in 1 .. m
    <3>1. n <= m
      BY <1>10
    <3>2. \A k \in 1 .. n - 1 : k \in 1 .. m
      BY <3>1
    <3> QED  BY <1>21, <3>2
  <2>3. n \in 1 .. m /\ (deep => n + 1 \in 1 .. m)
    BY <1>2, <1>10
  <2>4. lower = {x \in Object : \E k \in 1 .. n - 1 : x \in Ahead(t, deep, fs[k])}
    BY <1>14, <2>1 DEF AllAhead
  <2>5. AllAhead(t, deep, new) = {x \in Object : \E k \in 1 .. m : x \in Ahead(t, deep, new[k])}
    BY <1>11, ZenonT(40) DEF AllAhead
  <2>6. ASSUME NEW x \in Object
        PROVE  (\E k \in 1 .. m : x \in Ahead(t, deep, new[k])) <=>
                 \/ \E k \in 1 .. n - 1 : x \in Ahead(t, deep, fs[k])
                 \/ x \in Ahead(t, deep, g) \/ (deep /\ x \in Ahead(t, deep, h))
    BY <1>11, <1>12, <2>2, <2>3, ZenonT(40)
  <2>7. Ahead(t, deep, g) \subseteq Object /\ Ahead(t, deep, h) \subseteq Object
    BY DEF Ahead
  <2> QED  BY <2>4, <2>5, <2>6, <2>7
<1>17. /\ deep => Ahead(t, deep, f) \ {c} = Ahead(t, deep, g) \cup Ahead(t, deep, h)
       /\ ~deep => Ahead(t, deep, f) \ {c} = Ahead(t, deep, g)
       /\ f.flag => c \in Ahead(t, deep, f)
       /\ \A y \in Ahead(t, deep, f) \ {c} : Precedes(t, c, y)
  <2>1. f \in Frame /\ f.index \in DOMAIN t[f.obj] /\ c = t[f.obj][f.index]
    BY <1>0
  <2>2. Turns(t, deep, f, c)
    BY <2>1, LoopTurns
  <2> QED  BY <1>5, <1>6, <2>2 DEF Turns
<1>18. \A y \in lower : Precedes(t, c, y) /\ y # c
  BY <1>14, CallersComeLater
<1>19. AllAhead(t, deep, new) = AllAhead(t, deep, fs) \ {c}
  BY <1>15, <1>16, <1>17, <1>18
<1> QED  BY <1>13, <1>15, <1>17, <1>18, <1>19 DEF Takes

-----------------------------------------------------------------------------
(* The inductive invariant of a collection call *)

\* a call whose walk is forwards below one object
Forward(q) ==
  \/ q.member = "GetMatches"
  \/ q.tree \in {"children", "sibling"} /\ q.current \in Object

\* the object whose children a forward walk begins with
Start(t, q) ==
  IF q.member = "GetMatches" \/ (q.member = "GetMatchesTo" /\ ~q.recurse) THEN q.collection
  ELSE IF q.member = "GetMatchesFrom" /\ q.tree = "children" THEN q.current
  ELSE Parent(t, q.current)

\* GetMatchesTo stops at an object it meets: that one and what follows it
\* below its parent is not walked.
Stops(t, q) == q.member = "GetMatchesTo" /\ q.current \in Reach(t, q, Start(t, q))
FromOn(t, o) ==
  {x \in Object : \E j \in DOMAIN t[Parent(t, o)] :
     Index(t, o) <= j /\ x \in Subtree(t, t[Parent(t, o)][j])}
Cut(t, q) == IF Stops(t, q) THEN FromOn(t, q.current) ELSE {}

(* A walk of query_exec: its activations are below where it began and have *)
(* not passed the object it stops at, and what is listed and what they are *)
(* still to walk make up all that is sought.                               *)
QueryInv(t, q, fs, ls) ==
  IF q.sortby = "other" THEN fs = <<>> /\ ls = <<>>
  ELSE /\ Stack(t, q.traverse, fs, Start(t, q))
       /\ \A k \in DOMAIN fs :
            /\ fs[k].obj \notin Cut(t, q)
            /\ Stops(t, q) /\ fs[k].obj = Parent(t, q.current) =>
                 fs[k].index <= Index(t, q.current)
       /\ Going(t, q, ls, Sought(t, q), AllAhead(t, q.traverse, fs) \ Cut(t, q), FALSE)

\* From an object of the collection only the collection is walked.
Bounds(t, q) == IF Inside(t, q) THEN Below(t, q.collection) ELSE Object

\* inorder: still to walk is what the activations have and what is right of o.
InorderInv(t, q, fs, o, ls) ==
  /\ o \in Object /\ q.current \in Subtree(t, o)
  /\ Inside(t, q) => o \in Subtree(t, q.collection)
  /\ Stack(t, TRUE, fs, o)
  /\ Going(t, q, ls, {x \in Bounds(t, q) : Precedes(t, q.current, x)},
           (AllAhead(t, TRUE, fs) \cup RightOf(t, o)) \cap Bounds(t, q), FALSE)

\* The second walk of inorder: the list began with all that was to be found.
AgainInv(t, q, fs, o, ls) ==
  /\ Inside(t, q)
  /\ o \in Object /\ Stack(t, TRUE, fs, o)
  /\ ls \in Seq(Object)
  /\ \E n \in 0 .. Len(ls) :
       MoreThan(q, n) /\ Lists(t, q, SubSeq(ls, 1, n), Following(t, q), FALSE)

\* what a walk backwards is still to test, with o tested and left or not yet
Behind(t, how, o) ==
  {x \in Object : \/ Precedes(t, x, o)
                  \/ how = "test" /\ x = o
                  \/ how = "drill" /\ x \in Subtree(t, o)}

\* sort_order_rev_canonical: still to walk is what is behind o.
BackInv(t, q, how, o, ls) ==
  /\ how = "drill" => o \in Bounds(t, q)
  /\ Inside(t, q) => o \in Subtree(t, q.collection)
  /\ Going(t, q, ls, {x \in Bounds(t, q) : Precedes(t, x, q.current)},
           Behind(t, how, o) \cap Bounds(t, q), TRUE)

\* Each function walks for the calls it is for, and as its own part says.
WalkInv ==
  /\ stage # "none" =>
       reply = "none" /\ request \in AnyRequest
  /\ stage \in {"none", "test", "step", "drill"} => frames = <<>>
  /\ stage = "query" =>
       /\ Forward(request)
       /\ QueryInv(children, request, frames, matches)
  /\ stage \in {"inorder", "again", "test", "step", "drill"} =>
       request.tree = "inorder" /\ request.current \in Object
  /\ stage \in {"inorder", "again"} => request.member = "GetMatchesFrom"
  /\ stage \in {"test", "step", "drill"} => request.member = "GetMatchesTo"
  /\ stage = "inorder" => InorderInv(children, request, frames, at, matches)
  /\ stage = "again" => AgainInv(children, request, frames, at, matches)
  /\ stage \in {"test", "step", "drill"} =>
       BackInv(children, request, stage, at, matches)

\* what holds between any two steps: a call that is answered has no walk left
CollectionInv ==
  /\ CollectionTypeOK
  /\ reply # "none" => request \in AnyRequest /\ stage = "none"
  /\ WalkInv
  /\ WalksListInOrder

-----------------------------------------------------------------------------
(* Where a forward walk begins, and what it is to reach *)

LEMMA RequestFacts ==
  ASSUME NEW q \in AnyRequest
  PROVE  /\ q.collection \in Object /\ q.current \in Object \cup {Null}
         /\ q.count \in Int /\ q.traverse \in BOOLEAN /\ q.recurse \in BOOLEAN
         /\ q.rule \in Rules
         /\ q.member \in {"GetMatches", "GetMatchesFrom", "GetMatchesTo"}
         /\ q.tree \in TreeTraversal /\ q.sortby \in SortOrder
<1>1. CASE q \in GetRequest
  BY <1>1, CountsAssumption DEF GetRequest, TreeTraversal
<1>2. CASE q \in FromRequest
  BY <1>2, CountsAssumption DEF FromRequest
<1>3. CASE q \in ToRequest
  BY <1>3, CountsAssumption DEF ToRequest
<1> QED  BY <1>1, <1>2, <1>3 DEF AnyRequest

LEMMA IndicesAreNumbers ==
  ASSUME NEW t, IsForest(t), NEW p \in Object
  PROVE  t[p] \in Seq(Object) /\ \A j \in DOMAIN t[p] : j \in Nat /\ 1 <= j
<1>1. t[p] \in Seq(Object)
  BY DEF IsForest
<1> QED  BY <1>1

\* Where an object of its parent's subtree is, seen from a child.
LEMMA SiblingOrder ==
  ASSUME NEW t, IsForest(t), NEW p \in Object, NEW i \in DOMAIN t[p], NEW j \in DOMAIN t[p],
         NEW x \in Subtree(t, t[p][j])
  PROVE  /\ Precedes(t, t[p][i], x) <=> i < j \/ (i = j /\ x # t[p][i])
         /\ Precedes(t, x, t[p][i]) <=> j < i
<1>1. PICK c : c = t[p][i]
  OBVIOUS
<1>2. /\ c \in Object /\ x \in Object /\ x \in Below(t, p) /\ x \in Subtree(t, p) /\ x # p
      /\ t[p][j] \in Object
  BY <1>1, ChildIsBelow, SubtreeFacts DEF Below
<1>3. i \in Nat /\ j \in Nat
  BY IndicesAreNumbers
<1>4. x \in Below(t, c) <=> i = j /\ x # c
  BY <1>1, SiblingsApart DEF Below
<1>5. x \in RightOf(t, c) <=> i < j
  <2>1. x \notin RightOf(t, p)
    BY <1>2, RightOfSubtree
  <2>2. \A k \in DOMAIN t[p] : x \in Subtree(t, t[p][k]) => k = j
    BY SiblingsApart
  <2> QED  BY <1>1, <1>2, <2>1, <2>2, RightOfChild
<1>6. Precedes(t, x, c) <=> j < i
  <2>1. Precedes(t, p, x)
    BY <1>2 DEF Precedes
  <2>2. ~Precedes(t, x, p)
    BY <1>2, <2>1, PrecedesOneWay
  <2>3. \A k \in DOMAIN t[p] : x \in Subtree(t, t[p][k]) => k = j
    BY SiblingsApart
  <2> QED  BY <1>1, <1>2, <2>2, <2>3, PrecedesChild
<1> QED  BY <1>1, <1>4, <1>5, <1>6 DEF Precedes

LEMMA DownIsBelow ==
  ASSUME NEW t, IsForest(t), NEW deep \in BOOLEAN, NEW p \in Object, NEW j \in DOMAIN t[p]
  PROVE  /\ Down(t, deep, t[p][j]) \subseteq Subtree(t, t[p][j])
         /\ Down(t, deep, t[p][j]) \subseteq Object
         /\ t[p][j] \in Down(t, deep, t[p][j])
BY ChildIsBelow, SubtreeFacts DEF Down

LEMMA ReachIsDown ==
  ASSUME NEW t, IsForest(t), Null \notin Object, NEW q, q.traverse \in BOOLEAN, NEW p \in Object
  PROVE  /\ Reach(t, q, p) =
              {x \in Object : \E j \in DOMAIN t[p] : x \in Down(t, q.traverse, t[p][j])}
         /\ Reach(t, q, p) \subseteq Below(t, p)
<1>1. \A x \in Below(t, p) : \E j \in DOMAIN t[p] : x \in Subtree(t, t[p][j])
  BY SubtreeUnfolds DEF Below
<1>2. \A j \in DOMAIN t[p] : Subtree(t, t[p][j]) \subseteq Below(t, p) /\ t[p][j] \in Object
  BY ChildIsBelow
<1>3. Below(t, p) \subseteq Object
  BY SubtreeFacts DEF Below
<1>4. \A j \in DOMAIN t[p] : t[p][j] \in Subtree(t, t[p][j])
  BY <1>2, SubtreeFacts
<1>5. CASE q.traverse
  BY <1>1, <1>2, <1>3, <1>5 DEF Reach, Down
<1>6. CASE ~q.traverse
  <2>1. \A x : x \in ToSet(t[p]) <=> \E j \in DOMAIN t[p] : x = t[p][j]
    BY DEF ToSet
  <2> QED  BY <1>2, <1>4, <1>6, <2>1 DEF Reach, Down
<1> QED  BY <1>5, <1>6

\* from which child a walk forwards begins, and whether with a test of it
FirstIndex(t, q) ==
  IF q.member = "GetMatchesFrom" /\ q.tree = "sibling" THEN Index(t, q.current) ELSE 1
First(t, q) == Activation(Start(t, q), FirstIndex(t, q), q.member # "GetMatchesFrom")

LEMMA FirstFacts ==
  ASSUME NEW t, NEW q
  PROVE  /\ First(t, q).obj = Start(t, q)
         /\ First(t, q).index = FirstIndex(t, q)
         /\ First(t, q).flag = (q.member # "GetMatchesFrom")
BY DEF First, Activation

LEMMA RootAlone ==
  ASSUME NEW t, IsForest(t), NEW r \in Object,
         \A p \in Object : \A i \in DOMAIN t[p] : t[p][i] # r,
         NEW y \in Object, r \in Subtree(t, y)
  PROVE  r = y
<1> DEFINE S == {x \in Subtree(t, y) : x = r => r = y}
<1>1. ASSUME NEW x \in S, NEW j \in DOMAIN t[x]
      PROVE  t[x][j] \in S
  <2>1. x \in Object /\ x \in Subtree(t, y)
    BY SubtreeFacts
  <2> QED  BY <2>1, SubtreeFacts
<1>2. S \in SUBSET Object /\ y \in S
  BY SubtreeFacts
<1>3. Subtree(t, y) \subseteq S
  BY <1>1, <1>2, SubtreeFacts
<1> QED  BY <1>3

\* What has something above it is a child.
LEMMA BelowHasParent ==
  ASSUME NEW t, IsForest(t), Null \notin Object, NEW p \in Object, NEW o \in Below(t, p)
  PROVE  /\ o \in Object /\ Parent(t, o) \in Object
         /\ Index(t, o) \in DOMAIN t[Parent(t, o)]
         /\ t[Parent(t, o)][Index(t, o)] = o
         /\ Parent(t, o) \in Subtree(t, p)
<1>1. o \in Object /\ o \in Subtree(t, p) /\ o # p
  BY SubtreeFacts DEF Below
<1>2. ~\A q \in Object : \A i \in DOMAIN t[q] : t[q][i] # o
  BY <1>1, RootAlone
<1>3. /\ Parent(t, o) \in Object
      /\ Index(t, o) \in DOMAIN t[Parent(t, o)]
      /\ t[Parent(t, o)][Index(t, o)] = o
  BY <1>1, <1>2, ParentAndIndex
<1>4. Parent(t, o) \in Subtree(t, p)
  BY <1>1, <1>3, ParentInSubtree
<1> QED  BY <1>1, <1>3, <1>4

\* An object that is a child comes before what follows it below its parent.
LEMMA FromOnIs ==
  ASSUME NEW t, IsForest(t), Null \notin Object, NEW o \in Object, Parent(t, o) \in Object,
         NEW x \in Object
  PROVE  x \in FromOn(t, o) <=> x \in Below(t, Parent(t, o)) /\ ~Precedes(t, x, o)
<1>1. PICK p \in Object : p = Parent(t, o)
  OBVIOUS
<1>2. PICK i \in DOMAIN t[p] : i = Index(t, o) /\ t[p][i] = o
  BY <1>1, ParentAndIndex
<1>3. \A j \in DOMAIN t[p] : j \in Nat
  BY IndicesAreNumbers
<1>4. \A j \in DOMAIN t[p] : x \in Subtree(t, t[p][j]) =>
        (Precedes(t, x, o) <=> j < i) /\ x \in Below(t, p)
  <2>1. ASSUME NEW j \in DOMAIN t[p], x \in Subtree(t, t[p][j])
        PROVE  Precedes(t, x, t[p][i]) <=> j < i
    BY <2>1, SiblingOrder
  <2> QED  BY <1>2, <2>1, ChildIsBelow
<1>5. x \in Below(t, p) => \E j \in DOMAIN t[p] : x \in Subtree(t, t[p][j])
  BY SubtreeUnfolds DEF Below
<1>6. x \in FromOn(t, o) <=> \E j \in DOMAIN t[p] : i <= j /\ x \in Subtree(t, t[p][j])
  BY <1>1, <1>2 DEF FromOn
<1>7. \A j \in DOMAIN t[p] : i <= j <=> ~(j < i)
  BY <1>2, <1>3
<1> QED  BY <1>1, <1>4, <1>5, <1>6, <1>7

LEMMA AheadOfFirst ==
  ASSUME NEW t, IsForest(t), Null \notin Object, NEW q, q.traverse \in BOOLEAN,
         Start(t, q) \in Object, FirstIndex(t, q) = 1
  PROVE  /\ q.member # "GetMatchesFrom" =>
              Ahead(t, q.traverse, First(t, q)) = Reach(t, q, Start(t, q))
         /\ q.member = "GetMatchesFrom" =>
              Ahead(t, q.traverse, First(t, q)) =
                {x \in Reach(t, q, Start(t, q)) : x # t[Start(t, q)][1]}
<1>1. PICK p \in Object : p = Start(t, q)
  OBVIOUS
<1>2. First(t, q).obj = p /\ First(t, q).index = 1
      /\ First(t, q).flag = (q.member # "GetMatchesFrom")
  BY <1>1, FirstFacts
<1>3. \A j \in DOMAIN t[p] : 1 <= j
  BY IndicesAreNumbers
<1>4. Reach(t, q, p) =
        {x \in Object : \E j \in DOMAIN t[p] : x \in Down(t, q.traverse, t[p][j])}
  BY ReachIsDown
<1>5. Ahead(t, q.traverse, First(t, q)) =
        {x \in Object : \E j \in DOMAIN t[p] :
           /\ x \in Down(t, q.traverse, t[p][j])
           /\ q.member # "GetMatchesFrom" \/ x # t[p][1]}
  BY <1>2, <1>3 DEF Ahead
<1> QED  BY <1>1, <1>4, <1>5

LEMMA SoughtIs ==
  ASSUME NEW t, IsForest(t), Null \notin Object, NEW q \in AnyRequest, Forward(q)
  PROVE  /\ Start(t, q) \in Object \cup {Null}
         /\ Start(t, q) = Null => Sought(t, q) = {}
         /\ Start(t, q) \in Object =>
              Sought(t, q) = Ahead(t, q.traverse, First(t, q)) \ Cut(t, q)
         /\ Start(t, q) \in Object => First(t, q) \in Frame
<1>1. /\ q.collection \in Object /\ q.traverse \in BOOLEAN /\ q.recurse \in BOOLEAN
      /\ q.member \in {"GetMatches", "GetMatchesFrom", "GetMatchesTo"}
  BY RequestFacts
<1>2. PICK o : o = q.current
  OBVIOUS
<1>3. PICK up : up = Parent(t, o)
  OBVIOUS
<1>4. o \in Object => \/ up = Null /\ \A p \in Object : \A i \in DOMAIN t[p] : t[p][i] # o
                      \/ /\ up \in Object /\ Index(t, o) \in DOMAIN t[up]
                         /\ t[up][Index(t, o)] = o
  BY <1>3, ParentAndIndex
<1>5. First(t, q).obj = Start(t, q) /\ First(t, q).index = FirstIndex(t, q)
      /\ First(t, q).flag = (q.member # "GetMatchesFrom")
  BY FirstFacts
<1>6. ASSUME FirstIndex(t, q) \in Nat \ {0}, Start(t, q) \in Object
      PROVE  First(t, q) \in Frame
  BY <1>6 DEF First, Activation, Frame
<1>7. CASE q.member = "GetMatches"
  <2>1. /\ Start(t, q) = q.collection /\ FirstIndex(t, q) = 1 /\ Cut(t, q) = {}
        /\ Sought(t, q) = Reach(t, q, q.collection)
    BY <1>7 DEF Start, FirstIndex, Cut, Stops, Sought
  <2> QED  BY <1>1, <1>6, <1>7, <2>1, AheadOfFirst
<1>8. CASE q.member = "GetMatchesFrom" /\ q.tree = "children"
  <2>1. /\ Start(t, q) = o /\ FirstIndex(t, q) = 1 /\ Cut(t, q) = {} /\ o \in Object
        /\ Sought(t, q) = {x \in Reach(t, q, o) : x # t[o][1]}
    BY <1>2, <1>8 DEF Start, FirstIndex, Cut, Stops, Sought, Forward
  <2> QED  BY <1>1, <1>6, <1>8, <2>1, AheadOfFirst
<1>9. CASE q.member = "GetMatchesFrom" /\ q.tree = "sibling"
  <2>1. /\ Start(t, q) = up /\ FirstIndex(t, q) = Index(t, o) /\ Cut(t, q) = {}
        /\ o \in Object
        /\ Sought(t, q) = {x \in Reach(t, q, up) : Precedes(t, o, x)}
    BY <1>2, <1>3, <1>9 DEF Start, FirstIndex, Cut, Stops, Sought, Forward
  <2>2. CASE up = Null
    BY <2>1, <2>2 DEF Reach
  <2>3. CASE up \in Object
    <3>1. PICK i \in DOMAIN t[up] : i = Index(t, o) /\ t[up][i] = o
      BY <1>4, <2>1, <2>3
    <3>2. First(t, q) \in Frame
      BY <1>6, <2>1, <2>3, <3>1, IndicesAreNumbers
    <3>3. \A j \in DOMAIN t[up] : j \in Nat
      BY <2>3, IndicesAreNumbers
    <3>4. Reach(t, q, up) =
            {x \in Object : \E j \in DOMAIN t[up] : x \in Down(t, q.traverse, t[up][j])}
      BY <1>1, <2>3, ReachIsDown
    <3>5. Ahead(t, q.traverse, First(t, q)) =
            {x \in Object : \E j \in DOMAIN t[up] :
               i <= j /\ x \in Down(t, q.traverse, t[up][j]) /\ x # o}
      BY <1>5, <1>9, <2>1, <3>1 DEF Ahead
    <3>6. ASSUME NEW j \in DOMAIN t[up], NEW x \in Down(t, q.traverse, t[up][j])
          PROVE  Precedes(t, o, x) <=> i <= j /\ x # o
      <4>1. x \in Subtree(t, t[up][j])
        BY <1>1, <2>3, DownIsBelow
      <4>2. Precedes(t, t[up][i], x) <=> i < j \/ (i = j /\ x # t[up][i])
        BY <2>3, <4>1, SiblingOrder
      <4>3. x = o => i = j
        <5>1. o \in Subtree(t, t[up][i])
          BY <2>1, <3>1, SubtreeFacts
        <5> QED  BY <2>3, <4>1, <5>1, SiblingsApart
      <4> QED  BY <3>1, <3>3, <4>2, <4>3
    <3> QED  BY <2>1, <2>3, <3>2, <3>4, <3>5, <3>6
  <2> QED  BY <1>4, <2>1, <2>2, <2>3
<1>10. CASE q.member = "GetMatchesTo" /\ q.recurse
  <2>1. /\ Start(t, q) = up /\ FirstIndex(t, q) = 1 /\ o \in Object
        /\ Sought(t, q) = {x \in Reach(t, q, up) : Precedes(t, x, o)}
    BY <1>2, <1>3, <1>10 DEF Start, FirstIndex, Sought, Forward
  <2>2. CASE up = Null
    BY <2>1, <2>2 DEF Reach
  <2>3. CASE up \in Object
    <3>1. First(t, q) \in Frame
      BY <1>6, <2>1, <2>3
    <3>2. Ahead(t, q.traverse, First(t, q)) = Reach(t, q, up)
      BY <1>1, <1>10, <2>1, <2>3, AheadOfFirst
    <3>3. o \in Reach(t, q, up)
      <4>1. o \in Down(t, q.traverse, t[up][Index(t, o)])
        BY <1>1, <1>4, <2>1, <2>3, DownIsBelow
      <4> QED  BY <1>1, <1>4, <2>1, <2>3, <4>1, ReachIsDown
    <3>4. Cut(t, q) = FromOn(t, o)
      BY <1>2, <1>10, <2>1, <3>3 DEF Cut, Stops
    <3>5. Reach(t, q, up) \subseteq Below(t, up) /\ Reach(t, q, up) \subseteq Object
      BY <1>1, <2>3, ReachIsDown
    <3>6. \A x \in Object : x \in FromOn(t, o) <=> x \in Below(t, up) /\ ~Precedes(t, x, o)
      BY <1>3, <2>1, <2>3, FromOnIs
    <3> QED  BY <2>1, <2>3, <3>1, <3>2, <3>4, <3>5, <3>6
  <2> QED  BY <1>4, <2>1, <2>2, <2>3
<1>11. CASE q.member = "GetMatchesTo" /\ ~q.recurse
  <2>1. /\ Start(t, q) = q.collection /\ FirstIndex(t, q) = 1 /\ o \in Object
        /\ Sought(t, q) =
             {x \in Reach(t, q, q.collection) :
                ~(/\ o \in Reach(t, q, q.collection)
                  /\ x \in Below(t, up) /\ ~Precedes(t, x, o))}
    BY <1>2, <1>3, <1>11 DEF Start, FirstIndex, Sought, Forward
  <2>2. First(t, q) \in Frame
    BY <1>1, <1>6, <2>1
  <2>3. Ahead(t, q.traverse, First(t, q)) = Reach(t, q, q.collection)
    BY <1>1, <1>11, <2>1, AheadOfFirst
  <2>4. Reach(t, q, q.collection) \subseteq Below(t, q.collection)
        /\ Reach(t, q, q.collection) \subseteq Object
    BY <1>1, ReachIsDown
  <2>5. Stops(t, q) <=> o \in Reach(t, q, q.collection)
    BY <1>2, <1>11, <2>1 DEF Stops
  <2>6. CASE o \notin Reach(t, q, q.collection)
    BY <1>1, <2>1, <2>2, <2>3, <2>5, <2>6 DEF Cut
  <2>7. CASE o \in Reach(t, q, q.collection)
    <3>1. up \in Object
      BY <1>1, <1>3, <2>4, <2>7, BelowHasParent
    <3>2. Cut(t, q) = FromOn(t, o)
      BY <1>2, <2>5, <2>7 DEF Cut
    <3>3. \A x \in Object : x \in FromOn(t, o) <=> x \in Below(t, up) /\ ~Precedes(t, x, o)
      BY <1>3, <2>1, <3>1, FromOnIs
    <3> QED  BY <1>1, <2>1, <2>2, <2>3, <2>4, <2>7, <3>2, <3>3
  <2> QED  BY <2>6, <2>7
<1> QED  BY <1>1, <1>7, <1>8, <1>9, <1>10, <1>11 DEF Forward

LEMMA RightOfIs ==
  ASSUME NEW t, IsForest(t), NEW a \in Object, NEW b \in Object
  PROVE  b \in RightOf(t, a) <=>
           \E p \in Object : \E i \in DOMAIN t[p] : \E j \in DOMAIN t[p] :
             i < j /\ a \in Subtree(t, t[p][i]) /\ b \in Subtree(t, t[p][j])
BY DEF RightOf

LEMMA PrecedesOnwards ==
  ASSUME NEW t, IsForest(t), NEW a \in Object, NEW b \in Object, NEW c \in Object,
         Precedes(t, a, b), Precedes(t, b, c)
  PROVE  Precedes(t, a, c)
<1>1. SUFFICES c \in Below(t, a) \/ c \in RightOf(t, a)
  BY DEF Precedes
<1>2. CASE b \in Below(t, a)
  <2>1. Subtree(t, b) \subseteq Below(t, a) /\ b \in Subtree(t, a)
    BY <1>2, BelowIsStrict DEF Below
  <2>2. CASE c \in Below(t, b)
    BY <2>1, <2>2 DEF Below
  <2>3. CASE c \in RightOf(t, b)
    <3>1. PICK p \in Object : \E i \in DOMAIN t[p] : \E j \in DOMAIN t[p] :
             i < j /\ b \in Subtree(t, t[p][i]) /\ c \in Subtree(t, t[p][j])
      BY <2>3, RightOfIs
    <3>2. PICK i \in DOMAIN t[p], j \in DOMAIN t[p] :
             i < j /\ b \in Subtree(t, t[p][i]) /\ c \in Subtree(t, t[p][j])
      BY <3>1
    <3>3. t[p][i] \in Object /\ t[p][i] \in Subtree(t, t[p][i])
          /\ Subtree(t, t[p][j]) \subseteq Below(t, p)
      BY ChildIsBelow, SubtreeFacts
    <3>4. CASE a \in Subtree(t, t[p][i])
      BY <3>2, <3>4, RightOfIs
    <3>5. CASE t[p][i] \in Subtree(t, a) /\ t[p][i] # a
      <4>1. p \in Subtree(t, a)
        BY <3>5, ParentInSubtree
      <4>2. Below(t, p) \subseteq Below(t, a)
        BY <4>1, BelowIsStrict DEF Below
      <4> QED  BY <3>2, <3>3, <4>2
    <3> QED  BY <2>1, <3>2, <3>3, <3>4, <3>5, SubtreesNest
  <2> QED  BY <2>2, <2>3 DEF Precedes
<1>3. CASE b \in RightOf(t, a)
  <2>1. PICK p \in Object : \E i \in DOMAIN t[p] : \E j \in DOMAIN t[p] :
           i < j /\ a \in Subtree(t, t[p][i]) /\ b \in Subtree(t, t[p][j])
    BY <1>3, RightOfIs
  <2>2. PICK i \in DOMAIN t[p], j \in DOMAIN t[p] :
           i < j /\ a \in Subtree(t, t[p][i]) /\ b \in Subtree(t, t[p][j])
    BY <2>1
  <2>3. t[p][j] \in Object /\ t[p][i] \in Object
    BY ChildIsBelow
  <2>4. ASSUME c \in Subtree(t, t[p][j])
        PROVE  c \in RightOf(t, a)
    BY <2>2, <2>4, RightOfIs
  <2>5. CASE c \in Below(t, b)
    <3>1. c \in Subtree(t, b)
      BY <2>5 DEF Below
    <3>2. c \in Subtree(t, t[p][j])
      BY <2>2, <2>3, <3>1, SubtreeOfSubtree
    <3> QED  BY <2>4, <3>2
  <2>6. CASE c \in RightOf(t, b)
    <3>1. PICK q \in Object : \E k \in DOMAIN t[q] : \E l \in DOMAIN t[q] :
             k < l /\ b \in Subtree(t, t[q][k]) /\ c \in Subtree(t, t[q][l])
      BY <2>6, RightOfIs
    <3>2. PICK k \in DOMAIN t[q], l \in DOMAIN t[q] :
             k < l /\ b \in Subtree(t, t[q][k]) /\ c \in Subtree(t, t[q][l])
      BY <3>1
    <3>3. /\ t[q][k] \in Object /\ t[q][l] \in Object /\ t[q][l] \in Subtree(t, q)
          /\ c \in Subtree(t, q)
      BY <3>2, ChildIsBelow DEF Below
    <3>4. CASE t[q][k] = t[p][j]
      <4>1. q = p /\ k = j
        BY <3>4 DEF IsForest
      <4>2. i \in Nat /\ j \in Nat /\ l \in Nat
        BY <4>1, IndicesAreNumbers
      <4>3. l \in DOMAIN t[p] /\ i < l /\ c \in Subtree(t, t[p][l])
        BY <2>2, <3>2, <4>1, <4>2
      <4> QED  BY <2>2, <4>3, RightOfIs
    <3>5. CASE t[q][k] \in Subtree(t, t[p][j]) /\ t[q][k] # t[p][j]
      <4>1. q \in Subtree(t, t[p][j])
        BY <2>3, <3>5, ParentInSubtree
      <4>2. c \in Subtree(t, t[p][j])
        BY <2>3, <3>3, <4>1, SubtreeOfSubtree
      <4> QED  BY <2>4, <4>2
    <3>6. CASE t[p][j] \in Subtree(t, t[q][k]) /\ t[q][k] # t[p][j]
      <4>1. p \in Subtree(t, t[q][k])
        BY <3>3, <3>6, ParentInSubtree
      <4>2. a \in Subtree(t, p)
        BY <2>2, ChildIsBelow DEF Below
      <4>3. a \in Subtree(t, t[q][k])
        BY <3>3, <4>1, <4>2, SubtreeOfSubtree
      <4> QED  BY <3>2, <4>3, RightOfIs
    <3> QED  BY <2>2, <2>3, <3>2, <3>3, <3>4, <3>5, <3>6, SubtreesNest
  <2> QED  BY <2>5, <2>6 DEF Precedes
<1> QED  BY <1>2, <1>3 DEF Precedes

LEMMA PrecedesOrFollows ==
  ASSUME NEW t, IsForest(t), NEW r \in Object, NEW b \in Subtree(t, r), NEW a \in Subtree(t, r)
  PROVE  a = b \/ Precedes(t, a, b) \/ Precedes(t, b, a)
<1> DEFINE S == {x \in Subtree(t, r) : x = b \/ Precedes(t, x, b) \/ Precedes(t, b, x)}
<1>0. b \in Object
  BY SubtreeFacts
<1>1. ASSUME NEW y \in S, NEW i \in DOMAIN t[y]
      PROVE  t[y][i] \in S
  <2>1. y \in Object /\ y \in Subtree(t, r)
    BY SubtreeFacts
  <2>2. PICK c \in Object : c = t[y][i]
    BY <2>1, ChildIsBelow
  <2>3. c \in Subtree(t, r) /\ c \in Subtree(t, y) /\ c \in Subtree(t, c) /\ c # y
    BY <2>1, <2>2, SubtreeFacts, ChildIsBelow
  <2>4. Precedes(t, y, c)
    BY <2>3 DEF Precedes, Below
  <2>5. CASE y = b
    BY <2>2, <2>3, <2>4, <2>5
  <2>6. CASE Precedes(t, b, y)
    BY <1>0, <2>1, <2>2, <2>3, <2>4, <2>6, PrecedesOnwards
  <2>7. CASE b \in RightOf(t, y)
    <3>1. b \in RightOf(t, c)
      BY <1>0, <2>1, <2>2, <2>7, RightOfChild
    <3> QED  BY <2>2, <2>3, <3>1 DEF Precedes
  <2>8. CASE b \in Below(t, y)
    <3>1. PICK j \in DOMAIN t[y] : b \in Subtree(t, t[y][j])
      BY <2>1, <2>8, SubtreeUnfolds DEF Below
    <3>2. /\ Precedes(t, c, b) <=> i < j \/ (i = j /\ b # c)
          /\ Precedes(t, b, c) <=> j < i
      BY <2>1, <2>2, <3>1, SiblingOrder
    <3>3. i \in Nat /\ j \in Nat
      BY <2>1, IndicesAreNumbers
    <3> QED  BY <2>2, <2>3, <3>2, <3>3
  <2> QED  BY <2>5, <2>6, <2>7, <2>8 DEF Precedes
<1>2. S \in SUBSET Object /\ r \in S
  BY SubtreeFacts DEF Precedes, Below
<1>3. Subtree(t, r) \subseteq S
  BY <1>1, <1>2, SubtreeFacts
<1> QED  BY <1>3

(* Document order, in which the walks of collection-adaptor.c are said to  *)
(* list, is a strict order of the objects of every tree, and a total one   *)
(* of what is below one object: "the first matches" are well defined.      *)
THEOREM DocumentOrder ==
  \A t \in Trees :
    /\ \A a, b \in Object : Precedes(t, a, b) => ~Precedes(t, b, a)
    /\ \A a, b, c \in Object : Precedes(t, a, b) /\ Precedes(t, b, c) => Precedes(t, a, c)
    /\ \A r \in Object : \A a, b \in Subtree(t, r) :
         a = b \/ Precedes(t, a, b) \/ Precedes(t, b, a)
<1> SUFFICES ASSUME NEW t \in Trees, IsForest(t)
             PROVE
    /\ \A a, b \in Object : Precedes(t, a, b) => ~Precedes(t, b, a)
    /\ \A a, b, c \in Object : Precedes(t, a, b) /\ Precedes(t, b, c) => Precedes(t, a, c)
    /\ \A r \in Object : \A a, b \in Subtree(t, r) :
         a = b \/ Precedes(t, a, b) \/ Precedes(t, b, a)
  BY TreesAssumption
<1>1. \A a, b \in Object : Precedes(t, a, b) => ~Precedes(t, b, a)
  BY PrecedesOneWay
<1>2. \A a, b, c \in Object : Precedes(t, a, b) /\ Precedes(t, b, c) => Precedes(t, a, c)
  BY PrecedesOnwards
<1>3. \A r \in Object : \A a, b \in Subtree(t, r) :
         a = b \/ Precedes(t, a, b) \/ Precedes(t, b, a)
  BY PrecedesOrFollows
<1> QED  BY <1>1, <1>2, <1>3

-----------------------------------------------------------------------------
(* Turns of the loop *)

LEMMA OneActivation ==
  ASSUME NEW t, NEW deep \in BOOLEAN, NEW f \in Frame
  PROVE  /\ Stack(t, deep, <<f>>, f.obj)
         /\ AllAhead(t, deep, <<f>>) = Ahead(t, deep, f)
<1>1. <<f>> \in Seq(Frame) /\ Len(<<f>>) = 1 /\ DOMAIN <<f>> = {1} /\ <<f>>[1] = f
  OBVIOUS
<1>2. PICK fs : fs = <<f>>
  OBVIOUS
<1>3. fs \in Seq(Frame) /\ Len(fs) = 1 /\ DOMAIN fs = {1} /\ fs[1] = f
  BY <1>1, <1>2
<1>4. Stack(t, deep, fs, f.obj)
  BY <1>3 DEF Stack
<1>5. AllAhead(t, deep, fs) = Ahead(t, deep, f)
  <2>1. Ahead(t, deep, f) \subseteq Object
    BY DEF Ahead
  <2> QED  BY <1>3, <2>1 DEF AllAhead
<1> QED  BY <1>2, <1>4, <1>5

LEMMA NoActivation ==
  ASSUME NEW t, NEW deep \in BOOLEAN, NEW base
  PROVE  Stack(t, deep, <<>>, base) /\ AllAhead(t, deep, <<>>) = {}
<1>1. PICK fs : fs = <<>>
  OBVIOUS
<1>2. fs \in Seq(Frame) /\ Len(fs) = 0 /\ DOMAIN fs = {}
  BY <1>1
<1>3. Stack(t, deep, fs, base)
  BY <1>1, <1>2 DEF Stack
<1>4. AllAhead(t, deep, fs) = {}
  BY <1>2 DEF AllAhead
<1> QED  BY <1>1, <1>3, <1>4

\* A loop that has come past the last child has nothing left to walk.
LEMMA LoopIsOver ==
  ASSUME NEW t, IsForest(t), NEW deep \in BOOLEAN, NEW f \in Frame,
         f.index \notin DOMAIN t[f.obj]
  PROVE  Ahead(t, deep, f) = {}
<1>1. PICK p \in Object, i \in Nat : p = f.obj /\ i = f.index /\ i # 0
  BY DEF Frame
<1>2. t[p] \in Seq(Object)
  BY IndicesAreNumbers
<1>3. \A j \in DOMAIN t[p] : ~(i <= j)
  <2>1. ASSUME NEW j \in DOMAIN t[p], i <= j
        PROVE  i \in DOMAIN t[p]
    BY <1>1, <1>2, <2>1
  <2> QED  BY <1>1, <2>1
<1> QED  BY <1>1, <1>3 DEF Ahead

LEMMA GrownFacts ==
  ASSUME NEW deep \in BOOLEAN, NEW fs \in Seq(Frame), fs # <<>>,
         NEW f, f = fs[Len(fs)], NEW c \in Object,
         NEW new, new = Grown(deep, fs, f, c)
  PROVE  \A k \in DOMAIN new :
           \/ k \in DOMAIN fs /\ new[k] = fs[k]
           \/ new[k].obj = f.obj /\ new[k].index = f.index + 1
           \/ new[k].obj = c /\ new[k].index = 1
<1>1. PICK n \in Nat : n = Len(fs) /\ DOMAIN fs = 1 .. n /\ n # 0
  OBVIOUS
<1>2. f = fs[n] /\ f \in Frame
  BY <1>1
<1>3. f.obj \in Object /\ f.index \in Nat /\ f.index # 0
  BY <1>2 DEF Frame
<1>4. PICK g : g = Activation(f.obj, f.index + 1, TRUE)
  OBVIOUS
<1>5. PICK h : h = Activation(c, 1, TRUE)
  OBVIOUS
<1>6. /\ g \in Frame /\ g.obj = f.obj /\ g.index = f.index + 1
      /\ h \in Frame /\ h.obj = c /\ h.index = 1
  BY <1>3, <1>4, <1>5 DEF Frame, Activation
<1>7. PICK rest : rest = [fs EXCEPT ![n] = g]
  OBVIOUS
<1>8. /\ rest \in Seq(Frame) /\ Len(rest) = n /\ DOMAIN rest = 1 .. n
      /\ rest[n] = g /\ \A k \in 1 .. n : k # n => rest[k] = fs[k]
  BY <1>1, <1>6, <1>7
<1>9. new = IF deep THEN Append(rest, h) ELSE rest
  BY <1>1, <1>4, <1>5, <1>7 DEF Grown
<1>10. CASE ~deep
  <2>1. new = rest
    BY <1>9, <1>10
  <2> QED  BY <1>1, <1>6, <1>8, <2>1
<1>11. CASE deep
  <2>1. new = Append(rest, h)
    BY <1>9, <1>11
  <2>2. DOMAIN new = 1 .. n + 1 /\ new[n + 1] = h /\ \A k \in 1 .. n : new[k] = rest[k]
    BY <1>6, <1>8, <2>1, AppendFacts
  <2>3. \A k \in 1 .. n + 1 : k \in 1 .. n \/ k = n + 1
    BY <1>1
  <2> QED  BY <1>1, <1>6, <1>8, <2>2, <2>3
<1> QED  BY <1>10, <1>11

\* A child that a walk skips has nothing to do with what it is still to reach.
LEMMA UntestedIsNotAhead ==
  ASSUME NEW t, IsForest(t), NEW deep \in BOOLEAN, NEW fs, NEW base,
         Stack(t, deep, fs, base), fs # <<>>,
         NEW f, f = fs[Len(fs)], f.index \in DOMAIN t[f.obj], ~f.flag,
         NEW c, c = t[f.obj][f.index]
  PROVE  c \notin AllAhead(t, deep, fs)
<1>1. c \notin Ahead(t, deep, f)
  BY DEF Ahead
<1>2. \A y \in AllAhead(t, deep, Front(fs)) : y # c
  BY CallersComeLater
<1> QED  BY <1>1, <1>2, StackPops

\* what one turn of the loop does to the list
Listing(q, ls, f, c) == IF f.flag /\ Match(c, q.rule) THEN Append(ls, c) ELSE ls

-----------------------------------------------------------------------------
(* Walks of query_exec *)

StopsAt(q) == IF q.member = "GetMatchesTo" THEN q.current ELSE Null

LEMMA CutFacts ==
  ASSUME NEW t, IsForest(t), Null \notin Object, NEW q \in AnyRequest, Stops(t, q),
         Start(t, q) \in Object \cup {Null}
  PROVE  /\ q.member = "GetMatchesTo" /\ Start(t, q) \in Object
         /\ q.current \in Object /\ Parent(t, q.current) \in Object
         /\ Index(t, q.current) \in DOMAIN t[Parent(t, q.current)]
         /\ t[Parent(t, q.current)][Index(t, q.current)] = q.current
         /\ Index(t, q.current) \in Nat /\ 1 <= Index(t, q.current)
         /\ Parent(t, q.current) \in Subtree(t, Start(t, q))
         /\ Cut(t, q) = FromOn(t, q.current)
         /\ Start(t, q) \notin Cut(t, q)
<1>1. /\ q.member = "GetMatchesTo" /\ q.current \in Reach(t, q, Start(t, q))
      /\ Cut(t, q) = FromOn(t, q.current)
  BY DEF Stops, Cut
<1>2. Start(t, q) \in Object
  BY <1>1 DEF Reach
<1>3. q.current \in Below(t, Start(t, q))
  BY <1>1, <1>2, RequestFacts, ReachIsDown
<1>4. /\ q.current \in Object /\ Parent(t, q.current) \in Object
      /\ Index(t, q.current) \in DOMAIN t[Parent(t, q.current)]
      /\ t[Parent(t, q.current)][Index(t, q.current)] = q.current
      /\ Parent(t, q.current) \in Subtree(t, Start(t, q))
  BY <1>2, <1>3, BelowHasParent
<1>5. Index(t, q.current) \in Nat /\ 1 <= Index(t, q.current)
  BY <1>4, IndicesAreNumbers
<1>6. Start(t, q) \notin FromOn(t, q.current)
  <2>1. SUFFICES ASSUME Start(t, q) \in FromOn(t, q.current) PROVE FALSE
    OBVIOUS
  <2>2. Start(t, q) \in Below(t, Parent(t, q.current))
    BY <1>2, <1>4, <2>1, FromOnIs
  <2> QED  BY <1>4, <2>2, BelowIsStrict
<1> QED  BY <1>1, <1>2, <1>4, <1>5, <1>6

LEMMA QueryStarts ==
  ASSUME NEW t, IsForest(t), Null \notin Object, NEW q \in AnyRequest, Forward(q), NEW fs,
         q.sortby = "other" => fs = <<>>,
         q.sortby # "other" =>
           fs = IF Start(t, q) = Null THEN <<>> ELSE <<First(t, q)>>
  PROVE  QueryInv(t, q, fs, <<>>)
<1>1. CASE q.sortby = "other"
  BY <1>1 DEF QueryInv
<1>2. CASE q.sortby # "other"
  <2>1. q.traverse \in BOOLEAN
    BY RequestFacts
  <2>2. PICK st : st = Start(t, q)
    OBVIOUS
  <2>3. /\ st \in Object \cup {Null}
        /\ st = Null => Sought(t, q) = {}
        /\ st \in Object => Sought(t, q) = Ahead(t, q.traverse, First(t, q)) \ Cut(t, q)
        /\ st \in Object => First(t, q) \in Frame
    BY <2>2, SoughtIs
  <2>4. CASE st = Null
    <3>1. fs = <<>>
      BY <1>2, <2>2, <2>4
    <3>2. Stack(t, q.traverse, fs, st) /\ AllAhead(t, q.traverse, fs) = {} /\ DOMAIN fs = {}
      <4>1. PICK deep \in BOOLEAN : deep = q.traverse
        BY <2>1
      <4>2. Stack(t, deep, <<>>, st) /\ AllAhead(t, deep, <<>>) = {}
        BY NoActivation
      <4>3. DOMAIN <<>> = {}
        OBVIOUS
      <4> QED  BY <3>1, <4>1, <4>2, <4>3
    <3>3. Going(t, q, <<>>, {}, {}, FALSE)
      BY GoingStarts
    <3>4. AllAhead(t, q.traverse, fs) \ Cut(t, q) = {} /\ Sought(t, q) = {}
      BY <2>3, <2>4, <3>2
    <3> QED  BY <1>2, <2>2, <3>2, <3>3, <3>4 DEF QueryInv
  <2>5. CASE st \in Object
    <3>1. fs = <<First(t, q)>> /\ First(t, q) \in Frame
      BY <1>2, <2>2, <2>3, <2>5
    <3>2. First(t, q).obj = st /\ First(t, q).index = FirstIndex(t, q)
      BY <2>2, FirstFacts
    <3>3. /\ Stack(t, q.traverse, fs, st)
          /\ AllAhead(t, q.traverse, fs) = Ahead(t, q.traverse, First(t, q))
      BY <2>1, <3>1, <3>2, OneActivation
    <3>4. DOMAIN fs = {1} /\ fs[1] = First(t, q)
      BY <3>1
    <3>5. Sought(t, q) \in SUBSET Object
      BY <2>3, <2>5 DEF Ahead
    <3>6. Going(t, q, <<>>, Sought(t, q), AllAhead(t, q.traverse, fs) \ Cut(t, q), FALSE)
      BY <2>3, <2>5, <3>3, <3>5, GoingStarts
    <3>7. st \notin Cut(t, q)
      BY <2>2, <2>3, CutFacts DEF Cut
    <3>8. Stops(t, q) => First(t, q).index <= Index(t, q.current)
      <4>1. SUFFICES ASSUME Stops(t, q) PROVE FirstIndex(t, q) <= Index(t, q.current)
        BY <3>2
      <4>2. q.member = "GetMatchesTo" /\ 1 <= Index(t, q.current)
        BY <2>2, <2>3, <4>1, CutFacts
      <4> QED  BY <4>2 DEF FirstIndex
    <3> QED  BY <1>2, <2>2, <3>2, <3>3, <3>4, <3>6, <3>7, <3>8 DEF QueryInv
  <2> QED  BY <2>3, <2>4, <2>5
<1> QED  BY <1>1, <1>2

LEMMA FrontFacts ==
  ASSUME NEW S, NEW s \in Seq(S), s # <<>>
  PROVE  /\ Front(s) \in Seq(S) /\ Len(s) \in DOMAIN s /\ s[Len(s)] \in S
         /\ \A k \in DOMAIN Front(s) : k \in DOMAIN s /\ Front(s)[k] = s[k]
<1>1. PICK n \in Nat : n = Len(s) /\ DOMAIN s = 1 .. n /\ n # 0
  OBVIOUS
<1>2. PICK r : r = Front(s)
  OBVIOUS
<1>3. r \in Seq(S) /\ DOMAIN r = 1 .. n - 1 /\ \A k \in 1 .. n - 1 : r[k] = s[k]
  BY <1>1, <1>2 DEF Front
<1> QED  BY <1>1, <1>2, <1>3

\* The child that a walk stops at, and what follows it, is cut off.
LEMMA StopIsCut ==
  ASSUME NEW t, IsForest(t), Null \notin Object, NEW q \in AnyRequest,
         NEW f \in Frame, f.index \in DOMAIN t[f.obj],
         t[f.obj][f.index] = StopsAt(q),
         Start(t, q) \in Object, f.obj \in Subtree(t, Start(t, q)),
         ~q.traverse => f.obj = Start(t, q)
  PROVE  Stops(t, q) /\ Ahead(t, q.traverse, f) \subseteq Cut(t, q)
<1>1. PICK p \in Object, i \in Nat : p = f.obj /\ i = f.index
  BY DEF Frame
<1>2. PICK c \in Object : c = t[p][i] /\ i \in DOMAIN t[p]
  BY <1>1, ChildIsBelow
<1>3. c = q.current /\ q.member = "GetMatchesTo"
  BY <1>1, <1>2 DEF StopsAt
<1>4. Parent(t, c) = p /\ Index(t, c) = i
  BY <1>2, ParentOfChild
<1>5. q.traverse \in BOOLEAN
  BY RequestFacts
<1>6. c \in Reach(t, q, Start(t, q))
  <2>1. CASE q.traverse
    <3>1. c \in Below(t, Start(t, q))
      <4>1. c \in Subtree(t, p) /\ c # p /\ p \notin Subtree(t, c)
        BY <1>2, ChildIsBelow
      <4>2. c \in Subtree(t, Start(t, q))
        BY <1>1, <4>1, SubtreeOfSubtree
      <4> QED  BY <1>1, <4>1, <4>2 DEF Below
    <3> QED  BY <2>1, <3>1 DEF Reach
  <2>2. CASE ~q.traverse
    <3>1. c \in Down(t, q.traverse, t[p][i])
      BY <1>2, <1>5, DownIsBelow
    <3> QED  BY <1>1, <1>2, <1>5, <2>2, <3>1, ReachIsDown
  <2> QED  BY <2>1, <2>2
<1>7. Stops(t, q)
  BY <1>3, <1>6 DEF Stops
<1>8. Cut(t, q) = {x \in Object : \E j \in DOMAIN t[p] : i <= j /\ x \in Subtree(t, t[p][j])}
  BY <1>3, <1>4, <1>7 DEF Cut, FromOn
<1>9. \A j \in DOMAIN t[p] : Down(t, q.traverse, t[p][j]) \subseteq Subtree(t, t[p][j])
  BY <1>5, DownIsBelow
<1> QED  BY <1>1, <1>7, <1>8, <1>9 DEF Ahead

LEMMA QueryReturns ==
  ASSUME NEW t, IsForest(t), Null \notin Object, NEW q \in AnyRequest, NEW fs, NEW ls,
         QueryInv(t, q, fs, ls), fs # <<>>, NEW f, f = fs[Len(fs)],
         f.index \in DOMAIN t[f.obj] /\ MoreThan(q, Len(ls)) =>
           t[f.obj][f.index] = StopsAt(q)
  PROVE  QueryInv(t, q, Front(fs), ls)
<1>1. /\ q.sortby # "other" /\ Stack(t, q.traverse, fs, Start(t, q)) /\ q.traverse \in BOOLEAN
      /\ Going(t, q, ls, Sought(t, q), AllAhead(t, q.traverse, fs) \ Cut(t, q), FALSE)
      /\ \A k \in DOMAIN fs :
           /\ fs[k].obj \notin Cut(t, q)
           /\ Stops(t, q) /\ fs[k].obj = Parent(t, q.current) =>
                fs[k].index <= Index(t, q.current)
  BY RequestFacts DEF QueryInv
<1>2. fs \in Seq(Frame)
  BY <1>1 DEF Stack
<1>3. PICK r : r = Front(fs)
  OBVIOUS
<1>4. f \in Frame /\ \A k \in DOMAIN r : k \in DOMAIN fs /\ r[k] = fs[k]
  BY <1>2, <1>3, FrontFacts
<1>5. /\ Stack(t, q.traverse, r, Start(t, q))
      /\ AllAhead(t, q.traverse, fs) = AllAhead(t, q.traverse, r) \cup Ahead(t, q.traverse, f)
  BY <1>1, <1>3, StackPops
<1>6. PICK A : A = AllAhead(t, q.traverse, fs) \ Cut(t, q)
  OBVIOUS
<1>7. PICK B : B = AllAhead(t, q.traverse, r) \ Cut(t, q)
  OBVIOUS
<1>8. A = B \/ ~MoreThan(q, Len(ls))
  <2>1. CASE f.index \notin DOMAIN t[f.obj]
    <3>1. Ahead(t, q.traverse, f) = {}
      BY <1>1, <1>4, <2>1, LoopIsOver
    <3> QED  BY <1>5, <1>6, <1>7, <3>1
  <2>2. CASE f.index \in DOMAIN t[f.obj] /\ MoreThan(q, Len(ls))
    <3>1. Len(fs) \in DOMAIN fs
      BY <1>2, FrontFacts
    <3>2. /\ Start(t, q) \in Object /\ f.obj \in Subtree(t, Start(t, q))
          /\ ~q.traverse => f.obj = Start(t, q)
      BY <1>1, <3>1, StackIsBelow
    <3>3. Ahead(t, q.traverse, f) \subseteq Cut(t, q)
      BY <1>4, <2>2, <3>2, StopIsCut
    <3> QED  BY <1>5, <1>6, <1>7, <3>3
  <2> QED  BY <2>1, <2>2
<1>9. Going(t, q, ls, Sought(t, q), B, FALSE)
  BY <1>1, <1>6, <1>8, GoingUnwinds
<1>10. \A k \in DOMAIN r :
           /\ r[k].obj \notin Cut(t, q)
           /\ Stops(t, q) /\ r[k].obj = Parent(t, q.current) =>
                r[k].index <= Index(t, q.current)
  BY <1>1, <1>4
<1> QED  BY <1>1, <1>3, <1>5, <1>7, <1>9, <1>10 DEF QueryInv

\* A walk that has not met what it stops at is not past it either.
LEMMA ChildIsNotCut ==
  ASSUME NEW t, IsForest(t), Null \notin Object, NEW q \in AnyRequest,
         Start(t, q) \in Object \cup {Null},
         NEW f \in Frame, f.index \in DOMAIN t[f.obj], f.obj \notin Cut(t, q),
         Stops(t, q) /\ f.obj = Parent(t, q.current) => f.index <= Index(t, q.current),
         NEW c, c = t[f.obj][f.index], c # StopsAt(q)
  PROVE  /\ c \notin Cut(t, q)
         /\ Stops(t, q) /\ f.obj = Parent(t, q.current) => f.index + 1 <= Index(t, q.current)
<1>1. PICK p \in Object, i \in Nat : p = f.obj /\ i = f.index
  BY DEF Frame
<1>2. i \in DOMAIN t[p] /\ c = t[p][i] /\ c \in Object
  BY <1>1, ChildIsBelow
<1>3. CASE ~Stops(t, q)
  BY <1>3 DEF Cut
<1>4. CASE Stops(t, q)
  <2>1. PICK up \in Object, k \in Nat :
          /\ up = Parent(t, q.current) /\ k = Index(t, q.current)
          /\ k \in DOMAIN t[up] /\ t[up][k] = q.current
    BY <1>4, CutFacts
  <2>2. Cut(t, q) = {x \in Object : \E j \in DOMAIN t[up] : k <= j /\ x \in Subtree(t, t[up][j])}
    BY <1>4, <2>1, CutFacts DEF FromOn
  <2>3. c # q.current
    BY <1>4, CutFacts DEF StopsAt
  <2>4. p = up => i <= k /\ i # k
    BY <1>1, <1>2, <1>4, <2>1, <2>3
  <2>5. ASSUME NEW j \in DOMAIN t[up], k <= j, c \in Subtree(t, t[up][j])
        PROVE  FALSE
    <3>1. t[up][j] \in Object /\ j \in Nat
      BY <2>1, ChildIsBelow, IndicesAreNumbers
    <3>2. CASE c = t[up][j]
      <4>1. t[p][i] = t[up][j]
        BY <1>2, <3>2
      <4>2. p = up /\ i = j
        BY <1>2, <2>1, <4>1 DEF IsForest
      <4> QED  BY <2>1, <2>4, <2>5, <4>2
    <3>3. CASE c # t[up][j]
      <4>1. p \in Subtree(t, t[up][j])
        BY <1>2, <2>5, <3>1, <3>3, ParentInSubtree
      <4>2. p \in Cut(t, q)
        BY <1>1, <2>2, <2>5, <4>1
      <4> QED  BY <1>1, <4>2
    <3> QED  BY <3>2, <3>3
  <2>6. c \notin Cut(t, q)
    BY <2>2, <2>5
  <2>7. p = up => i + 1 <= k
    BY <2>1, <2>4
  <2> QED  BY <1>1, <2>1, <2>6, <2>7
<1> QED  BY <1>3, <1>4

LEMMA QueryVisits ==
  ASSUME NEW t, IsForest(t), Null \notin Object, NEW q \in AnyRequest, Forward(q), NEW fs, NEW ls,
         QueryInv(t, q, fs, ls), fs # <<>>, NEW f, f = fs[Len(fs)],
         f.index \in DOMAIN t[f.obj], MoreThan(q, Len(ls)),
         NEW c, c = t[f.obj][f.index], c # StopsAt(q),
         NEW new, new = Grown(q.traverse, fs, f, c)
  PROVE  QueryInv(t, q, new, Listing(q, ls, f, c))
<1>1. /\ q.sortby # "other" /\ Stack(t, q.traverse, fs, Start(t, q))
      /\ Going(t, q, ls, Sought(t, q), AllAhead(t, q.traverse, fs) \ Cut(t, q), FALSE)
      /\ \A k \in DOMAIN fs :
           /\ fs[k].obj \notin Cut(t, q)
           /\ Stops(t, q) /\ fs[k].obj = Parent(t, q.current) =>
                fs[k].index <= Index(t, q.current)
  BY DEF QueryInv
<1>2. PICK deep \in BOOLEAN : deep = q.traverse
  BY RequestFacts
<1>3. fs \in Seq(Frame) /\ f \in Frame /\ Len(fs) \in DOMAIN fs
  BY <1>1, FrontFacts DEF Stack
<1>4. c \in Object
  <2>1. f.obj \in Object
    BY <1>3 DEF Frame
  <2> QED  BY <2>1, ChildIsBelow
<1>5. Start(t, q) \in Object \cup {Null}
  BY SoughtIs
<1>6. /\ f.obj \notin Cut(t, q)
      /\ Stops(t, q) /\ f.obj = Parent(t, q.current) => f.index <= Index(t, q.current)
  BY <1>1, <1>3
<1>7. /\ c \notin Cut(t, q)
      /\ Stops(t, q) /\ f.obj = Parent(t, q.current) => f.index + 1 <= Index(t, q.current)
  BY <1>3, <1>5, <1>6, ChildIsNotCut
<1>8. /\ Stack(t, deep, new, Start(t, q))
      /\ AllAhead(t, deep, new) = AllAhead(t, deep, fs) \ {c}
      /\ f.flag => c \in AllAhead(t, deep, fs)
      /\ \A y \in AllAhead(t, deep, new) : Precedes(t, c, y)
  BY <1>1, <1>2, StackGrows, SMTT(30) DEF Takes
<1>9. \A k \in DOMAIN new :
           \/ k \in DOMAIN fs /\ new[k] = fs[k]
           \/ new[k].obj = f.obj /\ new[k].index = f.index + 1
           \/ new[k].obj = c /\ new[k].index = 1
  <2>1. new = Grown(deep, fs, f, c)
    BY <1>2
  <2> QED  BY <1>3, <1>4, <2>1, GrownFacts, SMTT(30)
<1>10. Stops(t, q) => 1 <= Index(t, q.current)
  BY <1>5, CutFacts
<1>11. \A k \in DOMAIN new :
           /\ new[k].obj \notin Cut(t, q)
           /\ Stops(t, q) /\ new[k].obj = Parent(t, q.current) =>
                new[k].index <= Index(t, q.current)
  <2>1. SUFFICES ASSUME NEW k \in DOMAIN new
                 PROVE  /\ new[k].obj \notin Cut(t, q)
                        /\ Stops(t, q) /\ new[k].obj = Parent(t, q.current) =>
                             new[k].index <= Index(t, q.current)
    OBVIOUS
  <2>2. CASE k \in DOMAIN fs /\ new[k] = fs[k]
    BY <1>1, <2>2
  <2>3. CASE new[k].obj = f.obj /\ new[k].index = f.index + 1
    BY <1>6, <1>7, <2>3
  <2>4. CASE new[k].obj = c /\ new[k].index = 1
    BY <1>7, <1>10, <2>4
  <2> QED  BY <1>9, <2>1, <2>2, <2>3, <2>4
<1>12. PICK A : A = AllAhead(t, deep, fs) \ Cut(t, q)
  OBVIOUS
<1>13. PICK B : B = AllAhead(t, deep, new) \ Cut(t, q)
  OBVIOUS
<1>14. Going(t, q, Listing(q, ls, f, c), Sought(t, q), B, FALSE)
  <2>0. Going(t, q, ls, Sought(t, q), A, FALSE)
    BY <1>1, <1>2, <1>12
  <2>1. CASE f.flag
    <3>1. c \in A /\ B = A \ {c}
      BY <1>7, <1>8, <1>12, <1>13, <2>1
    <3>2. \A y \in B : InOrder(t, c, y, FALSE)
      BY <1>8, <1>13 DEF InOrder
    <3>3. Listing(q, ls, f, c) = IF Match(c, q.rule) THEN Append(ls, c) ELSE ls
      BY <2>1 DEF Listing
    <3>4. q.count \in Int
      BY RequestFacts
    <3> QED  BY <2>0, <3>1, <3>2, <3>3, <3>4, GoingOn, ZenonT(40)
  <2>2. CASE ~f.flag
    <3>1. c \notin AllAhead(t, deep, fs)
      BY <1>1, <1>2, <2>2, UntestedIsNotAhead
    <3>2. B = A
      BY <1>8, <1>12, <1>13, <3>1, ZenonT(40)
    <3>3. Listing(q, ls, f, c) = ls
      BY <2>2 DEF Listing
    <3> QED  BY <2>0, <3>2, <3>3
  <2> QED  BY <2>1, <2>2
<1> QED  BY <1>1, <1>2, <1>8, <1>11, <1>13, <1>14 DEF QueryInv

LEMMA QueryEnds ==
  ASSUME NEW t \in Trees, NEW q \in AnyRequest, NEW ls, QueryInv(t, q, <<>>, ls)
  PROVE  /\ q.sortby = "other" => ls = <<>>
         /\ q.sortby # "other" => Lists(t, q, ls, Sought(t, q), FALSE)
         /\ IsInjective(ls)
<1>1. CASE q.sortby = "other"
  <2>1. ls = <<>>
    BY <1>1 DEF QueryInv
  <2>2. IsInjective(<<>>)
    BY DEF IsInjective
  <2> QED  BY <1>1, <2>1, <2>2
<1>2. CASE q.sortby # "other"
  <2>1. PICK deep \in BOOLEAN : deep = q.traverse
    BY RequestFacts
  <2>2. PICK A : A = AllAhead(t, deep, <<>>) \ Cut(t, q)
    OBVIOUS
  <2>3. A = {}
    <3>1. AllAhead(t, deep, <<>>) = {}
      BY NoActivation
    <3> QED  BY <2>2, <3>1
  <2>4. Going(t, q, ls, Sought(t, q), A, FALSE)
    BY <1>2, <2>1, <2>2 DEF QueryInv
  <2> QED  BY <1>2, <2>3, <2>4, GoingEnds, GoingIsOrdered
<1> QED  BY <1>1, <1>2

-----------------------------------------------------------------------------
(* Walks of inorder *)

LEMMA AheadOfChildren ==
  ASSUME NEW t, IsForest(t), NEW o \in Object
  PROVE  /\ Activation(o, 1, TRUE) \in Frame
         /\ Ahead(t, TRUE, Activation(o, 1, TRUE)) = Below(t, o)
<1>1. PICK f : f = Activation(o, 1, TRUE)
  OBVIOUS
<1>2. f.obj = o /\ f.index = 1 /\ f.flag /\ f \in Frame
  BY <1>1 DEF Activation, Frame
<1>3. \A j \in DOMAIN t[o] : 1 <= j
  BY IndicesAreNumbers
<1>4. Ahead(t, TRUE, f) = {x \in Object : \E j \in DOMAIN t[o] : x \in Subtree(t, t[o][j])}
  BY <1>2, <1>3 DEF Ahead, Down
<1>5. \A x \in Below(t, o) : x \in Object /\ \E j \in DOMAIN t[o] : x \in Subtree(t, t[o][j])
  BY SubtreeUnfolds, SubtreeFacts DEF Below
<1>6. \A j \in DOMAIN t[o] : Subtree(t, t[o][j]) \subseteq Below(t, o)
  BY ChildIsBelow
<1> QED  BY <1>1, <1>2, <1>4, <1>5, <1>6

LEMMA RightOfInside ==
  ASSUME NEW t, IsForest(t), NEW a \in Object, NEW c \in Subtree(t, a), NEW y \in RightOf(t, a)
  PROVE  y \in Object /\ y \in RightOf(t, c) /\ c \notin RightOf(t, a)
<1>1. PICK p \in Object : \E i, j \in DOMAIN t[p] :
        i < j /\ a \in Subtree(t, t[p][i]) /\ y \in Subtree(t, t[p][j])
  BY DEF RightOf
<1>2. PICK i \in DOMAIN t[p], j \in DOMAIN t[p] :
        i < j /\ a \in Subtree(t, t[p][i]) /\ y \in Subtree(t, t[p][j])
  BY <1>1
<1>3. c \in Object /\ t[p][i] \in Object
  BY SubtreeFacts, ChildIsBelow
<1>4. c \in Subtree(t, t[p][i])
  BY <1>2, <1>3, SubtreeOfSubtree
<1>5. y \in Object
  BY DEF RightOf
<1> QED  BY <1>2, <1>3, <1>4, <1>5, RightOfSubtree DEF RightOf

LEMMA BoundsFacts ==
  ASSUME NEW t, IsForest(t), NEW q \in AnyRequest, NEW o \in Object,
         Inside(t, q) => o \in Subtree(t, q.collection)
  PROVE  /\ Below(t, o) \subseteq Bounds(t, q)
         /\ o # q.collection => o \in Bounds(t, q)
         /\ \A c \in Below(t, o) : c \in Object /\ (Inside(t, q) => c \in Subtree(t, q.collection))
<1>1. q.collection \in Object
  BY RequestFacts
<1>2. Below(t, o) \subseteq Object
  BY SubtreeFacts DEF Below
<1>3. CASE ~Inside(t, q)
  BY <1>2, <1>3 DEF Bounds
<1>4. CASE Inside(t, q)
  <2>1. Bounds(t, q) = Below(t, q.collection)
    BY <1>4 DEF Bounds
  <2>2. CASE o = q.collection
    BY <1>2, <2>1, <2>2 DEF Below
  <2>3. CASE o # q.collection
    <3>1. o \in Below(t, q.collection)
      BY <1>4, <2>3 DEF Below
    <3>2. Subtree(t, o) \subseteq Below(t, q.collection)
      BY <1>1, <3>1, BelowIsStrict
    <3> QED  BY <1>2, <2>1, <3>1, <3>2 DEF Below
  <2> QED  BY <2>2, <2>3
<1> QED  BY <1>3, <1>4

LEMMA InorderStarts ==
  ASSUME NEW t, IsForest(t), NEW q \in AnyRequest, q.current \in Object
  PROVE  InorderInv(t, q, <<Activation(q.current, 1, TRUE)>>, q.current, <<>>)
<1>1. PICK o \in Object : o = q.current
  OBVIOUS
<1>2. PICK f \in Frame : f = Activation(o, 1, TRUE) /\ f.obj = o
  BY AheadOfChildren DEF Activation
<1>3. PICK fs : fs = <<f>>
  OBVIOUS
<1>4. Stack(t, TRUE, fs, o) /\ AllAhead(t, TRUE, fs) = Below(t, o)
  BY <1>2, <1>3, OneActivation, AheadOfChildren
<1>5. PICK S : S = {x \in Bounds(t, q) : Precedes(t, o, x)}
  OBVIOUS
<1>6. S = (AllAhead(t, TRUE, fs) \cup RightOf(t, o)) \cap Bounds(t, q)
  BY <1>4, <1>5 DEF Precedes
<1>7. S \in SUBSET Object
  BY <1>5, RequestFacts, SubtreeFacts DEF Bounds, Below
<1>8. Going(t, q, <<>>, S, S, FALSE)
  BY <1>7, GoingStarts
<1>9. o \in Subtree(t, o) /\ (Inside(t, q) => o \in Subtree(t, q.collection))
  BY <1>1, RequestFacts, SubtreeFacts DEF Inside, Below
<1>10. InorderInv(t, q, fs, o, <<>>)
  BY <1>1, <1>4, <1>5, <1>6, <1>8, <1>9 DEF InorderInv
<1> QED  BY <1>1, <1>2, <1>3, <1>10

LEMMA InorderReturns ==
  ASSUME NEW t, IsForest(t), NEW q \in AnyRequest, NEW fs, NEW o, NEW ls,
         InorderInv(t, q, fs, o, ls), fs # <<>>, NEW f, f = fs[Len(fs)],
         f.index \notin DOMAIN t[f.obj] \/ ~MoreThan(q, Len(ls))
  PROVE  InorderInv(t, q, Front(fs), o, ls)
<1>1. PICK S : S = {x \in Bounds(t, q) : Precedes(t, q.current, x)}
  OBVIOUS
<1>2. /\ o \in Object /\ q.current \in Subtree(t, o)
      /\ Inside(t, q) => o \in Subtree(t, q.collection)
      /\ Stack(t, TRUE, fs, o)
      /\ Going(t, q, ls, S, (AllAhead(t, TRUE, fs) \cup RightOf(t, o)) \cap Bounds(t, q), FALSE)
  BY <1>1 DEF InorderInv
<1>3. f \in Frame
  BY <1>2, FrontFacts DEF Stack
<1>4. PICK r : r = Front(fs)
  OBVIOUS
<1>5. /\ Stack(t, TRUE, r, o)
      /\ AllAhead(t, TRUE, fs) = AllAhead(t, TRUE, r) \cup Ahead(t, TRUE, f)
  BY <1>2, <1>4, StackPops
<1>6. PICK A : A = (AllAhead(t, TRUE, fs) \cup RightOf(t, o)) \cap Bounds(t, q)
  OBVIOUS
<1>7. PICK B : B = (AllAhead(t, TRUE, r) \cup RightOf(t, o)) \cap Bounds(t, q)
  OBVIOUS
<1>8. A = B \/ ~MoreThan(q, Len(ls))
  BY <1>3, <1>5, <1>6, <1>7, LoopIsOver
<1>9. Going(t, q, ls, S, B, FALSE)
  BY <1>2, <1>6, <1>8, GoingUnwinds
<1> QED  BY <1>1, <1>2, <1>4, <1>5, <1>7, <1>9 DEF InorderInv

LEMMA InorderVisits ==
  ASSUME NEW t, IsForest(t), NEW q \in AnyRequest, NEW fs, NEW o, NEW ls,
         InorderInv(t, q, fs, o, ls), fs # <<>>, NEW f, f = fs[Len(fs)],
         f.index \in DOMAIN t[f.obj], MoreThan(q, Len(ls)),
         NEW c, c = t[f.obj][f.index],
         NEW deep \in {TRUE}, NEW new, new = Grown(deep, fs, f, c)
  PROVE  InorderInv(t, q, new, o, Listing(q, ls, f, c))
<1>1. PICK S : S = {x \in Bounds(t, q) : Precedes(t, q.current, x)}
  OBVIOUS
<1>2. /\ o \in Object /\ q.current \in Subtree(t, o)
      /\ Inside(t, q) => o \in Subtree(t, q.collection)
      /\ Stack(t, TRUE, fs, o)
      /\ Going(t, q, ls, S, (AllAhead(t, TRUE, fs) \cup RightOf(t, o)) \cap Bounds(t, q), FALSE)
  BY <1>1 DEF InorderInv
<1>3. f \in Frame /\ Len(fs) \in DOMAIN fs
  BY <1>2, FrontFacts DEF Stack
<1>4. f.obj \in Object /\ f.obj \in Subtree(t, o)
  BY <1>2, <1>3, StackIsBelow
<1>5. c \in Object /\ c \in Subtree(t, f.obj) /\ c # f.obj
  BY <1>4, ChildIsBelow
<1>6. c \in Subtree(t, o) /\ c \in Below(t, o)
  <2>1. c \in Subtree(t, o)
    BY <1>2, <1>4, <1>5, SubtreeOfSubtree
  <2>2. c # o
    BY <1>2, <1>4, ChildIsBelow
  <2> QED  BY <2>1, <2>2 DEF Below
<1>7. c \in Bounds(t, q)
  BY <1>2, <1>6, BoundsFacts
<1>8. \A y \in RightOf(t, o) : y # c /\ Precedes(t, c, y)
  BY <1>2, <1>6, RightOfInside DEF Precedes
<1>9. /\ Stack(t, TRUE, new, o)
      /\ AllAhead(t, TRUE, new) = AllAhead(t, TRUE, fs) \ {c}
      /\ f.flag => c \in AllAhead(t, TRUE, fs)
      /\ \A y \in AllAhead(t, TRUE, new) : Precedes(t, c, y)
  <2>1. deep = TRUE
    OBVIOUS
  <2>2. deep \in BOOLEAN /\ Stack(t, deep, fs, o)
    BY <1>2, <2>1
  <2>3. Takes(t, deep, fs, new, o, f, c)
    BY <2>2, StackGrows
  <2> QED  BY <2>1, <2>3 DEF Takes
<1>10. PICK A : A = (AllAhead(t, TRUE, fs) \cup RightOf(t, o)) \cap Bounds(t, q)
  OBVIOUS
<1>11. PICK B : B = (AllAhead(t, TRUE, new) \cup RightOf(t, o)) \cap Bounds(t, q)
  OBVIOUS
<1>12. Going(t, q, Listing(q, ls, f, c), S, B, FALSE)
  <2>0. Going(t, q, ls, S, A, FALSE)
    BY <1>2, <1>10
  <2>1. CASE f.flag
    <3>1. c \in A /\ B = A \ {c}
      BY <1>7, <1>8, <1>9, <1>10, <1>11, <2>1
    <3>2. \A y \in B : InOrder(t, c, y, FALSE)
      BY <1>8, <1>9, <1>11 DEF InOrder
    <3>3. Listing(q, ls, f, c) = IF Match(c, q.rule) THEN Append(ls, c) ELSE ls
      BY <2>1 DEF Listing
    <3>4. q.count \in Int
      BY RequestFacts
    <3>5. PICK more : more = Listing(q, ls, f, c)
      OBVIOUS
    <3>6. Going(t, q, more, S, B, FALSE)
      BY <2>0, <3>1, <3>2, <3>3, <3>4, <3>5, GoingOn, ZenonT(40)
    <3> QED  BY <3>5, <3>6
  <2>2. CASE ~f.flag
    <3>1. c \notin AllAhead(t, TRUE, fs)
      BY <1>2, <2>2, UntestedIsNotAhead
    <3>2. B = A
      BY <1>9, <1>10, <1>11, <3>1, ZenonT(40)
    <3>3. Listing(q, ls, f, c) = ls
      BY <2>2 DEF Listing
    <3> QED  BY <2>0, <3>2, <3>3
  <2> QED  BY <2>1, <2>2
<1> QED  BY <1>1, <1>2, <1>9, <1>11, <1>12 DEF InorderInv

LEMMA InorderClimbs ==
  ASSUME NEW t, IsForest(t), Null \notin Object, NEW q \in AnyRequest, NEW o, NEW ls,
         InorderInv(t, q, <<>>, o, ls), o # q.collection, Parent(t, o) # Null
  PROVE  /\ Parent(t, o) \in Object /\ Index(t, o) + 1 \in Nat \ {0}
         /\ InorderInv(t, q, <<Activation(Parent(t, o), Index(t, o) + 1, TRUE)>>,
                       Parent(t, o), ls)
<1>1. PICK S : S = {x \in Bounds(t, q) : Precedes(t, q.current, x)}
  OBVIOUS
<1>2. /\ o \in Object /\ q.current \in Subtree(t, o)
      /\ Inside(t, q) => o \in Subtree(t, q.collection)
      /\ Going(t, q, ls, S, (AllAhead(t, TRUE, <<>>) \cup RightOf(t, o)) \cap Bounds(t, q), FALSE)
  BY <1>1 DEF InorderInv
<1>3. PICK p \in Object : p = Parent(t, o)
  BY <1>2, ParentAndIndex
<1>4. PICK i \in DOMAIN t[p] : i = Index(t, o) /\ t[p][i] = o
  BY <1>2, <1>3, ParentAndIndex
<1>5. i \in Nat /\ \A j \in DOMAIN t[p] : j \in Nat
  BY IndicesAreNumbers
<1>6. PICK f : f = Activation(p, i + 1, TRUE)
  OBVIOUS
<1>7. f \in Frame /\ f.obj = p /\ f.index = i + 1 /\ f.flag
  BY <1>5, <1>6 DEF Frame, Activation
<1>8. Stack(t, TRUE, <<f>>, p) /\ AllAhead(t, TRUE, <<f>>) = Ahead(t, TRUE, f)
  BY <1>7, OneActivation
<1>9. Ahead(t, TRUE, f) \cup RightOf(t, p) = AllAhead(t, TRUE, <<>>) \cup RightOf(t, o)
  <2>1. AllAhead(t, TRUE, <<>>) = {}
    BY NoActivation
  <2>2. \A j \in DOMAIN t[p] : i + 1 <= j <=> i < j
    BY <1>5
  <2>3. Ahead(t, TRUE, f) =
          {x \in Object : \E j \in DOMAIN t[p] : i < j /\ x \in Subtree(t, t[p][j])}
    BY <1>7, <2>2 DEF Ahead, Down
  <2>4. \A x \in Object : x \in RightOf(t, o) <=>
           \/ x \in RightOf(t, p)
           \/ \E j \in DOMAIN t[p] : i < j /\ x \in Subtree(t, t[p][j])
    BY <1>4, RightOfChild
  <2>5. RightOf(t, p) \subseteq Object /\ RightOf(t, o) \subseteq Object
    BY DEF RightOf
  <2> QED  BY <2>1, <2>3, <2>4, <2>5
<1>10. Going(t, q, ls, S, (AllAhead(t, TRUE, <<f>>) \cup RightOf(t, p)) \cap Bounds(t, q), FALSE)
  <2>1. AllAhead(t, TRUE, <<f>>) \cup RightOf(t, p) = AllAhead(t, TRUE, <<>>) \cup RightOf(t, o)
    BY <1>8, <1>9
  <2> QED  BY <1>2, <2>1
<1>11. o \in Subtree(t, p)
  BY <1>4, ChildIsBelow
<1>12. q.current \in Subtree(t, p)
  BY <1>2, <1>11, SubtreeOfSubtree
<1>13. Inside(t, q) => p \in Subtree(t, q.collection)
  BY <1>2, <1>4, RequestFacts, ParentInSubtree
<1>14. PICK fs : fs = <<f>>
  OBVIOUS
<1>15. InorderInv(t, q, fs, p, ls)
  BY <1>1, <1>8, <1>10, <1>12, <1>13, <1>14 DEF InorderInv
<1> QED  BY <1>3, <1>4, <1>5, <1>6, <1>14, <1>15

\* An object of the collection that inorder comes to the collection from.
LEMMA InorderComesHome ==
  ASSUME NEW t, IsForest(t), NEW q \in AnyRequest, q.current \in Object, NEW ls, NEW i \in Nat \ {0},
         InorderInv(t, q, <<>>, q.collection, ls), MoreThan(q, Len(ls))
  PROVE  AgainInv(t, q, <<Activation(q.collection, i, TRUE)>>, q.collection, ls)
<1>1. PICK o \in Object : o = q.collection
  BY RequestFacts
<1>2. q.current \in Subtree(t, o)
  BY <1>1 DEF InorderInv
<1>3. Inside(t, q)
  BY <1>1, <1>2 DEF Inside, Below
<1>4. PICK S : S = Following(t, q)
  OBVIOUS
<1>5. Bounds(t, q) = Below(t, o) /\ S = {x \in Bounds(t, q) : Precedes(t, q.current, x)}
  BY <1>1, <1>3, <1>4 DEF Bounds, Following
<1>6. PICK A : A = (AllAhead(t, TRUE, <<>>) \cup RightOf(t, o)) \cap Bounds(t, q)
  OBVIOUS
<1>7. Going(t, q, ls, S, A, FALSE)
  BY <1>1, <1>5, <1>6 DEF InorderInv
<1>8. A = {}
  <2>1. AllAhead(t, TRUE, <<>>) = {}
    BY NoActivation
  <2>2. \A y \in RightOf(t, o) : y \notin Subtree(t, o)
    BY RightOfSubtree
  <2> QED  BY <1>5, <1>6, <2>1, <2>2 DEF Below
<1>9. ls \in Seq(Object) /\ Lists(t, q, ls, S, FALSE)
  BY <1>7, <1>8, GoingEnds DEF Going
<1>10. SubSeq(ls, 1, Len(ls)) = ls /\ Len(ls) \in 0 .. Len(ls)
  BY <1>9
<1>11. PICK fs : fs = <<Activation(o, i, TRUE)>>
  OBVIOUS
<1>12. Stack(t, TRUE, fs, o)
  <2>1. PICK f : f = Activation(o, i, TRUE)
    OBVIOUS
  <2>2. f \in Frame /\ f.obj = o
    BY <2>1 DEF Frame, Activation
  <2> QED  BY <1>11, <2>1, <2>2, OneActivation
<1>13. AgainInv(t, q, fs, o, ls)
  BY <1>3, <1>4, <1>9, <1>10, <1>12 DEF AgainInv
<1> QED  BY <1>1, <1>11, <1>13

LEMMA AgainReturns ==
  ASSUME NEW t, NEW q, NEW fs, NEW o, NEW ls, AgainInv(t, q, fs, o, ls), fs # <<>>
  PROVE  AgainInv(t, q, Front(fs), o, ls)
<1>1. PICK r : r = Front(fs)
  OBVIOUS
<1>2. Stack(t, TRUE, r, o)
  BY <1>1, StackPops DEF AgainInv
<1> QED  BY <1>1, <1>2 DEF AgainInv

LEMMA ListingFacts ==
  ASSUME NEW q, NEW ls \in Seq(Object), NEW f, NEW c \in Object,
         NEW more, more = Listing(q, ls, f, c)
  PROVE  /\ more \in Seq(Object) /\ Len(ls) <= Len(more)
         /\ \A n \in 0 .. Len(ls) : SubSeq(more, 1, n) = SubSeq(ls, 1, n)
<1>1. CASE more = ls
  BY <1>1
<1>2. CASE more = Append(ls, c)
  <2>1. more \in Seq(Object) /\ Len(more) = Len(ls) + 1
    BY <1>2
  <2>2. \A i \in 1 .. Len(ls) : more[i] = ls[i]
    BY <1>2
  <2>3. ASSUME NEW n \in 0 .. Len(ls)
        PROVE  SubSeq(more, 1, n) = SubSeq(ls, 1, n)
    <3>1. SubSeq(more, 1, n) \in Seq(Object) /\ SubSeq(ls, 1, n) \in Seq(Object)
          /\ Len(SubSeq(more, 1, n)) = n /\ Len(SubSeq(ls, 1, n)) = n
      BY <2>1
    <3>2. \A i \in 1 .. n : SubSeq(more, 1, n)[i] = SubSeq(ls, 1, n)[i]
      BY <2>1, <2>2
    <3> QED  BY <3>1, <3>2
  <2> QED  BY <2>1, <2>3
<1> QED  BY <1>1, <1>2 DEF Listing

LEMMA AgainVisits ==
  ASSUME NEW t, IsForest(t), NEW q \in AnyRequest, NEW fs, NEW o, NEW ls,
         AgainInv(t, q, fs, o, ls), fs # <<>>, NEW f, f = fs[Len(fs)],
         f.index \in DOMAIN t[f.obj],
         NEW c, c = t[f.obj][f.index],
         NEW deep \in {TRUE}, NEW new, new = Grown(deep, fs, f, c)
  PROVE  AgainInv(t, q, new, o, Listing(q, ls, f, c))
<1>1. /\ Inside(t, q) /\ o \in Object /\ Stack(t, TRUE, fs, o) /\ ls \in Seq(Object)
      /\ \E n \in 0 .. Len(ls) :
           MoreThan(q, n) /\ Lists(t, q, SubSeq(ls, 1, n), Following(t, q), FALSE)
  BY DEF AgainInv
<1>0. ls \in Seq(Object)
  BY <1>1
<1>2. f \in Frame
  BY <1>1, FrontFacts DEF Stack
<1>3. c \in Object
  BY <1>2, ChildIsBelow DEF Frame
<1>4. Stack(t, TRUE, new, o)
  <2>1. deep = TRUE
    OBVIOUS
  <2>2. deep \in BOOLEAN /\ Stack(t, deep, fs, o)
    BY <1>1, <2>1
  <2>3. Takes(t, deep, fs, new, o, f, c)
    BY <2>2, StackGrows
  <2> QED  BY <2>1, <2>3 DEF Takes
<1>5. PICK more : more = Listing(q, ls, f, c)
  OBVIOUS
<1>6. /\ more \in Seq(Object) /\ Len(ls) <= Len(more)
      /\ \A n \in 0 .. Len(ls) : SubSeq(more, 1, n) = SubSeq(ls, 1, n)
  BY <1>0, <1>3, <1>5, ListingFacts, SMTT(30)
<1>7. PICK n \in 0 .. Len(ls) :
        MoreThan(q, n) /\ Lists(t, q, SubSeq(ls, 1, n), Following(t, q), FALSE)
  BY <1>1
<1>8. n \in 0 .. Len(more) /\ SubSeq(more, 1, n) = SubSeq(ls, 1, n)
  BY <1>1, <1>6, <1>7
<1>9. Lists(t, q, SubSeq(more, 1, n), Following(t, q), FALSE)
  BY <1>7, <1>8
<1> QED  BY <1>1, <1>4, <1>5, <1>6, <1>7, <1>8, <1>9 DEF AgainInv

-----------------------------------------------------------------------------
(* Walks of sort_order_rev_canonical *)

LEMMA BackStarts ==
  ASSUME NEW t, IsForest(t), NEW q \in AnyRequest, q.current \in Object
  PROVE  BackInv(t, q, "step", q.current, <<>>)
<1>1. PICK S : S = {x \in Bounds(t, q) : Precedes(t, x, q.current)}
  OBVIOUS
<1>2. Bounds(t, q) \subseteq Object
  BY RequestFacts, SubtreeFacts DEF Bounds, Below
<1>3. Behind(t, "step", q.current) = {x \in Object : Precedes(t, x, q.current)}
  BY DEF Behind
<1>4. Behind(t, "step", q.current) \cap Bounds(t, q) = S
  BY <1>1, <1>2, <1>3
<1>5. Going(t, q, <<>>, S, S, TRUE)
  BY <1>1, <1>2, GoingStarts
<1>6. Inside(t, q) => q.current \in Subtree(t, q.collection)
  BY RequestFacts, SubtreeFacts DEF Inside, Below
<1> QED  BY <1>1, <1>4, <1>5, <1>6 DEF BackInv

LEMMA BackTests ==
  ASSUME NEW t, IsForest(t), NEW q \in AnyRequest, NEW o \in Object, o # q.collection,
         NEW ls, BackInv(t, q, "test", o, ls),
         NEW more, more = IF MoreThan(q, Len(ls)) /\ Match(o, q.rule) THEN Append(ls, o) ELSE ls
  PROVE  BackInv(t, q, "step", o, more)
<1>1. PICK S : S = {x \in Bounds(t, q) : Precedes(t, x, q.current)}
  OBVIOUS
<1>2. PICK A : A = Behind(t, "test", o) \cap Bounds(t, q)
  OBVIOUS
<1>3. PICK B : B = Behind(t, "step", o) \cap Bounds(t, q)
  OBVIOUS
<1>4. (Inside(t, q) => o \in Subtree(t, q.collection)) /\ Going(t, q, ls, S, A, TRUE)
  BY <1>1, <1>2 DEF BackInv
<1>5. o \in Bounds(t, q)
  BY <1>4, BoundsFacts
<1>6. ~Precedes(t, o, o)
  BY PrecedesOneWay
<1>7. o \in A /\ B = A \ {o} /\ \A y \in B : Precedes(t, y, o)
  BY <1>2, <1>3, <1>5, <1>6 DEF Behind
<1>8. Going(t, q, more, S, B, TRUE)
  <2>1. CASE MoreThan(q, Len(ls))
    <3>1. \A y \in B : InOrder(t, o, y, TRUE)
      BY <1>7 DEF InOrder
    <3>2. more = IF Match(o, q.rule) THEN Append(ls, o) ELSE ls
      BY <2>1
    <3>3. q.count \in Int
      BY RequestFacts
    <3> QED  BY <1>4, <1>7, <2>1, <3>1, <3>2, <3>3, GoingOn
  <2>2. CASE ~MoreThan(q, Len(ls))
    <3>1. Going(t, q, ls, S, B, TRUE)
      BY <1>4, <2>2, GoingUnwinds
    <3>2. more = ls
      BY <2>2
    <3> QED  BY <3>1, <3>2
  <2> QED  BY <2>1, <2>2
<1> QED  BY <1>1, <1>3, <1>4, <1>8 DEF BackInv

LEMMA BackDrills ==
  ASSUME NEW t, IsForest(t), NEW q \in AnyRequest, NEW o \in Object, NEW ls,
         BackInv(t, q, "drill", o, ls)
  PROVE  /\ t[o] # <<>> => Last(t[o]) \in Object /\ BackInv(t, q, "drill", Last(t[o]), ls)
         /\ t[o] = <<>> => BackInv(t, q, "test", o, ls)
<1>1. PICK S : S = {x \in Bounds(t, q) : Precedes(t, x, q.current)}
  OBVIOUS
<1>2. /\ Inside(t, q) => o \in Subtree(t, q.collection)
      /\ Going(t, q, ls, S, Behind(t, "drill", o) \cap Bounds(t, q), TRUE)
  BY <1>1 DEF BackInv
<1>3. CASE t[o] # <<>>
  <2>1. PICK n \in Nat : n = Len(t[o])
    BY IndicesAreNumbers
  <2>2. /\ n \in DOMAIN t[o] /\ Last(t[o]) = t[o][n]
        /\ \A k \in DOMAIN t[o] : k <= n /\ (k < n \/ k = n)
    BY <1>3, <2>1, IndicesAreNumbers DEF Last
  <2>3. PICK c \in Object : c = t[o][n]
    BY <2>2, ChildIsBelow
  <2>4. ASSUME NEW x \in Object
        PROVE  x \in Behind(t, "drill", c) <=> x \in Behind(t, "drill", o)
    <3>1. Precedes(t, x, c) <=>
             \/ x = o \/ Precedes(t, x, o)
             \/ \E k \in DOMAIN t[o] : k < n /\ x \in Subtree(t, t[o][k])
      BY <2>2, <2>3, PrecedesChild
    <3>2. x \in Subtree(t, o) <=>
             x = o \/ \E k \in DOMAIN t[o] : x \in Subtree(t, t[o][k])
      BY SubtreeUnfolds, SubtreeFacts, ChildIsBelow DEF Below
    <3>3. (\E k \in DOMAIN t[o] : x \in Subtree(t, t[o][k])) <=>
            \/ \E k \in DOMAIN t[o] : k < n /\ x \in Subtree(t, t[o][k])
            \/ x \in Subtree(t, c)
      BY <2>2, <2>3
    <3> QED  BY <3>1, <3>2, <3>3 DEF Behind
  <2>5. Behind(t, "drill", c) = Behind(t, "drill", o)
    BY <2>4 DEF Behind
  <2>6. c \in Below(t, o)
    BY <2>2, <2>3, ChildIsBelow, SubtreeFacts
  <2>7. c \in Bounds(t, q) /\ (Inside(t, q) => c \in Subtree(t, q.collection))
    BY <1>2, <2>6, BoundsFacts
  <2>8. BackInv(t, q, "drill", c, ls)
    BY <1>1, <1>2, <2>5, <2>7 DEF BackInv
  <2> QED  BY <1>3, <2>2, <2>3, <2>8
<1>4. CASE t[o] = <<>>
  <2>1. DOMAIN t[o] = {}
    BY <1>4
  <2>2. Subtree(t, o) = {o}
    BY <2>1, SubtreeUnfolds, SubtreeFacts
  <2>3. Behind(t, "drill", o) = Behind(t, "test", o)
    BY <2>2 DEF Behind
  <2> QED  BY <1>1, <1>2, <1>4, <2>3 DEF BackInv
<1> QED  BY <1>3, <1>4

\* Before a later child is what is before, in or below its left sibling.
LEMMA LeftSibling ==
  ASSUME NEW t, IsForest(t), NEW p \in Object, NEW i \in DOMAIN t[p], NEW l \in DOMAIN t[p],
         l = i - 1, NEW x \in Object
  PROVE  Precedes(t, x, t[p][i]) <=>
           Precedes(t, x, t[p][l]) \/ x \in Subtree(t, t[p][l])
<1>1. \A k \in DOMAIN t[p] : k < i <=> k < l \/ k = l
  BY IndicesAreNumbers
<1>2. Precedes(t, x, t[p][i]) <=>
           \/ x = p \/ Precedes(t, x, p)
           \/ \E k \in DOMAIN t[p] : k < i /\ x \in Subtree(t, t[p][k])
  BY PrecedesChild
<1>3. Precedes(t, x, t[p][l]) <=>
           \/ x = p \/ Precedes(t, x, p)
           \/ \E k \in DOMAIN t[p] : k < l /\ x \in Subtree(t, t[p][k])
  BY PrecedesChild
<1> QED  BY <1>1, <1>2, <1>3

LEMMA FirstChild ==
  ASSUME NEW t, IsForest(t), NEW p \in Object, NEW i \in DOMAIN t[p], ~(i > 1), NEW x \in Object
  PROVE  Precedes(t, x, t[p][i]) <=> x = p \/ Precedes(t, x, p)
<1>1. \A k \in DOMAIN t[p] : ~(k < i)
  BY IndicesAreNumbers
<1>2. Precedes(t, x, t[p][i]) <=>
           \/ x = p \/ Precedes(t, x, p)
           \/ \E k \in DOMAIN t[p] : k < i /\ x \in Subtree(t, t[p][k])
  BY PrecedesChild
<1> QED  BY <1>1, <1>2

LEMMA BackSteps ==
  ASSUME NEW t, IsForest(t), Null \notin Object, NEW q \in AnyRequest,
         NEW o \in Object, o # q.collection, NEW ls, BackInv(t, q, "step", o, ls),
         NEW up, up = Parent(t, o)
  PROVE  /\ up # Null /\ Index(t, o) > 1 =>
              /\ t[up][Index(t, o) - 1] \in Object
              /\ BackInv(t, q, "drill", t[up][Index(t, o) - 1], ls)
         /\ ~(up # Null /\ Index(t, o) > 1) =>
              up \in Object \cup {Null} /\ BackInv(t, q, "test", up, ls)
<1>1. PICK S : S = {x \in Bounds(t, q) : Precedes(t, x, q.current)}
  OBVIOUS
<1>2. /\ Inside(t, q) => o \in Subtree(t, q.collection)
      /\ Going(t, q, ls, S, Behind(t, "step", o) \cap Bounds(t, q), TRUE)
  BY <1>1 DEF BackInv
<1>3. \/ up = Null /\ \A p \in Object : \A i \in DOMAIN t[p] : t[p][i] # o
      \/ /\ up \in Object /\ Index(t, o) \in DOMAIN t[up] /\ t[up][Index(t, o)] = o
  BY ParentAndIndex
<1>4. Inside(t, q) => up \in Object /\ up \in Subtree(t, q.collection)
  <2>1. SUFFICES ASSUME Inside(t, q) PROVE up \in Object /\ up \in Subtree(t, q.collection)
    OBVIOUS
  <2>2. o \in Below(t, q.collection) /\ q.collection \in Object
    BY <1>2, <2>1, RequestFacts DEF Below
  <2> QED  BY <2>2, BelowHasParent
<1>5. Behind(t, "step", o) = {x \in Object : Precedes(t, x, o)}
  BY DEF Behind
<1>6. CASE up # Null /\ Index(t, o) > 1
  <2>1. PICK p \in Object : p = up
    BY <1>3, <1>6
  <2>2. PICK i \in DOMAIN t[p] : i = Index(t, o) /\ t[p][i] = o /\ i > 1
    BY <1>3, <1>6, <2>1
  <2>3. PICK l \in DOMAIN t[p] : l = i - 1
    <3>1. i - 1 \in DOMAIN t[p]
      BY <2>2, IndicesAreNumbers
    <3> QED  BY <3>1
  <2>4. PICK c \in Object : c = t[p][l] /\ c \in Below(t, p)
    BY ChildIsBelow, SubtreeFacts
  <2>5. \A x \in Object : Precedes(t, x, o) <=> Precedes(t, x, c) \/ x \in Subtree(t, c)
    BY <2>2, <2>3, <2>4, LeftSibling
  <2>6. Behind(t, "drill", c) = Behind(t, "step", o)
    BY <1>5, <2>5 DEF Behind
  <2>7. c \in Bounds(t, q) /\ (Inside(t, q) => c \in Subtree(t, q.collection))
    BY <1>4, <2>1, <2>4, BoundsFacts
  <2>8. BackInv(t, q, "drill", c, ls)
    BY <1>1, <1>2, <2>6, <2>7 DEF BackInv
  <2> QED  BY <1>6, <2>1, <2>2, <2>3, <2>4, <2>8
<1>7. CASE ~(up # Null /\ Index(t, o) > 1)
  <2>1. Behind(t, "test", up) = Behind(t, "step", o)
    <3>1. CASE up \in Object
      <4>1. up # Null /\ ~(Index(t, o) > 1)
        BY <1>7, <3>1
      <4>2. PICK i \in DOMAIN t[up] : i = Index(t, o) /\ t[up][i] = o /\ ~(i > 1)
        BY <1>3, <3>1, <4>1
      <4>3. \A x \in Object : Precedes(t, x, o) <=> x = up \/ Precedes(t, x, up)
        BY <3>1, <4>2, FirstChild
      <4> QED  BY <1>5, <4>3 DEF Behind
    <3>2. CASE up = Null
      <4>1. \A x \in Object : ~Precedes(t, x, o)
        BY <1>3, <3>2, RootIsFirst
      <4>2. \A x \in Object : ~Precedes(t, x, up) /\ x # up
        BY <3>2, SubtreeFacts DEF Precedes, Below, RightOf
      <4> QED  BY <1>5, <4>1, <4>2 DEF Behind
    <3> QED  BY <1>3, <3>1, <3>2
  <2>2. BackInv(t, q, "test", up, ls)
    BY <1>1, <1>2, <1>4, <2>1 DEF BackInv
  <2> QED  BY <1>3, <1>7, <2>2
<1> QED  BY <1>6, <1>7

\* Backwards from an object of the collection it ends with what is nearest.
LEMMA BackEnds ==
  ASSUME NEW t \in Trees, NEW q \in AnyRequest, NEW how \in {"test", "step"}, NEW o, NEW ls,
         BackInv(t, q, how, o, ls),
         o \in {Null, q.collection} \/ ~MoreThan(q, Len(ls))
  PROVE  /\ IsInjective(ls)
         /\ Inside(t, q) =>
              Lists(t, q, ls, {x \in Below(t, q.collection) : Precedes(t, x, q.current)}, TRUE)
<1>0. IsForest(t) /\ Null \notin Object
  BY TreesAssumption
<1>1. PICK S : S = {x \in Bounds(t, q) : Precedes(t, x, q.current)}
  OBVIOUS
<1>2. PICK A : A = Behind(t, how, o) \cap Bounds(t, q)
  OBVIOUS
<1>3. (Inside(t, q) => o \in Subtree(t, q.collection)) /\ Going(t, q, ls, S, A, TRUE)
  BY <1>1, <1>2 DEF BackInv
<1>4. IsInjective(ls)
  BY <1>3, GoingIsOrdered
<1>5. ASSUME Inside(t, q)
      PROVE  Lists(t, q, ls, {x \in Below(t, q.collection) : Precedes(t, x, q.current)}, TRUE)
  <2>1. PICK r \in Object : r = q.collection
    BY RequestFacts
  <2>2. Bounds(t, q) = Below(t, r)
    BY <1>5, <2>1 DEF Bounds
  <2>3. o \in Object
    BY <1>0, <1>3, <1>5, <2>1, SubtreeFacts
  <2>4. A = {} \/ ~MoreThan(q, Len(ls))
    <3>1. SUFFICES ASSUME o = r PROVE A = {}
      BY <1>0, <2>1, <2>3
    <3>2. \A x \in Below(t, r) : x \in Object /\ Precedes(t, r, x) /\ x # r
      BY <1>0, SubtreeFacts DEF Below, Precedes
    <3>3. \A x \in Below(t, r) : ~Precedes(t, x, r)
      BY <1>0, <3>2, PrecedesOneWay
    <3>4. how # "drill"
      OBVIOUS
    <3> QED  BY <1>2, <2>2, <3>1, <3>2, <3>3, <3>4 DEF Behind
  <2>5. Lists(t, q, ls, S, TRUE)
    BY <1>3, <2>4, GoingEnds
  <2> QED  BY <1>1, <2>1, <2>2, <2>5
<1> QED  BY <1>4, <1>5

-----------------------------------------------------------------------------
(* The steps of a call keep the invariant *)

LEMMA NotListed ==
  ASSUME reply' \notin {"list", "never"}
  PROVE  WalksListInOrder'
BY DEF WalksListInOrder, ForwardListings, NearestFirst, InOrderStartsRight, NoneTwice,
       LostOutside, Answered

\* What a step of a walk finds: the call it is for and the tree it is in.
LEMMA WalkFacts ==
  ASSUME CollectionInv, stage # "none"
  PROVE  /\ reply = "none" /\ request \in AnyRequest
         /\ children \in Trees /\ IsForest(children) /\ Null \notin Object
         /\ matches \in Seq(Object) /\ frames \in Seq(Frame)
         /\ at \in Object \cup {Null} /\ next \in Nat \ {0}
         /\ stage = "query" => Forward(request)
         /\ stage \in {"query", "inorder", "again", "test", "step", "drill"}
BY TreesAssumption DEF CollectionInv, CollectionTypeOK, WalkInv

LEMMA LoopFacts ==
  ASSUME CollectionInv, Walking
  PROVE  /\ stage \in {"query", "inorder", "again"}
         /\ Top \in Frame
         /\ stage = "query" =>
              /\ Forward(request)
              /\ QueryInv(children, request, frames, matches)
         /\ stage = "inorder" => InorderInv(children, request, frames, at, matches)
         /\ stage = "again" => AgainInv(children, request, frames, at, matches)
         /\ stage \in {"inorder", "again"} => StopsAt(request) = Null
         /\ StopsAt(request) = StopAt
<1>1. CollectionTypeOK /\ WalkInv /\ frames # <<>>
  BY DEF CollectionInv, Walking
<1>2. stage \in {"query", "inorder", "again"}
  BY <1>1 DEF CollectionTypeOK, WalkInv
<1>3. Top \in Frame
  BY <1>1, FrontFacts DEF CollectionTypeOK, Top
<1>4. stage = "query" =>
              /\ Forward(request)
              /\ QueryInv(children, request, frames, matches)
  BY <1>1 DEF WalkInv
<1>5. /\ stage = "inorder" => InorderInv(children, request, frames, at, matches)
      /\ stage = "again" => AgainInv(children, request, frames, at, matches)
      /\ stage \in {"inorder", "again"} => StopsAt(request) = Null
  BY <1>1 DEF WalkInv, StopsAt
<1>6. StopsAt(request) = StopAt
  BY DEF StopsAt, StopAt
<1> QED  BY <1>2, <1>3, <1>4, <1>5, <1>6

LEMMA ReturnKeepsInv ==
  ASSUME CollectionInv, Return
  PROVE  CollectionInv'
<1>1. /\ Walking /\ (InLoop => Child = StopAt) /\ frames' = Front(frames) /\ frames # <<>>
      /\ UNCHANGED <<children, request, reply, matches, stage, at, next>>
  BY DEF Return, Walking
<1>2. stage \in {"query", "inorder", "again"}
  BY <1>1, LoopFacts
<1>3. /\ reply = "none" /\ request \in AnyRequest
      /\ IsForest(children) /\ Null \notin Object /\ frames \in Seq(Frame)
  BY <1>2, WalkFacts
<1>4. PICK t, q, fs, ls, f : t = children /\ q = request /\ fs = frames /\ ls = matches
                               /\ f = Top
  OBVIOUS
<1>5. /\ IsForest(t) /\ q \in AnyRequest /\ fs # <<>> /\ f = fs[Len(fs)] /\ f \in Frame
  BY <1>1, <1>3, <1>4, LoopFacts DEF Top
<1>6. f.index \in DOMAIN t[f.obj] /\ MoreThan(q, Len(ls)) => t[f.obj][f.index] = StopsAt(q)
  BY <1>1, <1>4, LoopFacts DEF InLoop, More, Child
<1>7. CASE stage = "query"
  <2>1. QueryInv(t, q, fs, ls)
    BY <1>1, <1>4, <1>7, LoopFacts
  <2>2. QueryInv(t, q, Front(fs), ls)
    BY <1>3, <1>5, <1>6, <2>1, QueryReturns
  <2>3. WalkInv'
    BY <1>1, <1>4, <1>7, <2>2 DEF CollectionInv, WalkInv
  <2> QED  BY <1>1, <1>3, <2>3, NotListed, FrontFacts DEF CollectionInv, CollectionTypeOK
<1>8. stage \in {"inorder", "again"} =>
        f.index \notin DOMAIN t[f.obj] \/ ~MoreThan(q, Len(ls))
  <2>1. f.index \in DOMAIN t[f.obj] => t[f.obj][f.index] \in Object
    BY <1>5, ChildIsBelow DEF Frame
  <2> QED  BY <1>1, <1>3, <1>4, <1>6, <2>1, LoopFacts
<1>9. CASE stage = "inorder"
  <2>1. PICK o : o = at
    OBVIOUS
  <2>2. InorderInv(t, q, fs, o, ls)
    BY <1>1, <1>4, <1>9, <2>1, LoopFacts
  <2>3. InorderInv(t, q, Front(fs), o, ls)
    BY <1>5, <1>8, <1>9, <2>2, InorderReturns
  <2>4. WalkInv'
    BY <1>1, <1>4, <1>9, <2>1, <2>3 DEF CollectionInv, WalkInv
  <2> QED  BY <1>1, <1>3, <2>4, NotListed, FrontFacts DEF CollectionInv, CollectionTypeOK
<1>10. CASE stage = "again"
  <2>1. PICK o : o = at
    OBVIOUS
  <2>2. AgainInv(t, q, fs, o, ls)
    BY <1>1, <1>4, <1>10, <2>1, LoopFacts
  <2>3. AgainInv(t, q, Front(fs), o, ls)
    BY <1>5, <2>2, AgainReturns
  <2>4. WalkInv'
    BY <1>1, <1>4, <1>10, <2>1, <2>3 DEF CollectionInv, WalkInv
  <2> QED  BY <1>1, <1>3, <2>4, NotListed, FrontFacts DEF CollectionInv, CollectionTypeOK
<1> QED  BY <1>2, <1>7, <1>9, <1>10

LEMMA VisitKeepsInv ==
  ASSUME CollectionInv, Visit
  PROVE  CollectionInv'
<1>1. /\ Walking /\ InLoop /\ Child # StopAt /\ GoOn /\ frames # <<>>
      /\ UNCHANGED <<children, request, reply, stage, at, next>>
  BY DEF Visit, Walking, GoOn
<1>2. stage \in {"query", "inorder", "again"}
  BY <1>1, LoopFacts
<1>3. /\ reply = "none" /\ request \in AnyRequest /\ matches \in Seq(Object)
      /\ IsForest(children) /\ Null \notin Object /\ frames \in Seq(Frame)
  BY <1>2, WalkFacts
<1>4. PICK t, q, fs, ls, f : t = children /\ q = request /\ fs = frames /\ ls = matches
                               /\ f = Top
  OBVIOUS
<1>5. /\ IsForest(t) /\ q \in AnyRequest /\ fs # <<>> /\ f = fs[Len(fs)] /\ f \in Frame
      /\ f.index \in DOMAIN t[f.obj] /\ MoreThan(q, Len(ls)) /\ ls \in Seq(Object)
  BY <1>1, <1>3, <1>4, LoopFacts DEF Top, InLoop, More
<1>6. PICK c : c = t[f.obj][f.index]
  OBVIOUS
<1>7. c = Child /\ c # StopsAt(q)
  BY <1>1, <1>4, <1>6, LoopFacts DEF Child
<1>8. PICK deep : deep = Traverses
  OBVIOUS
<1>9. /\ deep \in BOOLEAN
      /\ stage \in {"inorder", "again"} => deep = TRUE
      /\ stage = "query" => deep = q.traverse
  BY <1>3, <1>4, <1>8, RequestFacts DEF Traverses
<1>10. PICK new : new = Grown(deep, fs, f, c)
  OBVIOUS
<1>11. PICK more : more = Listing(q, ls, f, c)
  OBVIOUS
<1>12. frames' = new
  BY <1>1, <1>4, <1>7, <1>8, <1>10 DEF GoOn, Grown
<1>13. matches' = more
  BY <1>1, <1>4, <1>7, <1>11 DEF GoOn, Found, Listing
<1>14. c \in Object
  BY <1>5, <1>6, ChildIsBelow DEF Frame
<1>15. more \in Seq(Object)
  BY <1>5, <1>11, <1>14 DEF Listing
<1>16. CASE stage = "query"
  <2>1. QueryInv(t, q, fs, ls) /\ Forward(q)
    BY <1>1, <1>4, <1>16, LoopFacts
  <2>2. q.traverse \in BOOLEAN /\ new = Grown(q.traverse, fs, f, c)
    BY <1>5, <1>9, <1>10, <1>16, RequestFacts
  <2>3. QueryInv(t, q, new, Listing(q, ls, f, c))
    BY <1>3, <1>5, <1>6, <1>7, <2>1, <2>2, QueryVisits
  <2>4. new \in Seq(Frame)
    <3>1. <<>> \in Seq(Frame)
      OBVIOUS
    <3> QED  BY <2>3, <3>1 DEF QueryInv, Stack
  <2>5. WalkInv'
    BY <1>1, <1>4, <1>11, <1>12, <1>13, <1>16, <2>3 DEF CollectionInv, WalkInv
  <2> QED  BY <1>1, <1>3, <1>12, <1>13, <1>15, <2>4, <2>5, NotListed
           DEF CollectionInv, CollectionTypeOK
<1>17. CASE stage = "inorder"
  <2>1. PICK o : o = at
    OBVIOUS
  <2>2. InorderInv(t, q, fs, o, ls)
    BY <1>1, <1>4, <1>17, <2>1, LoopFacts
  <2>3. deep \in {TRUE}
    BY <1>9, <1>17
  <2>4. InorderInv(t, q, new, o, Listing(q, ls, f, c))
    BY <1>5, <1>6, <1>10, <2>2, <2>3, InorderVisits
  <2>5. new \in Seq(Frame)
    BY <2>4 DEF InorderInv, Stack
  <2>6. WalkInv'
    BY <1>1, <1>4, <1>11, <1>12, <1>13, <1>17, <2>1, <2>4 DEF CollectionInv, WalkInv
  <2> QED  BY <1>1, <1>3, <1>12, <1>13, <1>15, <2>5, <2>6, NotListed
           DEF CollectionInv, CollectionTypeOK
<1>18. CASE stage = "again"
  <2>1. PICK o : o = at
    OBVIOUS
  <2>2. AgainInv(t, q, fs, o, ls)
    BY <1>1, <1>4, <1>18, <2>1, LoopFacts
  <2>3. deep \in {TRUE}
    BY <1>9, <1>18
  <2>4. AgainInv(t, q, new, o, Listing(q, ls, f, c))
    BY <1>5, <1>6, <1>10, <2>2, <2>3, AgainVisits
  <2>5. new \in Seq(Frame)
    BY <2>4 DEF AgainInv, Stack
  <2>6. WalkInv'
    BY <1>1, <1>4, <1>11, <1>12, <1>13, <1>18, <2>1, <2>4 DEF CollectionInv, WalkInv
  <2> QED  BY <1>1, <1>3, <1>12, <1>13, <1>15, <2>5, <2>6, NotListed
           DEF CollectionInv, CollectionTypeOK
<1> QED  BY <1>2, <1>16, <1>17, <1>18

LEMMA RightSubtreeKeepsInv ==
  ASSUME CollectionInv, RightSubtree
  PROVE  CollectionInv'
<1>1. /\ reply = "none" /\ frames = <<>> /\ stage = "inorder" /\ at # request.collection
      /\ UNCHANGED <<children, request, reply, matches, stage>>
  BY DEF RightSubtree, Climbing
<1>2. PICK t, q, o, ls : t = children /\ q = request /\ o = at /\ ls = matches
  OBVIOUS
<1>3. IsForest(t) /\ Null \notin Object /\ q \in AnyRequest
  BY <1>1, <1>2, WalkFacts
<1>4. PICK up, i : up = Parent(t, o) /\ i = Index(t, o)
  OBVIOUS
<1>5. /\ up # Null /\ frames' = <<Activation(up, i + 1, TRUE)>>
      /\ at' = up /\ next' = i + 1
  BY <1>2, <1>4 DEF RightSubtree
<1>6. InorderInv(t, q, <<>>, o, ls) /\ o # q.collection
  BY <1>1, <1>2 DEF CollectionInv, WalkInv
<1>7. /\ up \in Object /\ i + 1 \in Nat \ {0}
      /\ InorderInv(t, q, <<Activation(up, i + 1, TRUE)>>, up, ls)
  BY <1>3, <1>4, <1>5, <1>6, InorderClimbs
<1>8. frames' \in Seq(Frame)
  BY <1>5, <1>7 DEF InorderInv, Stack
<1>9. WalkInv'
  BY <1>1, <1>2, <1>5, <1>7 DEF CollectionInv, WalkInv
<1> QED  BY <1>1, <1>5, <1>7, <1>8, <1>9, NotListed DEF CollectionInv, CollectionTypeOK

LEMMA LostKeepsInv ==
  ASSUME CollectionInv, Lost
  PROVE  CollectionInv'
<1>1. /\ reply = "none" /\ frames = <<>> /\ stage = "inorder" /\ at # request.collection
      /\ Parent(children, at) = Null /\ reply' = "never" /\ NoWalk /\ matches' = <<>>
      /\ UNCHANGED <<children, request>>
  BY DEF Lost, Climbing
<1>2. PICK t, q, o : t = children /\ q = request /\ o = at
  OBVIOUS
<1>3. IsForest(t) /\ Null \notin Object /\ q \in AnyRequest
  BY <1>1, <1>2, WalkFacts
<1>4. /\ o \in Object /\ (Inside(t, q) => o \in Subtree(t, q.collection))
      /\ q.tree = "inorder" /\ q.current \in Object
  BY <1>1, <1>2 DEF CollectionInv, WalkInv, InorderInv
<1>5. ~Inside(t, q)
  <2>1. o # q.collection /\ Parent(t, o) = Null /\ q.collection \in Object
    BY <1>1, <1>2, <1>3, RequestFacts
  <2>2. \A p \in Object : \A i \in DOMAIN t[p] : t[p][i] # o
    BY <1>3, <1>4, <2>1, ParentAndIndex
  <2> QED  BY <1>3, <1>4, <2>1, <2>2, RootAlone
<1>6. WalksListInOrder'
  BY <1>1, <1>2, <1>4, <1>5 DEF WalksListInOrder, ForwardListings, NearestFirst,
       InOrderStartsRight, NoneTwice, LostOutside, Answered
<1>7. WalkInv'
  BY <1>1 DEF WalkInv, NoWalk
<1>8. /\ request' \in AnyRequest /\ matches' \in Seq(Object) /\ frames' \in Seq(Frame)
      /\ at' = Null /\ next' = 2 /\ stage' = "none"
  BY <1>1, <1>2, <1>3 DEF NoWalk
<1> QED  BY <1>1, <1>6, <1>7, <1>8 DEF CollectionInv, CollectionTypeOK

LEMMA AgainKeepsInv ==
  ASSUME CollectionInv, Again
  PROVE  CollectionInv'
<1>1. /\ reply = "none" /\ frames = <<>> /\ stage = "inorder" /\ at = request.collection
      /\ MoreThan(request, Len(matches)) /\ stage' = "again"
      /\ frames' = <<Activation(at, next, TRUE)>>
      /\ UNCHANGED <<children, request, reply, matches, at, next>>
  BY DEF Again, Climbing, More
<1>2. PICK t, q, ls, i : t = children /\ q = request /\ ls = matches /\ i = next
  OBVIOUS
<1>3. IsForest(t) /\ q \in AnyRequest /\ i \in Nat \ {0}
  BY <1>1, <1>2, WalkFacts
<1>4. /\ InorderInv(t, q, <<>>, q.collection, ls) /\ MoreThan(q, Len(ls))
      /\ q.current \in Object
  BY <1>1, <1>2 DEF CollectionInv, WalkInv
<1>5. AgainInv(t, q, <<Activation(q.collection, i, TRUE)>>, q.collection, ls)
  BY <1>3, <1>4, InorderComesHome
<1>6. frames' = <<Activation(q.collection, i, TRUE)>> /\ at' = q.collection
  BY <1>1, <1>2
<1>7. frames' \in Seq(Frame)
  BY <1>5, <1>6 DEF AgainInv, Stack
<1>8. WalkInv'
  BY <1>1, <1>2, <1>5, <1>6 DEF CollectionInv, WalkInv
<1> QED  BY <1>1, <1>7, <1>8, NotListed DEF CollectionInv, CollectionTypeOK

LEMMA TestKeepsInv ==
  ASSUME CollectionInv, Test
  PROVE  CollectionInv'
<1>1. /\ reply = "none" /\ stage = "test" /\ at \notin {Null, request.collection}
      /\ matches' = (IF More THEN Found(at) ELSE matches) /\ stage' = "step"
      /\ UNCHANGED <<children, request, reply, frames, at, next>>
  BY DEF Test, Turned
<1>2. PICK t, q, o, ls : t = children /\ q = request /\ o = at /\ ls = matches
  OBVIOUS
<1>3. IsForest(t) /\ q \in AnyRequest /\ o \in Object /\ o # q.collection /\ ls \in Seq(Object)
  BY <1>1, <1>2, WalkFacts
<1>4. BackInv(t, q, "test", o, ls)
  BY <1>1, <1>2 DEF CollectionInv, WalkInv
<1>5. PICK more : more = IF MoreThan(q, Len(ls)) /\ Match(o, q.rule) THEN Append(ls, o) ELSE ls
  OBVIOUS
<1>6. matches' = more /\ more \in Seq(Object)
  BY <1>1, <1>2, <1>3, <1>5 DEF More, Found
<1>7. BackInv(t, q, "step", o, more)
  BY <1>3, <1>4, <1>5, BackTests
<1>8. WalkInv'
  BY <1>1, <1>2, <1>6, <1>7 DEF CollectionInv, WalkInv
<1> QED  BY <1>1, <1>6, <1>8, NotListed DEF CollectionInv, CollectionTypeOK

LEMMA StepKeepsInv ==
  ASSUME CollectionInv, Step
  PROVE  CollectionInv'
<1>1. /\ reply = "none" /\ stage = "step" /\ at \notin {Null, request.collection}
      /\ UNCHANGED <<children, request, reply, matches, frames, next>>
  BY DEF Step, Turned
<1>2. PICK t, q, o, ls : t = children /\ q = request /\ o = at /\ ls = matches
  OBVIOUS
<1>3. /\ IsForest(t) /\ Null \notin Object /\ q \in AnyRequest /\ o \in Object
      /\ o # q.collection
  BY <1>1, <1>2, WalkFacts
<1>4. BackInv(t, q, "step", o, ls)
  BY <1>1, <1>2 DEF CollectionInv, WalkInv
<1>5. PICK up : up = Parent(t, o)
  OBVIOUS
<1>6. CASE up # Null /\ Index(t, o) > 1
  <2>1. PICK c \in Object : c = t[up][Index(t, o) - 1] /\ BackInv(t, q, "drill", c, ls)
    BY <1>3, <1>4, <1>5, <1>6, BackSteps
  <2>2. at' = c /\ stage' = "drill"
    BY <1>2, <1>5, <1>6, <2>1 DEF Step
  <2>3. WalkInv'
    BY <1>1, <1>2, <2>1, <2>2 DEF CollectionInv, WalkInv
  <2> QED  BY <1>1, <2>1, <2>2, <2>3, NotListed DEF CollectionInv, CollectionTypeOK
<1>7. CASE ~(up # Null /\ Index(t, o) > 1)
  <2>1. up \in Object \cup {Null} /\ BackInv(t, q, "test", up, ls)
    BY <1>3, <1>4, <1>5, <1>7, BackSteps
  <2>2. at' = up /\ stage' = "test"
    BY <1>2, <1>5, <1>7 DEF Step
  <2>3. WalkInv'
    BY <1>1, <1>2, <2>1, <2>2 DEF CollectionInv, WalkInv
  <2> QED  BY <1>1, <2>1, <2>2, <2>3, NotListed DEF CollectionInv, CollectionTypeOK
<1> QED  BY <1>6, <1>7

LEMMA DrillKeepsInv ==
  ASSUME CollectionInv, Drill
  PROVE  CollectionInv'
<1>1. /\ reply = "none" /\ stage = "drill"
      /\ UNCHANGED <<children, request, reply, matches, frames, next>>
  BY DEF Drill
<1>2. PICK t, q, o, ls : t = children /\ q = request /\ o = at /\ ls = matches
  OBVIOUS
<1>3. IsForest(t) /\ q \in AnyRequest
  BY <1>1, <1>2, WalkFacts
<1>4. BackInv(t, q, "drill", o, ls)
  BY <1>1, <1>2 DEF CollectionInv, WalkInv
<1>5. o \in Object
  BY <1>3, <1>4, RequestFacts, SubtreeFacts DEF BackInv, Bounds, Below
<1>6. CASE t[o] # <<>>
  <2>1. PICK c \in Object : c = Last(t[o]) /\ BackInv(t, q, "drill", c, ls)
    BY <1>3, <1>4, <1>5, <1>6, BackDrills
  <2>2. at' = c /\ stage' = "drill"
    BY <1>1, <1>2, <1>6, <2>1 DEF Drill
  <2>3. WalkInv'
    BY <1>1, <1>2, <2>1, <2>2 DEF CollectionInv, WalkInv
  <2> QED  BY <1>1, <2>1, <2>2, <2>3, NotListed DEF CollectionInv, CollectionTypeOK
<1>7. CASE t[o] = <<>>
  <2>1. BackInv(t, q, "test", o, ls)
    BY <1>3, <1>4, <1>5, <1>7, BackDrills
  <2>2. at' = at /\ stage' = "test"
    BY <1>2, <1>7 DEF Drill
  <2>3. WalkInv'
    BY <1>1, <1>2, <2>1, <2>2 DEF CollectionInv, WalkInv
  <2> QED  BY <1>1, <2>2, <2>3, NotListed DEF CollectionInv, CollectionTypeOK
<1> QED  BY <1>6, <1>7

LEMMA InitialValues ==
  /\ <<>> \in Seq(Object) /\ <<>> \in Seq(Frame)
  /\ \A n : n = 2 => n \in Nat \ {0}
OBVIOUS

\* A request that was just received, with the walk that is to answer it.
LEMMA StartKeepsInv ==
  ASSUME CollectionInv, request' \in AnyRequest, matches' = <<>>, UNCHANGED children,
         reply' \in {"none", "empty", "crash", "error", "invalid arguments"},
         stage' \in {"none", "query", "inorder", "step"},
         reply' # "none" => stage' = "none",
         frames' \in Seq(Frame), at' \in Object \cup {Null}, next' = 2, WalkInv'
  PROVE  CollectionInv'
<1>1. reply' \notin {"list", "never"}
  OBVIOUS
<1>2. WalksListInOrder'
  BY <1>1, NotListed
<1>3. children \in Trees
  BY DEF CollectionInv, CollectionTypeOK
<1>4. matches' \in Seq(Object)
  BY InitialValues
<1>5. CollectionTypeOK'
  <2>1. children' \in Trees
    BY <1>3
  <2>4. next' \in Nat \ {0}
    BY InitialValues
  <2>5. request' \in AnyRequest \cup {Null}
    OBVIOUS
  <2>2. reply' \in {"none", "list", "empty", "never", "crash", "error", "invalid arguments"}
    OBVIOUS
  <2>3. stage' \in {"none", "query", "inorder", "again", "test", "step", "drill"}
    OBVIOUS
  <2> QED  BY <1>4, <2>1, <2>2, <2>3, <2>4, <2>5 DEF CollectionTypeOK
<1> QED  BY <1>2, <1>5 DEF CollectionInv

LEMMA AnswerKeepsInv ==
  ASSUME CollectionInv, NEW q \in AnyRequest, request' = q, matches' = <<>>,
         UNCHANGED children,
         NEW reason \in {"empty", "crash", "error", "invalid arguments"},
         AnswerWithout(reason)
  PROVE  CollectionInv'
<1>1. reply' = reason /\ stage' = "none" /\ frames' = <<>> /\ at' = Null /\ next' = 2
  BY DEF AnswerWithout, NoWalk
<1>2. WalkInv'
  BY <1>1 DEF WalkInv
<1> QED  BY <1>1, <1>2, InitialValues, StartKeepsInv

LEMMA BeginKeepsInv ==
  ASSUME CollectionInv, NEW q \in AnyRequest, request' = q, matches' = <<>>,
         UNCHANGED children, Forward(q),
         NEW fs, Begin("query", fs, Null),
         q.sortby = "other" => fs = <<>>,
         q.sortby # "other" =>
           fs = IF Start(children, q) = Null THEN <<>> ELSE <<First(children, q)>>
  PROVE  CollectionInv'
<1>1. /\ reply' = "none" /\ stage' = "query" /\ frames' = fs /\ at' = Null /\ next' = 2
  BY DEF Begin
<1>2. PICK t : t = children
  OBVIOUS
<1>3. t \in Trees /\ IsForest(t) /\ Null \notin Object
  BY <1>2, TreesAssumption DEF CollectionInv, CollectionTypeOK
<1>4. QueryInv(t, q, fs, <<>>)
  BY <1>2, <1>3, QueryStarts
<1>5. fs \in Seq(Frame)
  <2>1. <<>> \in Seq(Frame)
    OBVIOUS
  <2> QED  BY <1>4, <2>1 DEF QueryInv, Stack
<1>6. WalkInv'
  BY <1>1, <1>2, <1>4 DEF WalkInv
<1> QED  BY <1>1, <1>5, <1>6, StartKeepsInv

LEMMA DispatchKeepsInv ==
  ASSUME CollectionInv, NEW q \in AnyRequest, request' = q, matches' = <<>>,
         UNCHANGED children, q.current # Null \/ q.member = "GetMatches", Dispatch(q)
  PROVE  CollectionInv'
<1>1. /\ q.collection \in Object /\ q.current \in Object \cup {Null}
      /\ q.recurse \in BOOLEAN
  BY RequestFacts
<1>2. PICK t : t = children
  OBVIOUS
<1>3. t \in Trees /\ IsForest(t) /\ Null \notin Object
  BY <1>2, TreesAssumption DEF CollectionInv, CollectionTypeOK
<1>4. PICK none, first :
        /\ none = <<>>
        /\ first = IF q.sortby = "other" \/ Start(t, q) = Null THEN <<>> ELSE <<First(t, q)>>
  OBVIOUS
<1>5. /\ q.sortby = "other" => first = <<>>
      /\ q.sortby # "other" =>
           first = IF Start(t, q) = Null THEN <<>> ELSE <<First(t, q)>>
  BY <1>4
<1>6. ASSUME Forward(q), Begin("query", first, Null)
      PROVE  CollectionInv'
  BY <1>2, <1>5, <1>6, BeginKeepsInv
<1>7. ASSUME NEW obj, NEW index, NEW flag, QueryExec(q, obj, index, flag),
             obj = Start(t, q),
             obj # Null => index = FirstIndex(t, q),
             flag = (q.member # "GetMatchesFrom")
      PROVE  Begin("query", first, Null)
  BY <1>4, <1>7 DEF QueryExec, First
<1>8. CASE q.member = "GetMatches" /\ GetMatches(q)
  <2>1. Start(t, q) = q.collection /\ FirstIndex(t, q) = 1 /\ Forward(q)
    BY <1>8 DEF Start, FirstIndex, Forward
  <2>2. QueryExec(q, q.collection, 1, TRUE)
    BY <1>8 DEF GetMatches
  <2> QED  BY <1>6, <1>7, <1>8, <2>1, <2>2
<1>9. CASE q.member = "GetMatchesFrom" /\ q.tree \in {"children", "sibling"}
           /\ GetMatchesFrom(q)
  <2>1. Forward(q)
    BY <1>1, <1>9 DEF Forward
  <2>2. CASE q.tree = "children"
    <3>1. Start(t, q) = q.current /\ FirstIndex(t, q) = 1
      BY <1>9, <2>2 DEF Start, FirstIndex
    <3>2. QueryExec(q, q.current, 1, FALSE)
      BY <1>9, <2>2 DEF GetMatchesFrom
    <3> QED  BY <1>6, <1>7, <1>9, <2>1, <3>1, <3>2
  <2>3. CASE q.tree = "sibling"
    <3>1. PICK up, i : /\ up = Parent(t, q.current)
                       /\ i = IF up = Null THEN 1 ELSE Index(t, q.current)
      OBVIOUS
    <3>2. Start(t, q) = up /\ (up # Null => FirstIndex(t, q) = i)
      BY <1>9, <2>3, <3>1 DEF Start, FirstIndex
    <3>3. QueryExec(q, up, i, FALSE)
      BY <1>2, <1>9, <2>3, <3>1 DEF GetMatchesFrom
    <3> QED  BY <1>6, <1>7, <1>9, <2>1, <3>2, <3>3
  <2> QED  BY <1>9, <2>2, <2>3
<1>10. CASE q.member = "GetMatchesTo" /\ q.tree \in {"children", "sibling"}
            /\ GetMatchesTo(q)
  <2>1. Forward(q)
    BY <1>1, <1>10 DEF Forward
  <2>2. PICK p : p = IF q.recurse THEN Parent(t, q.current) ELSE q.collection
    OBVIOUS
  <2>3. Start(t, q) = p /\ FirstIndex(t, q) = 1
    BY <1>10, <2>2 DEF Start, FirstIndex
  <2>4. QueryExec(q, p, 1, TRUE)
    BY <1>2, <1>10, <2>2 DEF GetMatchesTo
  <2> QED  BY <1>6, <1>7, <1>10, <2>1, <2>3, <2>4
<1>11. CASE q.member = "GetMatchesFrom" /\ q.tree = "inorder" /\ GetMatchesInOrder(q)
  <2>1. PICK o \in Object : o = q.current
    BY <1>1, <1>11
  <2>2. PICK fs : fs = <<Activation(o, 1, TRUE)>>
    OBVIOUS
  <2>3. reply' = "none" /\ stage' = "inorder" /\ frames' = fs /\ at' = o /\ next' = 2
    BY <1>11, <2>1, <2>2 DEF GetMatchesInOrder, Begin
  <2>4. InorderInv(t, q, fs, o, <<>>)
    BY <1>3, <2>1, <2>2, InorderStarts
  <2>5. fs \in Seq(Frame)
    BY <2>4 DEF InorderInv, Stack
  <2>6. WalkInv'
    BY <1>2, <1>11, <2>1, <2>3, <2>4 DEF WalkInv
  <2> QED  BY <2>3, <2>5, <2>6, StartKeepsInv
<1>12. CASE q.member = "GetMatchesTo" /\ q.tree = "inorder" /\ GetMatchesInBackOrder(q)
  <2>1. PICK o \in Object : o = q.current
    BY <1>1, <1>12
  <2>2. reply' = "none" /\ stage' = "step" /\ frames' = <<>> /\ at' = o /\ next' = 2
    BY <1>12, <2>1 DEF GetMatchesInBackOrder, Begin
  <2>3. BackInv(t, q, "step", o, <<>>)
    BY <1>3, <2>1, BackStarts
  <2>4. WalkInv'
    BY <1>2, <1>12, <2>1, <2>2, <2>3 DEF WalkInv
  <2> QED  BY <2>2, <2>4, InitialValues, StartKeepsInv
<1>13. CASE q.member # "GetMatches" /\ q.tree = "other" /\ AnswerWithout("empty")
  BY <1>13, AnswerKeepsInv
<1> QED  BY <1>8, <1>9, <1>10, <1>11, <1>12, <1>13 DEF Dispatch

LEMMA AskKeepsInv ==
  ASSUME CollectionInv, NEW q \in AnyRequest, NEW form \in Form, Ask(q, form)
  PROVE  CollectionInv'
<1>1. request' = q /\ matches' = <<>> /\ UNCHANGED children
  BY DEF Ask
<1>2. \/ AnswerWithout("invalid arguments") \/ AnswerWithout("error")
      \/ AnswerWithout("crash")
      \/ (q.current # Null \/ q.member = "GetMatches") /\ Dispatch(q)
  BY DEF Ask
<1>3. CASE AnswerWithout("invalid arguments")
  BY <1>1, <1>3, AnswerKeepsInv
<1>4. CASE AnswerWithout("error")
  BY <1>1, <1>4, AnswerKeepsInv
<1>5. CASE AnswerWithout("crash")
  BY <1>1, <1>5, AnswerKeepsInv
<1>6. CASE (q.current # Null \/ q.member = "GetMatches") /\ Dispatch(q)
  BY <1>1, <1>6, DispatchKeepsInv
<1> QED  BY <1>2, <1>3, <1>4, <1>5, <1>6

LEMMA SentKeepsInv ==
  ASSUME CollectionInv, Sent
  PROVE  CollectionInv'
<1>1. /\ reply # "none" /\ request' = Null /\ reply' = "none" /\ matches' = <<>>
      /\ UNCHANGED <<children, stage, frames, at, next>>
  BY DEF Sent, walkVars
<1>2. stage = "none"
  BY <1>1 DEF CollectionInv
<1>3. WalkInv'
  BY <1>1, <1>2 DEF CollectionInv, WalkInv
<1>4. matches' \in Seq(Object)
  BY <1>1
<1> QED  BY <1>1, <1>3, <1>4, NotListed DEF CollectionInv, CollectionTypeOK

LEMMA InorderEnds ==
  ASSUME NEW t \in Trees, NEW q \in AnyRequest, NEW o, NEW ls,
         InorderInv(t, q, <<>>, o, ls), ~MoreThan(q, Len(ls))
  PROVE  /\ IsInjective(ls)
         /\ Inside(t, q) => Lists(t, q, ls, Following(t, q), FALSE)
<1>1. PICK S : S = {x \in Bounds(t, q) : Precedes(t, q.current, x)}
  OBVIOUS
<1>2. PICK A : A = (AllAhead(t, TRUE, <<>>) \cup RightOf(t, o)) \cap Bounds(t, q)
  OBVIOUS
<1>3. Going(t, q, ls, S, A, FALSE)
  BY <1>1, <1>2 DEF InorderInv
<1>4. Inside(t, q) => S = Following(t, q)
  BY <1>1 DEF Bounds, Following
<1> QED  BY <1>3, <1>4, GoingEnds, GoingIsOrdered

LEMMA AgainEnds ==
  ASSUME NEW t, NEW q, NEW fs, NEW o, NEW ls, AgainInv(t, q, fs, o, ls)
  PROVE  /\ Inside(t, q)
         /\ \E n \in 0 .. Len(ls) :
              /\ MoreThan(q, n)
              /\ Lists(t, q, SubSeq(ls, 1, n), Following(t, q), FALSE)
              /\ {x \in Following(t, q) : Match(x, q.rule)} \subseteq ToSet(SubSeq(ls, 1, n))
<1>1. ls \in Seq(Object) /\ Inside(t, q)
  BY DEF AgainInv
<1>2. PICK n \in 0 .. Len(ls) :
        MoreThan(q, n) /\ Lists(t, q, SubSeq(ls, 1, n), Following(t, q), FALSE)
  BY DEF AgainInv
<1>3. Len(SubSeq(ls, 1, n)) = n
  BY <1>1, <1>2
<1>4. {x \in Following(t, q) : Match(x, q.rule)} \subseteq ToSet(SubSeq(ls, 1, n))
  BY <1>2, <1>3 DEF Lists
<1> QED  BY <1>1, <1>2, <1>4

LEMMA ReverseOfNone == Reverse(<<>>) = <<>>
BY DEF Reverse

LEMMA ReturnListKeepsInv ==
  ASSUME CollectionInv, ReturnList
  PROVE  CollectionInv'
<1>1. /\ WalkOver /\ reply = "none" /\ frames = <<>> /\ stage # "none" /\ reply' = "list"
      /\ matches' = (IF TurnsRound THEN Reverse(matches) ELSE matches)
      /\ stage' = "none" /\ frames' = <<>> /\ at' = Null /\ next' = 2
      /\ UNCHANGED <<children, request>>
  BY DEF ReturnList, WalkOver, NoWalk, Turned
<1>2. PICK t, q, ls, o : t = children /\ q = request /\ ls = matches /\ o = at
  OBVIOUS
<1>3. t \in Trees /\ q \in AnyRequest /\ ls \in Seq(Object)
  BY <1>1, <1>2, WalkFacts
<1>4. PICK round \in BOOLEAN : round = TurnsRound
  BY DEF TurnsRound
<1>5. TurnsRound' = round
  BY <1>1, <1>4 DEF TurnsRound, IsReverse
<1>6. matches' = IF round THEN Reverse(ls) ELSE ls
  BY <1>1, <1>2, <1>4
<1>7. /\ matches' \in Seq(Object)
      /\ Listed' = ls
      /\ IsInjective(ls) => IsInjective(matches')
      /\ ls = <<>> => matches' = <<>>
  <2>1. CASE round
    <3>1. matches' = Reverse(ls)
      BY <1>6, <2>1
    <3>2. Listed' = Reverse(matches')
      BY <1>5, <2>1 DEF Listed
    <3> QED  BY <1>3, <3>1, <3>2, ReverseFacts, ReverseOfNone
  <2>2. CASE ~round
    <3>1. matches' = ls
      BY <1>6, <2>2
    <3>2. Listed' = matches'
      BY <1>5, <2>2 DEF Listed
    <3> QED  BY <1>3, <3>1, <3>2
  <2> QED  BY <2>1, <2>2
<1>8. children' = t /\ request' = q
  BY <1>1, <1>2
<1>9. WalksListInOrder'
  <2>1. LostOutside'
    BY <1>1 DEF LostOutside
  <2>2. CASE stage = "query"
    <3>1. Forward(q) /\ QueryInv(t, q, <<>>, ls)
      BY <1>1, <1>2, <2>2 DEF CollectionInv, WalkInv
    <3>2. /\ q.sortby = "other" => ls = <<>>
          /\ q.sortby # "other" => Lists(t, q, ls, Sought(t, q), FALSE)
          /\ IsInjective(ls)
      BY <1>3, <3>1, QueryEnds
    <3>3. ForwardListings'
      BY <1>7, <1>8, <3>2 DEF ForwardListings
    <3>4. NearestFirst' /\ InOrderStartsRight'
      BY <1>8, <3>1 DEF Forward, NearestFirst, InOrderStartsRight, Answered
    <3>5. NoneTwice'
      BY <1>7, <3>2 DEF NoneTwice
    <3> QED  BY <2>1, <3>3, <3>4, <3>5 DEF WalksListInOrder
  <2>3. CASE stage \in {"inorder", "again"}
    <3>1. q.member = "GetMatchesFrom" /\ q.tree = "inorder"
      BY <1>1, <1>2, <2>3 DEF CollectionInv, WalkInv
    <3>2. ForwardListings' /\ NearestFirst'
      BY <1>8, <3>1 DEF ForwardListings, NearestFirst, Answered
    <3>3. Len(ls) \in 0 .. Len(ls) /\ SubSeq(ls, 1, Len(ls)) = ls
      BY <1>3
    <3>4. CASE stage = "inorder"
      <4>1. ~MoreThan(q, Len(ls))
        BY <1>1, <1>2, <3>4 DEF WalkOver, More, Turned
      <4>2. InorderInv(t, q, <<>>, o, ls)
        BY <1>1, <1>2, <3>4 DEF CollectionInv, WalkInv
      <4>3. /\ IsInjective(ls)
            /\ Inside(t, q) => Lists(t, q, ls, Following(t, q), FALSE)
        BY <1>3, <4>1, <4>2, InorderEnds
      <4>4. InOrderStartsRight'
        BY <1>7, <1>8, <3>3, <4>3 DEF InOrderStartsRight
      <4>5. NoneTwice'
        BY <1>7, <4>3 DEF NoneTwice
      <4> QED  BY <2>1, <3>2, <4>4, <4>5 DEF WalksListInOrder
    <3>5. CASE stage = "again"
      <4>1. AgainInv(t, q, <<>>, o, ls)
        BY <1>1, <1>2, <3>5 DEF CollectionInv, WalkInv
      <4>2. Inside(t, q)
        BY <4>1, AgainEnds
      <4>3. PICK n \in 0 .. Len(ls) :
              /\ MoreThan(q, n)
              /\ Lists(t, q, SubSeq(ls, 1, n), Following(t, q), FALSE)
              /\ {x \in Following(t, q) : Match(x, q.rule)} \subseteq ToSet(SubSeq(ls, 1, n))
        BY <4>1, AgainEnds
      <4>4. InOrderStartsRight'
        BY <1>7, <1>8, <4>3 DEF InOrderStartsRight
      <4>5. NoneTwice'
        BY <1>1, <1>7, <1>8, <3>1, <4>2, <4>3 DEF NoneTwice, Answered
      <4> QED  BY <2>1, <3>2, <4>4, <4>5 DEF WalksListInOrder
    <3> QED  BY <2>3, <3>4, <3>5
  <2>4. CASE stage \in {"test", "step"}
    <3>1. q.member = "GetMatchesTo" /\ q.tree = "inorder"
      BY <1>1, <1>2, <2>4 DEF CollectionInv, WalkInv
    <3>2. PICK how \in {"test", "step"} : how = stage
      BY <2>4
    <3>3. BackInv(t, q, how, o, ls)
      BY <1>1, <1>2, <2>4, <3>2 DEF CollectionInv, WalkInv
    <3>4. o \in {Null, q.collection} \/ ~MoreThan(q, Len(ls))
      BY <1>1, <1>2, <2>4 DEF WalkOver, Turned, More
    <3>5. /\ IsInjective(ls)
          /\ Inside(t, q) =>
              Lists(t, q, ls, {x \in Below(t, q.collection) : Precedes(t, x, q.current)}, TRUE)
      BY <1>3, <3>2, <3>3, <3>4, BackEnds
    <3>6. NearestFirst'
      BY <1>7, <1>8, <3>5 DEF NearestFirst
    <3>7. ForwardListings' /\ InOrderStartsRight'
      BY <1>8, <3>1 DEF ForwardListings, InOrderStartsRight, Answered
    <3>8. NoneTwice'
      BY <1>7, <3>5 DEF NoneTwice
    <3> QED  BY <2>1, <3>6, <3>7, <3>8 DEF WalksListInOrder
  <2>5. stage \in {"query", "inorder", "again", "test", "step"}
    BY <1>1 DEF WalkOver, Turned
  <2> QED  BY <2>2, <2>3, <2>4, <2>5
<1>10. WalkInv'
  BY <1>1 DEF WalkInv
<1>11. CollectionTypeOK'
  <2>1. children' \in Trees /\ request' \in AnyRequest \cup {Null} /\ frames' \in Seq(Frame)
    BY <1>1, <1>3, <1>8, InitialValues
  <2>2. next' \in Nat \ {0}
    BY <1>1, InitialValues
  <2> QED  BY <1>1, <1>7, <2>1, <2>2 DEF CollectionTypeOK
<1> QED  BY <1>1, <1>3, <1>8, <1>9, <1>10, <1>11 DEF CollectionInv

LEMMA CollectionInvInit ==
  ASSUME CollectionInit
  PROVE  CollectionInv
<1>1. /\ children \in Trees /\ request = Null /\ reply = "none" /\ matches = <<>>
      /\ stage = "none" /\ frames = <<>> /\ at = Null /\ next = 2
  BY DEF CollectionInit
<1>2. CollectionTypeOK
  BY <1>1, InitialValues DEF CollectionTypeOK
<1>3. WalksListInOrder
  BY <1>1 DEF WalksListInOrder, ForwardListings, NearestFirst, InOrderStartsRight, NoneTwice,
       LostOutside, Answered
<1> QED  BY <1>1, <1>2, <1>3 DEF CollectionInv, WalkInv

LEMMA CollectionStep ==
  ASSUME CollectionInv, [CollectionNext]_collectionVars
  PROVE  CollectionInv'
<1>1. CASE AskGetMatches
  BY <1>1, AskKeepsInv DEF AskGetMatches, AnyRequest
<1>2. CASE AskGetMatchesFrom
  BY <1>2, AskKeepsInv DEF AskGetMatchesFrom, AnyRequest
<1>3. CASE AskGetMatchesTo
  BY <1>3, AskKeepsInv DEF AskGetMatchesTo, AnyRequest
<1>4. CASE Walk
  BY <1>4, ReturnKeepsInv, VisitKeepsInv, RightSubtreeKeepsInv, LostKeepsInv, AgainKeepsInv,
     TestKeepsInv, StepKeepsInv, DrillKeepsInv, ReturnListKeepsInv DEF Walk
<1>5. CASE Sent
  BY <1>5, SentKeepsInv
<1>6. CASE UNCHANGED collectionVars
  <2>1. UNCHANGED <<children, request, reply, matches, stage, frames, at, next>>
    BY <1>6 DEF collectionVars
  <2>2. CollectionTypeOK' /\ WalkInv' /\ (reply' # "none" => request' \in AnyRequest /\ stage' = "none")
    BY <2>1 DEF CollectionInv, CollectionTypeOK, WalkInv
  <2>3. WalksListInOrder'
    BY <2>1 DEF CollectionInv, WalksListInOrder, ForwardListings, NearestFirst,
       InOrderStartsRight, NoneTwice, LostOutside, Answered, Listed, TurnsRound, IsReverse
  <2> QED  BY <2>2, <2>3 DEF CollectionInv
<1> QED  BY <1>1, <1>2, <1>3, <1>4, <1>5, <1>6 DEF CollectionNext

-----------------------------------------------------------------------------
(* What a collection answers *)

LEMMA MatchTypes ==
  ASSUME NEW rule \in Rules
  PROVE  /\ rule.interfacematchtype \in {"all", "any", "none", "invalid"}
         /\ rule.statematchtype \in {"all", "any", "none", "invalid"}
         /\ rule.rolematchtype \in {"all", "any", "none", "invalid"}
         /\ rule.attributematchtype \in {"all", "any", "none", "invalid"}
BY RulesAssumption DEF MatchType

\* The code reads a rule that it does not misread as the rule says.
LEMMA MatchIsMeets ==
  ASSUME NEW rule \in Rules, WellRead(rule), NEW o \in Object
  PROVE  Match(o, rule) <=> Meets(o, rule)
<1>1. MatchInterfaces(o, rule) <=>
        Criterion(rule.interfacematchtype, rule.interfaces, Look[o].interfaces)
  <2>1. PICK has, wanted, type :
          /\ has = {i \in rule.interfaces : Implements(o, i)}
          /\ wanted = rule.interfaces /\ type = rule.interfacematchtype
    OBVIOUS
  <2>2. has = wanted \cap Look[o].interfaces
    BY <2>1 DEF WellRead, Implements
  <2>3. type \in {"all", "any", "none", "invalid"} /\ (type = "any" => wanted # {})
    BY <2>1, MatchTypes DEF WellRead
  <2>4. MatchInterfaces(o, rule) <=>
          \/ type = "all" /\ has = wanted
          \/ type = "any" /\ has # {}
          \/ type = "none" /\ has = {}
    BY <2>1 DEF MatchInterfaces
  <2>5. has = wanted <=> wanted \subseteq Look[o].interfaces
    BY <2>2
  <2> QED  BY <2>1, <2>2, <2>3, <2>4, <2>5 DEF Criterion
<1>2. MatchStates(o, rule) <=>
        Criterion(rule.statematchtype, {StateTable[s] : s \in rule.states}, Look[o].states)
  <2>1. PICK states : states = {StateTable[s] : s \in rule.states}
    OBVIOUS
  <2>2. states = {AtkState(s) : s \in rule.states}
    BY <2>1 DEF WellRead, AtkState
  <2>3. PICK type : type = rule.statematchtype
    OBVIOUS
  <2>4. type \in {"all", "any", "none", "invalid"} /\ (type = "any" => states = {})
    BY <2>1, <2>3, MatchTypes DEF WellRead
  <2>5. MatchStates(o, rule) <=>
          \/ type = "all" /\ states \subseteq Look[o].states
          \/ type = "any" /\ (states = {} \/ ~(states \subseteq Look[o].states))
          \/ type = "none" /\ states \cap Look[o].states = {}
    BY <2>2, <2>3 DEF MatchStates
  <2> QED  BY <2>1, <2>3, <2>4, <2>5 DEF Criterion
<1>3. MatchRoles(o, rule) <=>
        Criterion(rule.rolematchtype, rule.roles, {SpiRole(Look[o].role)})
  <2>1. PICK role, wanted, type :
          /\ role = Look[o].role /\ wanted = rule.roles /\ type = rule.rolematchtype
    OBVIOUS
  <2>2. SpiRole(role) = role /\ type \in {"all", "any", "none", "invalid"}
    BY <2>1, MatchTypes DEF WellRead
  <2>3. MatchRoles(o, rule) <=>
          \/ type = "all" /\ wanted \subseteq {role}
          \/ type = "any" /\ (wanted = {} \/ role \in wanted)
          \/ type = "none" /\ role \notin wanted
    BY <2>1, <2>2 DEF MatchRoles
  <2>4. Criterion(type, wanted, {role}) <=>
          \/ wanted = {} /\ type # "invalid"
          \/ type = "all" /\ wanted \subseteq {role}
          \/ type = "any" /\ role \in wanted
          \/ type = "none" /\ role \notin wanted
    BY DEF Criterion
  <2> QED  BY <2>1, <2>2, <2>3, <2>4
<1>4. MatchAttributes(o, rule) <=>
        Criterion(rule.attributematchtype, rule.attributes, Look[o].attributes)
  <2>1. rule.attributes = {} /\ rule.attributematchtype \in {"all", "any", "none", "invalid"}
    BY MatchTypes DEF WellRead
  <2> QED  BY <2>1 DEF MatchAttributes, Criterion
<1> QED  BY <1>1, <1>2, <1>3, <1>4 DEF Match, Meets

LEMMA AllListed ==
  ASSUME CollectionInv
  PROVE  RulesMeanWhatTheySay
<1>1. SUFFICES ASSUME Answered({"GetMatches"}, TreeTraversal), request.sortby # "other",
                      request.count = 0, WellRead(request.rule)
               PROVE  ToSet(matches) =
                        {o \in Reach(children, request, request.collection) :
                           Meets(o, request.rule)}
  BY DEF RulesMeanWhatTheySay
<1>2. PICK t, q, ls : t = children /\ q = request /\ ls = Listed
  OBVIOUS
<1>3. q \in AnyRequest /\ q.member = "GetMatches" /\ IsForest(t) /\ matches \in Seq(Object)
      /\ Null \notin Object
  BY <1>1, <1>2, TreesAssumption DEF CollectionInv, CollectionTypeOK, Answered
<1>4. PICK S : S = Reach(t, q, q.collection)
  OBVIOUS
<1>5. Sought(t, q) = S
  BY <1>3, <1>4 DEF Sought
<1>6. Lists(t, q, ls, S, FALSE)
  <2>1. ForwardListings
    BY DEF CollectionInv, WalksListInOrder
  <2> QED  BY <1>1, <1>2, <1>5, <2>1 DEF ForwardListings
<1>7. ls \in Seq(Object) /\ ToSet(ls) = ToSet(matches)
  <2>1. CASE TurnsRound
    BY <1>2, <1>3, <2>1, ReverseFacts DEF Listed
  <2>2. CASE ~TurnsRound
    BY <1>2, <1>3, <2>2 DEF Listed
  <2> QED  BY <2>1, <2>2
<1>8. S \subseteq Object /\ q.rule \in Rules
  <2>1. q.collection \in Object /\ q.traverse \in BOOLEAN /\ q.rule \in Rules
    BY <1>3, RequestFacts
  <2> QED  BY <1>3, <1>4, <2>1, ReachIsDown
<1>9. \A o \in S : Match(o, q.rule) <=> Meets(o, q.rule)
  BY <1>1, <1>2, <1>8, MatchIsMeets
<1>10. \A x : x \in ToSet(ls) <=> \E i \in DOMAIN ls : ls[i] = x
  BY DEF ToSet
<1>11. \A x \in ToSet(ls) : x \in S /\ Match(x, q.rule)
  BY <1>6, <1>10 DEF Lists
<1>12. MoreThan(q, Len(ls))
  BY <1>1, <1>2 DEF MoreThan
<1>13. \A o \in S : Match(o, q.rule) => o \in ToSet(ls)
  BY <1>6, <1>12 DEF Lists
<1>14. ToSet(ls) = {o \in S : Meets(o, q.rule)}
  BY <1>9, <1>11, <1>13
<1> QED  BY <1>2, <1>4, <1>7, <1>14

(* Every reachable state of a collection call satisfies the invariant: in  *)
(* particular what sort_order_canonical, inorder and                       *)
(* sort_order_rev_canonical have listed and what they are still to walk    *)
(* make up what the call is to list, at every turn of their loops.         *)
THEOREM CollectionInvariant == CollectionSpec => []CollectionInv
<1>1. CollectionInit => CollectionInv
  BY CollectionInvInit
<1>2. CollectionInv /\ [CollectionNext]_collectionVars => CollectionInv'
  BY CollectionStep
<1> QED  BY <1>1, <1>2, PTL DEF CollectionSpec

(* The list holds objects, the activations of sort_order_canonical are for *)
(* objects and positive indices, and every call is answered in one of the  *)
(* ways the adaptor has.                                                   *)
THEOREM CollectionTypeCorrect == CollectionSpec => []CollectionTypeOK
<1>1. CollectionInv => CollectionTypeOK
  BY DEF CollectionInv
<1> QED  BY <1>1, CollectionInvariant, PTL

(* GetMatches, GetMatchesFrom and GetMatchesTo list what they should, in   *)
(* document order or its reverse, once and no further than was asked for,  *)
(* and inorder loses its way only outside the collection, in every forest, *)
(* for every rule and every count.                                         *)
THEOREM CollectionWalksListInOrder == CollectionSpec => []WalksListInOrder
<1>1. CollectionInv => WalksListInOrder
  BY DEF CollectionInv
<1> QED  BY <1>1, CollectionInvariant, PTL

(* GetMatches without a limit answers with exactly the objects below the   *)
(* collection that meet the rule, whatever the tree and the objects look   *)
(* like, if the rule asks for nothing that the match functions misread.    *)
THEOREM CollectionRulesMeanWhatTheySay == CollectionSpec => []RulesMeanWhatTheySay
<1>1. CollectionInv => RulesMeanWhatTheySay
  BY AllListed
<1> QED  BY <1>1, CollectionInvariant, PTL
=============================================================================
