----------------------------- MODULE Collection -----------------------------
(***************************************************************************)
(* adaptors/collection-adaptor.c: a client asks a collection for the       *)
(* objects that match a rule, below the collection (GetMatches), after an  *)
(* object (GetMatchesFrom) or before it (GetMatchesTo).  A walk of the     *)
(* tree is a sequence of steps here, each one turn of a loop or one call;  *)
(* nothing else runs between them and the tree does not change.  kount is  *)
(* the length of the list.                                                 *)
(***************************************************************************)
EXTENDS ToolkitTree, MatchRules, Integers, FiniteSets

CONSTANT Counts  \* how many matches clients ask for, 0 for all

ASSUME CountsAssumption == Counts \subseteq Int

SortOrder == {"canonical", "reverse", "other"}
TreeTraversal == {"children", "sibling", "inorder", "other"}

(* The signature of the rule: the one the methods check for, the one that  *)
(* has a structure of strings for the attributes, the one that             *)
(* introspection announces.                                                *)
Form == {"string", "structure", "announced"}

VARIABLES
  children,  \* the toolkit's tree
  request,   \* the call that is being answered, or Null
  reply,     \* how it was answered, "none" while the tree is walked
  matches,   \* the list: of what is found, then of what is in the answer
  stage,     \* the function that walks
  frames,    \* the activations of sort_order_canonical, the innermost last
  at,        \* the object of inorder, or of sort_order_rev_canonical
  next       \* from which child of the collection inorder goes on at last

walkVars == <<stage, frames, at, next>>
collectionVars == <<children, request, reply, matches, stage, frames, at, next>>

Idle == request = Null

NoWalk == stage' = "none" /\ frames' = <<>> /\ at' = Null /\ next' = 2

CollectionInit ==
  /\ children \in Trees
  /\ request = Null /\ reply = "none" /\ matches = <<>>
  /\ stage = "none" /\ frames = <<>> /\ at = Null /\ next = 2

-----------------------------------------------------------------------------
(* sort_order_canonical: the children of obj from the index-th on, each    *)
(* with what is below it.  The first of them is tested if flag says so.    *)

\* Are more than n wanted?  A count of 0 is no limit.
MoreThan(q, n) == q.count = 0 \/ n < q.count
More == MoreThan(request, Len(matches))

Found(o) == IF Match(o, request.rule) THEN Append(matches, o) ELSE matches

\* pobj: a walk of GetMatchesTo stops there, but only among its siblings.
StopAt == IF request.member = "GetMatchesTo" THEN request.current ELSE Null

\* traverse_p: inorder goes below the children, asked to or not.
Traverses == stage \in {"inorder", "again"} \/ request.traverse

Activation(obj, index, flag) == [obj |-> obj, index |-> index, flag |-> flag]

Walking == reply = "none" /\ frames # <<>>
Top == frames[Len(frames)]
Child == children[Top.obj][Top.index]
InLoop == Top.index \in DOMAIN children[Top.obj] /\ More

Return ==
  /\ Walking /\ (InLoop => Child = StopAt)
  /\ frames' = Front(frames)
  /\ UNCHANGED <<children, request, reply, matches, stage, at, next>>

GoOn ==
  /\ matches' = IF Top.flag THEN Found(Child) ELSE matches
  /\ LET rest == [frames EXCEPT ![Len(frames)] = Activation(Top.obj, Top.index + 1, TRUE)] IN
     frames' = IF Traverses THEN Append(rest, Activation(Child, 1, TRUE)) ELSE rest
  /\ UNCHANGED <<children, request, reply, stage, at, next>>

\* Mutant: the object to stop at is looked for after it has been added.
VisitLate == Walking /\ InLoop /\ GoOn

Visit == Walking /\ InLoop /\ Child # StopAt /\ GoOn

-----------------------------------------------------------------------------
(* inorder: below the object, then what is right of it, level by level up  *)
(* to the collection, whose children from the last index on are then       *)
(* walked again.  Past the root the loop does not end.                     *)

Climbing == reply = "none" /\ frames = <<>> /\ stage = "inorder" /\ More

\* Mutant: the walk goes on right of the same object for ever.
RightSubtreeStays ==
  /\ Climbing /\ at # request.collection /\ Parent(children, at) # Null
  /\ frames' = <<Activation(Parent(children, at), Index(children, at) + 1, TRUE)>>
  /\ next' = Index(children, at) + 1
  /\ UNCHANGED <<children, request, reply, matches, stage, at>>

RightSubtree ==
  /\ Climbing /\ at # request.collection /\ Parent(children, at) # Null
  /\ frames' = <<Activation(Parent(children, at), Index(children, at) + 1, TRUE)>>
  /\ at' = Parent(children, at) /\ next' = Index(children, at) + 1
  /\ UNCHANGED <<children, request, reply, matches, stage>>

Lost ==
  /\ Climbing /\ at # request.collection /\ Parent(children, at) = Null
  /\ reply' = "never" /\ NoWalk /\ matches' = <<>>
  /\ UNCHANGED <<children, request>>

Again ==
  /\ Climbing /\ at = request.collection
  /\ frames' = <<Activation(at, next, TRUE)>> /\ stage' = "again"
  /\ UNCHANGED <<children, request, reply, matches, at, next>>

-----------------------------------------------------------------------------
(* sort_order_rev_canonical: backwards until the collection is met, or     *)
(* past the root.  The first object is not tested.                         *)

Turned == reply = "none" /\ stage \in {"test", "step"} /\ at \in {Null, request.collection}

Test ==
  /\ reply = "none" /\ stage = "test" /\ ~Turned
  /\ matches' = IF More THEN Found(at) ELSE matches
  /\ stage' = "step"
  /\ UNCHANGED <<children, request, reply, frames, at, next>>

Step ==
  /\ reply = "none" /\ stage = "step" /\ ~Turned /\ More
  /\ LET up == Parent(children, at) IN
     IF up # Null /\ Index(children, at) > 1
       THEN at' = children[up][Index(children, at) - 1] /\ stage' = "drill"
       ELSE at' = up /\ stage' = "test"
  /\ UNCHANGED <<children, request, reply, matches, frames, next>>

Drill ==
  /\ reply = "none" /\ stage = "drill"
  /\ IF children[at] # <<>> THEN at' = Last(children[at]) /\ UNCHANGED stage
     ELSE stage' = "test" /\ UNCHANGED at
  /\ UNCHANGED <<children, request, reply, matches, frames, next>>

-----------------------------------------------------------------------------
(* The methods *)

Begin(how, first, obj) ==
  /\ reply' = "none" /\ stage' = how /\ frames' = first /\ at' = obj /\ next' = 2

(* query_exec: both orders walk forwards, any other finds nothing.  An     *)
(* object that is not there has no children.                               *)
QueryExec(q, obj, index, flag) ==
  Begin("query", IF q.sortby = "other" \/ obj = Null THEN <<>> ELSE <<Activation(obj, index, flag)>>,
        Null)

\* GetMatchesFrom: the first child that the walk meets is not itself tested.
GetMatchesFrom(q) ==
  LET up == Parent(children, q.current) IN
  IF q.tree = "children" THEN QueryExec(q, q.current, 1, FALSE)
  ELSE QueryExec(q, up, IF up = Null THEN 1 ELSE Index(children, q.current), FALSE)

GetMatchesInOrder(q) == Begin("inorder", <<Activation(q.current, 1, TRUE)>>, q.current)

GetMatchesInBackOrder(q) == Begin("step", <<>>, q.current)

GetMatchesTo(q) ==
  QueryExec(q, IF q.recurse THEN Parent(children, q.current) ELSE q.collection, 1, TRUE)

GetMatches(q) == QueryExec(q, q.collection, 1, TRUE)

AnswerWithout(reason) == reply' = reason /\ NoWalk

(* The methods past their checks.  read_mr takes the strings of the        *)
(* attributes, when they are in a structure, out of it as if they were one *)
(* string: the rule is then the one that it happens to read, or there is   *)
(* no string at all.                                                       *)
Dispatch(q) ==
  \/ q.member = "GetMatches" /\ GetMatches(q)
  \/ q.member = "GetMatchesFrom" /\ q.tree \in {"children", "sibling"} /\ GetMatchesFrom(q)
  \/ q.member = "GetMatchesFrom" /\ q.tree = "inorder" /\ GetMatchesInOrder(q)
  \/ q.member = "GetMatchesTo" /\ q.tree \in {"children", "sibling"} /\ GetMatchesTo(q)
  \/ q.member = "GetMatchesTo" /\ q.tree = "inorder" /\ GetMatchesInBackOrder(q)
  \/ q.member # "GetMatches" /\ q.tree = "other" /\ AnswerWithout("empty")

(* Arguments of another signature are refused, then a path that stands for *)
(* nothing.                                                                *)
Ask(q, form) ==
  /\ request' = q /\ matches' = <<>> /\ UNCHANGED children
  /\ IF form = "announced" THEN AnswerWithout("invalid arguments")
     ELSE IF q.current = Null /\ q.member # "GetMatches" THEN AnswerWithout("error")
     ELSE Dispatch(q) \/ (form = "structure" /\ AnswerWithout("crash"))

IsReverse == request.sortby = "reverse"

\* GetMatchesTo turns the list round unless that was asked for.
TurnsRound == IsReverse # (request.member = "GetMatchesTo" /\ request.tree # "inorder")

WalkOver ==
  /\ reply = "none" /\ frames = <<>>
  /\ \/ stage \in {"query", "again"}
     \/ stage = "inorder" /\ ~More
     \/ Turned
     \/ stage = "step" /\ ~More

\* return_and_free_list
ReturnList ==
  /\ WalkOver
  /\ reply' = "list" /\ matches' = (IF TurnsRound THEN Reverse(matches) ELSE matches)
  /\ NoWalk
  /\ UNCHANGED <<children, request>>

\* A call that is answered leaves nothing behind.
Sent ==
  /\ ~Idle /\ reply \notin {"none", "never", "crash"}
  /\ request' = Null /\ reply' = "none" /\ matches' = <<>>
  /\ UNCHANGED <<children, walkVars>>

\* GetMatches has no current object and no tree.
GetRequest ==
  [member : {"GetMatches"}, rule : Rules, collection : Object, current : {Null},
   sortby : SortOrder, tree : {"other"}, recurse : {FALSE}, count : Counts, traverse : BOOLEAN]
FromRequest ==
  [member : {"GetMatchesFrom"}, rule : Rules, collection : Object,
   current : Object \cup {Null}, sortby : SortOrder, tree : TreeTraversal,
   recurse : {FALSE}, count : Counts, traverse : BOOLEAN]
ToRequest ==
  [member : {"GetMatchesTo"}, rule : Rules, collection : Object,
   current : Object \cup {Null}, sortby : SortOrder, tree : TreeTraversal,
   recurse : BOOLEAN, count : Counts, traverse : BOOLEAN]

AskGetMatches == Idle /\ \E q \in GetRequest, form \in Form : Ask(q, form)
AskGetMatchesFrom == Idle /\ \E q \in FromRequest, form \in Form : Ask(q, form)
AskGetMatchesTo == Idle /\ \E q \in ToRequest, form \in Form : Ask(q, form)

Walk ==
  \/ Return \/ Visit \/ RightSubtree \/ Lost \/ Again
  \/ Test \/ Step \/ Drill \/ ReturnList

CollectionNext == AskGetMatches \/ AskGetMatchesFrom \/ AskGetMatchesTo \/ Walk \/ Sent

CollectionSpec == CollectionInit /\ [][CollectionNext]_collectionVars

-----------------------------------------------------------------------------
Frame == [obj : Object, index : Nat \ {0}, flag : BOOLEAN]
AnyRequest == GetRequest \cup FromRequest \cup ToRequest

CollectionTypeOK ==
  /\ children \in Trees /\ request \in AnyRequest \cup {Null}
  /\ reply \in {"none", "list", "empty", "never", "crash", "error", "invalid arguments"}
  /\ matches \in Seq(Object)
  /\ stage \in {"none", "query", "inorder", "again", "test", "step", "drill"}
  /\ frames \in Seq(Frame) /\ at \in Object \cup {Null} /\ next \in Nat \ {0}

(* What the methods list, said without a walk. *)

Answered(members, trees) ==
  reply = "list" /\ request.member \in members /\ request.tree \in trees

\* the answer, in the order in which it was found
Listed == IF TurnsRound THEN Reverse(matches) ELSE matches

(* ls has only objects of S that match, in document order or, going back,  *)
(* in the reverse of it, and no more than are wanted; it leaves one out    *)
(* only if as many are wanted as it has, and all of them come before that. *)
InOrder(t, a, b, back) == IF back THEN Precedes(t, b, a) ELSE Precedes(t, a, b)
Lists(t, q, ls, S, back) ==
  /\ ls = <<>> \/ MoreThan(q, Len(ls) - 1)
  /\ \A i \in DOMAIN ls : ls[i] \in S /\ Match(ls[i], q.rule)
  /\ \A i, j \in DOMAIN ls : i < j => InOrder(t, ls[i], ls[j], back)
  /\ \A o \in S \ ToSet(ls) : Match(o, q.rule) =>
       ~MoreThan(q, Len(ls)) /\ \A i \in DOMAIN ls : InOrder(t, ls[i], o, back)

\* how far a walk from p goes
Reach(t, q, p) ==
  IF p = Null THEN {} ELSE IF q.traverse THEN Below(t, p) ELSE ToSet(t[p])

Inside(t, q) == q.current \in Below(t, q.collection) \cup {q.collection}

(* What a forward walk is to reach: all of the collection; all below the   *)
(* current object but its first child, which the code skips; what follows  *)
(* it below its parent; what precedes it there; or, asked not to recurse,  *)
(* all of the collection, except the current object, if it is met, and     *)
(* what follows it below its own parent.                                   *)
Sought(t, q) ==
  LET o == q.current  up == Parent(t, o) IN
  CASE q.member = "GetMatches" -> Reach(t, q, q.collection)
    [] q.member = "GetMatchesFrom" /\ q.tree = "children" ->
         {x \in Reach(t, q, o) : x # t[o][1]}
    [] q.member = "GetMatchesFrom" /\ q.tree = "sibling" ->
         {x \in Reach(t, q, up) : Precedes(t, o, x)}
    [] q.member = "GetMatchesTo" /\ q.recurse ->
         {x \in Reach(t, q, up) : Precedes(t, x, o)}
    [] OTHER ->
         {x \in Reach(t, q, q.collection) :
            ~(/\ o \in Reach(t, q, q.collection)
              /\ x \in Below(t, up) /\ ~Precedes(t, x, o))}

\* what inorder is to reach first
Following(t, q) ==
  {x \in Below(t, q.collection) : Precedes(t, q.current, x)}

(* A walk forwards lists every match it is to reach once, in document      *)
(* order and no more than were asked for, whatever the shape of the tree.  *)
(* Both sort orders take the first matches; GetMatchesTo turns them round  *)
(* when the other one would not.                                           *)
ForwardListings ==
  Answered({"GetMatchesFrom", "GetMatchesTo"}, {"children", "sibling"})
    \/ Answered({"GetMatches"}, TreeTraversal)
  => IF request.sortby = "other" THEN matches = <<>>
     ELSE Lists(children, request, Listed, Sought(children, request), FALSE)

(* Backwards from an object in a collection, the matches nearest to it are *)
(* listed, its ancestors among them, and the collection is not left.       *)
NearestFirst ==
  Answered({"GetMatchesTo"}, {"inorder"}) /\ Inside(children, request) =>
    Lists(children, request, Listed,
          {x \in Below(children, request.collection) :
             Precedes(children, x, request.current)}, TRUE)

(* Forwards from an object in a collection, the matches that follow it are *)
(* listed first; nothing else is, if no more were asked for.               *)
InOrderStartsRight ==
  Answered({"GetMatchesFrom"}, {"inorder"}) /\ Inside(children, request) =>
    \E n \in 0 .. Len(Listed) :
      /\ n = Len(Listed) \/ MoreThan(request, n)
      /\ Lists(children, request, SubSeq(Listed, 1, n), Following(children, request), FALSE)

(* No object is listed twice, but for the second walk of inorder, which    *)
(* begins when the matches that follow are fewer than were asked for.      *)
NoneTwice ==
  reply = "list" =>
    \/ IsInjective(matches)
    \/ /\ Answered({"GetMatchesFrom"}, {"inorder"}) /\ Inside(children, request)
       /\ \E n \in 0 .. Len(Listed) :
            /\ MoreThan(request, n)
            /\ {x \in Following(children, request) : Match(x, request.rule)}
                 \subseteq ToSet(SubSeq(Listed, 1, n))

(* inorder loses its way only from an object outside the collection: it    *)
(* then looks for the collection above the root for ever.                  *)
LostOutside ==
  reply = "never" =>
    request.tree = "inorder" /\ request.current \in Object /\ ~Inside(children, request)

(* Every walk of a collection lists what it should, in the order it should,*)
(* once and no further than it was asked to, and does not get lost, but    *)
(* for the cases that its parts name.                                      *)
WalksListInOrder ==
  ForwardListings /\ NearestFirst /\ InOrderStartsRight /\ NoneTwice /\ LostOutside

(* A rule that asks for nothing the code misreads lists what meets it, in  *)
(* every combination of its criteria.                                      *)
RulesMeanWhatTheySay ==
  Answered({"GetMatches"}, TreeTraversal) /\ request.sortby # "other"
    /\ request.count = 0 /\ WellRead(request.rule)
  => ToSet(matches) = {o \in Reach(children, request, request.collection) : Meets(o, request.rule)}

(* A walk that has begun ends, with a list or above the root.              *)
WalkEnds == ~Idle ~> reply # "none"
=============================================================================
