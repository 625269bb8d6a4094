---------------------------- MODULE BridgeProofs ----------------------------
(***************************************************************************)
(* Proofs about the cache of accessibles on its own, and about the         *)
(* register, the cache and the leases at work together, for every set of   *)
(* objects, every tree and every bound.                                    *)
(*                                                                         *)
(* On its own the cache covers the tree only while a toolkit does not      *)
(* change its tree when asked about it, hence the hypothesis ~Reentrant;   *)
(* MCCacheReentrant.cfg shows why.                                         *)
(*                                                                         *)
(* BridgeInv is inductive for any tree the toolkit may have built before   *)
(* the bridge was loaded: it says who may keep an object alive and that    *)
(* their references are all it has.  CacheInv needs a bridge that was      *)
(* loaded before the tree was built (LoadedFirst): what is cached while    *)
(* the cache has no listener yet is neither announced nor given a path,    *)
(* and without a path its end goes unnoticed; MCAtkBridgeLoaded.cfg shows  *)
(* that.                                                                   *)
(***************************************************************************)
EXTENDS AtkBridge, RegisterProofs, FiniteSetTheorems, FunctionTheorems

-----------------------------------------------------------------------------
(* Sequences and the sets of their elements *)

LEMMA ElementsOfAppend ==
  ASSUME NEW S, NEW s \in Seq(S), NEW e \in S
  PROVE  ToSet(Append(s, e)) = ToSet(s) \cup {e}
<1>1. DOMAIN Append(s, e) = DOMAIN s \cup {Len(s) + 1}
  OBVIOUS
<1>2. /\ \A i \in DOMAIN s : Append(s, e)[i] = s[i]
      /\ Append(s, e)[Len(s) + 1] = e
  OBVIOUS
<1>3. QED
  BY <1>1, <1>2, Zenon DEF ToSet

LEMMA ElementsOfConcat ==
  ASSUME NEW S, NEW s \in Seq(S), NEW r \in Seq(S)
  PROVE  ToSet(s \o r) = ToSet(s) \cup ToSet(r)
<1>1. Len(s \o r) = Len(s) + Len(r)
  OBVIOUS
<1>2. ToSet(s \o r) \subseteq ToSet(s) \cup ToSet(r)
  BY <1>1 DEF ToSet
<1>3. ToSet(s) \subseteq ToSet(s \o r)
  BY <1>1 DEF ToSet
<1>4. ASSUME NEW i \in 1 .. Len(r)
      PROVE  r[i] \in ToSet(s \o r)
  <2>1. Len(s) + i \in 1 .. Len(s \o r) /\ (s \o r)[Len(s) + i] = r[i]
    BY <1>1
  <2>2. QED
    BY <2>1 DEF ToSet
<1>5. ToSet(r) \subseteq ToSet(s \o r)
  BY <1>4 DEF ToSet
<1>6. QED
  BY <1>2, <1>3, <1>5

LEMMA ElementsOfTail ==
  ASSUME NEW S, NEW s \in Seq(S), s # <<>>
  PROVE  /\ Head(s) \in S /\ Tail(s) \in Seq(S)
         /\ ToSet(s) = ToSet(Tail(s)) \cup {Head(s)}
<1>1. Head(s) \in S /\ Tail(s) \in Seq(S) /\ Head(s) = s[1] /\ Len(s) \in Nat \ {0}
  OBVIOUS
<1>2. ASSUME NEW i \in 2 .. Len(s)
      PROVE  s[i] \in ToSet(Tail(s))
  <2>1. i - 1 \in DOMAIN Tail(s) /\ Tail(s)[i - 1] = s[i]
    OBVIOUS
  <2>2. QED
    BY <2>1, Zenon DEF ToSet
<1>3. ToSet(s) \subseteq ToSet(Tail(s)) \cup {Head(s)}
  BY <1>1, <1>2 DEF ToSet
<1>4. ToSet(Tail(s)) \cup {Head(s)} \subseteq ToSet(s)
  BY <1>1 DEF ToSet
<1>5. QED
  BY <1>1, <1>3, <1>4

LEMMA ElementsOfRemoveAt ==
  ASSUME NEW S, NEW s \in Seq(S), NEW i \in DOMAIN s
  PROVE  RemoveAt(s, i) \in Seq(S) /\ ToSet(RemoveAt(s, i)) \subseteq ToSet(s)
<1> DEFINE front == SubSeq(s, 1, i - 1)
           back  == SubSeq(s, i + 1, Len(s))
<1>1. front \in Seq(S) /\ ToSet(front) \subseteq ToSet(s)
  BY DEF ToSet
<1>2. back \in Seq(S) /\ ToSet(back) \subseteq ToSet(s)
  BY DEF ToSet
<1>3. RemoveAt(s, i) = front \o back
  BY DEF RemoveAt
<1> HIDE DEF front, back
<1>4. ToSet(front \o back) = ToSet(front) \cup ToSet(back)
  BY <1>1, <1>2, ElementsOfConcat
<1>5. QED
  BY <1>1, <1>2, <1>3, <1>4

-----------------------------------------------------------------------------
(* The cache is well typed, with a toolkit that re-enters it or not.       *)

LEMMA CacheTypeInitially == CacheInit => CacheTypeOK
<1> SUFFICES ASSUME CacheInit PROVE CacheTypeOK
  OBVIOUS
<1>1. add_pending_idle \in BOOLEAN /\ listening \in BOOLEAN
  BY Zenon DEF CacheInit
<1>2. children \in [Object -> Seq(Object)]
  BY CacheAssumption, Zenon DEF CacheInit
<1>3. add_traversal \in Seq(Object) /\ to_add \in Seq(Object)
  BY CacheAssumption DEF CacheInit
<1>4. /\ objects \in SUBSET Object /\ unwatched \in SUBSET Object
      /\ cpc \in {"main", "drain", "add", "announce"}
  BY DEF CacheInit
<1>5. QED
  BY <1>1, <1>2, <1>3, <1>4 DEF CacheTypeOK

LEMMA ChildAddedType ==
  ASSUME CacheTypeOK, NEW p \in Object, NEW c \in Object, ChildAdded(p, c)
  PROVE  add_traversal' \in Seq(Object) /\ add_pending_idle' \in BOOLEAN
<1>1. Copies(p, c) \in Seq(Object)
  BY DEF Copies
<1>2. add_traversal' \in Seq(Object)
  <2>1. add_traversal \o Copies(p, c) \in Seq(Object)
    BY <1>1 DEF CacheTypeOK
  <2>2. QED
    BY <2>1, Zenon DEF ChildAdded, CacheTypeOK
<1>3. add_pending_idle' \in BOOLEAN
  BY Zenon DEF ChildAdded, CacheTypeOK
<1>4. QED
  BY <1>2, <1>3

LEMMA WalkedChildrenType ==
  ASSUME CacheTypeOK, NEW o \in Object
  PROVE  WalkedChildren(o) \in Seq(Object)
BY DEF WalkedChildren, CacheTypeOK

LEMMA CacheTypeStep ==
  ASSUME CacheTypeOK, [CacheNext]_cacheVars
  PROVE  CacheTypeOK'
<1>1. ASSUME NEW p \in Object, NEW c \in Object, Attach(p, c)
      PROVE  CacheTypeOK'
  BY <1>1, ChildAddedType DEF Attach, CacheTypeOK
<1>2. ASSUME NEW p \in Object, NEW c \in Object, Mention(p, c)
      PROVE  CacheTypeOK'
  BY <1>2, ChildAddedType DEF Mention, CacheTypeOK
<1>3. ASSUME NEW p \in Object, NEW c \in Object, Detach(p, c)
      PROVE  CacheTypeOK'
  <2>1. PICK i \in DOMAIN children[p] :
          children' = [children EXCEPT ![p] = RemoveAt(@, i)]
    BY <1>3 DEF Detach
  <2>2. RemoveAt(children[p], i) \in Seq(Object)
    BY ElementsOfRemoveAt DEF CacheTypeOK
  <2>3. QED
    BY <1>3, <2>1, <2>2 DEF Detach, CacheTypeOK
<1>4. ASSUME NEW o \in Object, Gone(o)
      PROVE  CacheTypeOK'
  BY <1>4 DEF Gone, CacheTypeOK
<1>5. CASE IdleFires
  BY <1>5 DEF IdleFires, CacheTypeOK
<1>6. CASE DrainHead
  <2>1. /\ Head(add_traversal) \in Object /\ Tail(add_traversal) \in Seq(Object)
        /\ WalkedChildren(Head(add_traversal)) \in Seq(Object)
    BY <1>6, ElementsOfTail, WalkedChildrenType DEF DrainHead, CacheTypeOK
  <2>2. /\ Append(to_add, Head(add_traversal)) \in Seq(Object)
        /\ Tail(add_traversal) \o WalkedChildren(Head(add_traversal)) \in Seq(Object)
    BY <2>1 DEF CacheTypeOK
  <2>3. add_traversal' \in Seq(Object) /\ to_add' \in Seq(Object)
    BY <1>6, <2>1, <2>2, Zenon DEF DrainHead, CacheTypeOK
  <2>4. QED
    BY <1>6, <2>3 DEF DrainHead, CacheTypeOK
<1>7. CASE DrainDone
  BY <1>7 DEF DrainDone, CacheTypeOK
<1>8. CASE AddHead \/ HeadReleased
  <2>1. Head(to_add) \in Object /\ Tail(to_add) \in Seq(Object)
    BY <1>8, ElementsOfTail DEF AddHead, HeadReleased, CacheTypeOK
  <2>2. QED
    BY <1>8, <2>1 DEF AddHead, HeadReleased, CacheTypeOK
<1>9. CASE AddDone
  BY <1>9 DEF AddDone, CacheTypeOK
<1>10. CASE UNCHANGED cacheVars
  BY <1>10 DEF cacheVars, CacheTypeOK
<1>11. QED
  BY <1>1, <1>2, <1>3, <1>4, <1>5, <1>6, <1>7, <1>8, <1>9, <1>10
  DEF CacheNext, AddPendingItems

(* Type correctness: what the queues and the tree hold are objects.        *)
THEOREM CacheTypeCorrect == CacheSpec => []CacheTypeOK
<1>1. CacheInit => CacheTypeOK
  BY CacheTypeInitially
<1>2. CacheTypeOK /\ [CacheNext]_cacheVars => CacheTypeOK'
  BY CacheTypeStep
<1>3. QED
  BY <1>1, <1>2, PTL DEF CacheSpec

-----------------------------------------------------------------------------
(* With a toolkit that leaves its tree alone while it is asked *)

LEMMA ChildAddedQueues ==
  ASSUME CacheTypeOK, NEW p \in Object, NEW c \in Object, ChildAdded(p, c)
  PROVE  /\ ToSet(add_traversal) \subseteq ToSet(add_traversal')
         /\ listening /\ p \in objects => c \in ToSet(add_traversal')
<1>1. Copies(p, c) \in Seq(Object)
  BY DEF Copies
<1>2. 1 \in DOMAIN Copies(p, c) /\ Copies(p, c)[1] = c
  BY DEF Copies
<1>3. c \in ToSet(Copies(p, c))
  BY <1>2, Zenon DEF ToSet
<1>4. ToSet(add_traversal \o Copies(p, c)) =
        ToSet(add_traversal) \cup ToSet(Copies(p, c))
  BY <1>1, ElementsOfConcat DEF CacheTypeOK
<1>5. CASE listening /\ p \in objects
  BY <1>3, <1>4, <1>5 DEF ChildAdded
<1>6. CASE ~(listening /\ p \in objects)
  BY <1>6 DEF ChildAdded
<1>7. QED
  BY <1>5, <1>6

\* what the program counter says of the queues
PhaseInv ==
  /\ cpc = "main" => to_add = <<>> /\ listening
  /\ cpc \in {"add", "announce"} => add_traversal = <<>>
  /\ cpc = "announce" => to_add # <<>> /\ Head(to_add) \in objects

(* Every child owned by an object that is cached, or collected to be       *)
(* cached, is cached or in one of the two queues.                          *)
Covered ==
  \A p \in (objects \cup ToSet(to_add)) \ ManagesDescendants :
    \A c \in ToSet(children[p]) \ Transient :
      c \in objects \cup ToSet(to_add) \cup ToSet(add_traversal)

CacheIndInv == CacheTypeOK /\ PhaseInv /\ PendingHasIdle /\ Covered

LEMMA CacheInitially == CacheInit => CacheIndInv
<1> SUFFICES ASSUME CacheInit PROVE CacheIndInv
  OBVIOUS
<1>1. CacheTypeOK
  BY CacheTypeInitially
<1>2. ToSet(to_add) = {} /\ objects = {}
  BY DEF CacheInit, ToSet
<1>3. QED
  BY <1>1, <1>2 DEF CacheInit, CacheIndInv, PhaseInv, PendingHasIdle, Covered

LEMMA PhaseStep ==
  ASSUME ~Reentrant, CacheIndInv, [CacheNext]_cacheVars
  PROVE  PhaseInv' /\ PendingHasIdle'
<1> USE DEF CacheIndInv, CacheTypeOK, PhaseInv, PendingHasIdle, AppMayRun
<1>1. ASSUME NEW p \in Object, NEW c \in Object, Attach(p, c) \/ Mention(p, c)
      PROVE  PhaseInv' /\ PendingHasIdle'
  BY <1>1 DEF Attach, Mention, SignalPossible, ChildAdded
<1>2. ASSUME NEW p \in Object, NEW c \in Object, Detach(p, c)
      PROVE  PhaseInv' /\ PendingHasIdle'
  BY <1>2 DEF Detach
<1>3. ASSUME NEW o \in Object, Gone(o)
      PROVE  PhaseInv' /\ PendingHasIdle'
  <2>1. to_add # <<>> => Head(to_add) \in ToSet(to_add)
    BY DEF ToSet
  <2>2. QED
    BY <1>3, <2>1 DEF Gone, Queued
<1>4. CASE IdleFires
  BY <1>4 DEF IdleFires
<1>5. CASE DrainHead
  BY <1>5 DEF DrainHead
<1>6. CASE DrainDone
  BY <1>6 DEF DrainDone
<1>7. CASE AddHead \/ HeadReleased
  BY <1>7 DEF AddHead, HeadReleased
<1>8. CASE AddDone
  BY <1>8 DEF AddDone
<1>9. CASE UNCHANGED cacheVars
  BY <1>9 DEF cacheVars
<1>10. QED
  BY <1>1, <1>2, <1>3, <1>4, <1>5, <1>6, <1>7, <1>8, <1>9
  DEF CacheNext, AddPendingItems

LEMMA CoveredStep ==
  ASSUME ~Reentrant, CacheIndInv, [CacheNext]_cacheVars
  PROVE  Covered'
<1> USE DEF CacheIndInv, CacheTypeOK
<1>1. ASSUME NEW p \in Object, NEW c \in Object, Attach(p, c)
      PROVE  Covered'
  <2>1. listening /\ ToSet(to_add) = {}
    BY <1>1 DEF Attach, SignalPossible, AppMayRun, PhaseInv, ToSet
  <2>2. \A q \in Object \ {p} : children'[q] = children[q]
    BY <1>1 DEF Attach
  <2>3. ToSet(children'[p]) = ToSet(children[p]) \cup {c}
    BY <1>1, ElementsOfAppend DEF Attach
  <2>4. /\ ToSet(add_traversal) \subseteq ToSet(add_traversal')
        /\ p \in objects => c \in ToSet(add_traversal')
    BY <1>1, <2>1, ChildAddedQueues DEF Attach
  <2>5. QED
    BY <1>1, <2>1, <2>2, <2>3, <2>4 DEF Attach, Covered
<1>2. ASSUME NEW p \in Object, NEW c \in Object, Mention(p, c)
      PROVE  Covered'
  <2>1. ToSet(add_traversal) \subseteq ToSet(add_traversal')
    BY <1>2, ChildAddedQueues DEF Mention
  <2>2. QED
    BY <1>2, <2>1 DEF Mention, Covered
<1>3. ASSUME NEW p \in Object, NEW c \in Object, Detach(p, c)
      PROVE  Covered'
  <2>1. PICK i \in DOMAIN children[p] :
          children' = [children EXCEPT ![p] = RemoveAt(@, i)]
    BY <1>3 DEF Detach
  <2>2. \A q \in Object : ToSet(children'[q]) \subseteq ToSet(children[q])
    BY <2>1, ElementsOfRemoveAt
  <2>3. objects \cup ToSet(to_add) \subseteq Object
    BY DEF ToSet
  <2>4. QED
    BY <1>3, <2>2, <2>3 DEF Detach, Covered
<1>4. ASSUME NEW o \in Object, Gone(o)
      PROVE  Covered'
  <2>1. \A q \in Object : o \notin ToSet(children[q])
    BY <1>4 DEF Gone, Attached
  <2>2. o \notin ToSet(to_add)
    BY <1>4 DEF Gone, Queued
  <2>3. objects \cup ToSet(to_add) \subseteq Object
    BY DEF ToSet
  <2>4. children'[o] = <<>> /\ \A q \in Object \ {o} : children'[q] = children[q]
    BY <1>4 DEF Gone
  <2>5. ToSet(<<>>) = {}
    BY DEF ToSet
  <2>6. /\ objects' \subseteq objects /\ objects \ {o} \subseteq objects'
        /\ to_add' = to_add /\ add_traversal' = add_traversal
    BY <1>4 DEF Gone
  <2>7. QED
    BY <2>1, <2>2, <2>3, <2>4, <2>5, <2>6 DEF Covered
<1>5. CASE DrainHead
  <2> DEFINE current == Head(add_traversal)
  <2>1. /\ current \in Object /\ Tail(add_traversal) \in Seq(Object)
        /\ ToSet(add_traversal) = ToSet(Tail(add_traversal)) \cup {current}
    BY <1>5, ElementsOfTail DEF DrainHead
  <2>2. CASE current \in Transient
    BY <1>5, <2>1, <2>2 DEF DrainHead, Covered
  <2>3. CASE current \notin Transient
    <3>1. ToSet(to_add') = ToSet(to_add) \cup {current}
      <4>1. to_add' = Append(to_add, current)
        BY <1>5, <2>3 DEF DrainHead
      <4>2. QED
        BY <2>1, <4>1, ElementsOfAppend
    <3>2. ToSet(add_traversal') =
            ToSet(Tail(add_traversal)) \cup ToSet(WalkedChildren(current))
      BY <1>5, <2>1, <2>3, WalkedChildrenType, ElementsOfConcat, ZenonT(40) DEF DrainHead
    <3>3. current \notin objects \cup ManagesDescendants =>
            WalkedChildren(current) = children[current]
      BY DEF WalkedChildren
    <3>4. QED
      BY <1>5, <2>1, <3>1, <3>2, <3>3 DEF DrainHead, Covered
  <2>4. QED
    BY <2>2, <2>3
<1>6. CASE AddHead \/ HeadReleased
  <2>1. ToSet(to_add) = ToSet(Tail(to_add)) \cup {Head(to_add)}
    BY <1>6, ElementsOfTail DEF AddHead, HeadReleased
  <2>2. CASE AddHead
    BY <2>1, <2>2 DEF AddHead, Covered
  <2>3. CASE HeadReleased
    BY <2>1, <2>3 DEF HeadReleased, Covered, PhaseInv
  <2>4. QED
    BY <1>6, <2>2, <2>3
<1>7. CASE IdleFires \/ DrainDone \/ AddDone \/ UNCHANGED cacheVars
  BY <1>7 DEF IdleFires, DrainDone, AddDone, cacheVars, Covered
<1>8. QED
  BY <1>1, <1>2, <1>3, <1>4, <1>5, <1>6, <1>7 DEF CacheNext, AddPendingItems

(* The inductive invariant of the cache.                                   *)
THEOREM CacheInvariant == ~Reentrant /\ CacheSpec => []CacheIndInv
<1>1. CASE ~Reentrant
  <2>1. CacheIndInv /\ [CacheNext]_cacheVars => CacheIndInv'
    BY <1>1, CacheTypeStep, PhaseStep, CoveredStep DEF CacheIndInv
  <2>2. QED
    BY CacheInitially, <2>1, PTL DEF CacheSpec
<1>2. QED
  BY <1>1

(* The wakeup is never lost: a queued object has an idle callback coming.  *)
THEOREM CachePendingHasIdle == ~Reentrant /\ CacheSpec => []PendingHasIdle
BY CacheInvariant, PTL DEF CacheIndInv

(* Whenever nothing is pending the cache is closed downwards: it holds     *)
(* every child that a cached object owns.                                  *)
THEOREM CacheCoversTree == ~Reentrant /\ CacheSpec => []SubtreeCached
<1>1. CacheIndInv => SubtreeCached
  <2> SUFFICES ASSUME CacheIndInv, cpc = "main", add_traversal = <<>>,
                      NEW p \in Object, NEW c \in Object, Listed(p, c)
               PROVE  c \in objects
    BY DEF SubtreeCached
  <2>1. ToSet(to_add) = {} /\ ToSet(add_traversal) = {}
    BY DEF CacheIndInv, PhaseInv, ToSet
  <2>2. QED
    BY <2>1 DEF Listed, CacheIndInv, Covered
<1>2. QED
  BY CacheInvariant, <1>1, PTL

-----------------------------------------------------------------------------
(* The whole bridge *)

\* the steps of a handler
UnrefOf(o) == [do |-> "unref", obj |-> o]
Drops(e) == e.do = "unref"
Leases(e) == e.do \in {"lease", "maybe lease"}
Paths(e) == e.do = "path"

Entitled(o) ==
  Owners(o) + leases[o] + leaked[o] + Occurrences(o, add_traversal)
    + Occurrences(o, to_add) + Occurrences(UnrefOf(o), todo)

-----------------------------------------------------------------------------
(* The inductive invariants *)

(* The toolkit's tree is a forest, and its objects exist.                  *)
TreeInv ==
  /\ \A p, q \in Object : \A i \in DOMAIN children[p], j \in DOMAIN children[q] :
       children[p][i] = children[q][j] => p = q /\ i = j
  /\ \A p \in Object : children[p] # <<>> => p \in alive
  /\ ~Attached(Root)
  /\ \A o \in Object : Attached(o) => o \in alive

(* Whatever gives an object a reference gives it to one that exists.       *)
HoldersInv ==
  /\ Root \in held /\ held \subseteq alive
  /\ \A o \in Object : Queued(o) => o \in alive
  /\ \A o \in Object : leases[o] > 0 \/ leaked[o] > 0 => o \in alive

(* A handler drops a reference in its last step only, so nothing is        *)
(* destroyed before it is through; what it leases has had its path made.   *)
HasPathBy(s, i) ==
  \/ s[i].obj = Root
  \/ dbus_id[s[i].obj] # 0
  \/ \E j \in 1 .. (i - 1) : Paths(s[j]) /\ s[j].obj = s[i].obj

ScriptInv ==
  /\ todo # <<>> => Doomed = {}
  /\ \A i \in DOMAIN todo :
       /\ todo[i].obj \in alive
       /\ Drops(todo[i]) => i = Len(todo)
       /\ Leases(todo[i]) => HasPathBy(todo, i)

LeasesHavePaths == \A o \in Object \ {Root} : leases[o] > 0 => dbus_id[o] # 0

(* What the phases of add_pending_items say of the queues.                 *)
PhasesInv ==
  /\ cpc = "main" => to_add = <<>> /\ listening
  /\ cpc \in {"add", "announce"} => add_traversal = <<>>

BridgeInv ==
  /\ RegIndInv
  /\ BridgeTypeOK
  /\ TreeInv
  /\ HoldersInv
  /\ ScriptInv
  /\ LeasesHavePaths
  /\ PhasesInv
  /\ RefsAccounted

\* The bridge was loaded before the toolkit built its tree.
LoadedFirst == \A tree \in StartTrees : \A o \in Object : tree[o] = <<>>

(* What is cached until the cache listens is unwatched, the root with it,  *)
(* and the root is not queued again.                                       *)
BeforeListening ==
  /\ ~listening => objects \subseteq unwatched
  /\ listening => ~Queued(Root)
  /\ Root \in objects => Root \in unwatched

Known == objects \ unwatched

(* What was cached since then exists and has a path, or is about to be     *)
(* given one.                                                              *)
CachedHavePaths ==
  \A o \in Known :
    /\ o \in alive
    /\ dbus_id[o] # 0 \/ [do |-> "reference", obj |-> o] \in ToSet(todo)

(* What was announced is cached, and what was cached since was announced   *)
(* or is about to be.                                                      *)
Announced(o) == [do |-> "announced", obj |-> o] \in ToSet(todo)

ViewInv ==
  /\ view \subseteq {<<o, gen[o]>> : o \in Known}
  /\ \A o \in Known : <<o, gen[o]>> \in view \/ Announced(o)
  /\ \A o \in Object : Announced(o) => o \in Known

CacheInv == BeforeListening /\ CachedHavePaths /\ ViewInv

(* A bridge loaded first has cached nothing but the root before it         *)
(* listened.                                                               *)
OnlyRootBefore ==
  /\ unwatched \subseteq {Root}
  /\ ~listening => /\ \A p \in Object : children[p] = <<>>
                   /\ \A o \in Object : Queued(o) => o = Root

-----------------------------------------------------------------------------
(* Counting the occurrences of a value in a sequence *)

LEMMA OccurrencesType ==
  ASSUME NEW S, NEW s \in Seq(S), NEW o
  PROVE  /\ IsFiniteSet({i \in DOMAIN s : s[i] = o})
         /\ Occurrences(o, s) \in Nat
         /\ Occurrences(o, s) = 0 <=> o \notin ToSet(s)
<1> DEFINE at == {i \in DOMAIN s : s[i] = o}
<1>1. DOMAIN s = 1 .. Len(s) /\ Len(s) \in Nat
  OBVIOUS
<1>2. IsFiniteSet(DOMAIN s)
  BY <1>1, FS_Interval
<1>3. IsFiniteSet(at)
  BY <1>2, FS_Subset
<1>4. Cardinality(at) \in Nat /\ (Cardinality(at) = 0 <=> at = {})
  BY <1>3, FS_CardinalityType, FS_EmptySet
<1>5. at = {} <=> o \notin ToSet(s)
  BY DEF ToSet
<1>6. QED
  BY <1>3, <1>4, <1>5 DEF Occurrences

LEMMA OccurrencesInNone ==
  ASSUME NEW o
  PROVE  Occurrences(o, <<>>) = 0
<1>1. {i \in DOMAIN <<>> : <<>>[i] = o} = {}
  OBVIOUS
<1>2. QED
  BY <1>1, FS_EmptySet DEF Occurrences

LEMMA OccurrencesInAppend ==
  ASSUME NEW S, NEW s \in Seq(S), NEW e \in S, NEW o
  PROVE  Occurrences(o, Append(s, e)) = Occurrences(o, s) + (IF e = o THEN 1 ELSE 0)
<1> DEFINE at == {i \in DOMAIN s : s[i] = o}
           after == {i \in DOMAIN Append(s, e) : Append(s, e)[i] = o}
<1>1. IsFiniteSet(at) /\ Cardinality(at) \in Nat
  BY OccurrencesType, FS_CardinalityType
<1>2. /\ DOMAIN Append(s, e) = DOMAIN s \cup {Len(s) + 1}
      /\ \A i \in DOMAIN s : Append(s, e)[i] = s[i]
      /\ Append(s, e)[Len(s) + 1] = e
      /\ Len(s) + 1 \notin DOMAIN s
  OBVIOUS
<1>3. CASE e = o
  <2>1. after = at \cup {Len(s) + 1} /\ Len(s) + 1 \notin at
    BY <1>2, <1>3
  <2>2. Cardinality(after) = Cardinality(at) + 1
    BY <1>1, <2>1, FS_AddElement
  <2>3. QED
    BY <1>3, <2>2 DEF Occurrences
<1>4. CASE e # o
  <2>1. after = at
    BY <1>2, <1>4
  <2>2. Occurrences(o, Append(s, e)) = Occurrences(o, s)
    BY <2>1 DEF Occurrences
  <2>3. Occurrences(o, s) \in Nat
    BY OccurrencesType
  <2>4. QED
    BY <1>4, <2>2, <2>3
<1>5. QED
  BY <1>3, <1>4

LEMMA OccurrencesInConcat ==
  ASSUME NEW S, NEW s \in Seq(S), NEW r \in Seq(S), NEW o
  PROVE  Occurrences(o, s \o r) = Occurrences(o, s) + Occurrences(o, r)
<1> DEFINE first == {i \in DOMAIN s : s[i] = o}
           second == {i \in DOMAIN r : r[i] = o}
           moved == {i \in DOMAIN (s \o r) : i > Len(s) /\ (s \o r)[i] = o}
           shift == [i \in second |-> Len(s) + i]
<1>1. /\ IsFiniteSet(first) /\ Cardinality(first) \in Nat
      /\ IsFiniteSet(second) /\ Cardinality(second) \in Nat
  BY OccurrencesType, FS_CardinalityType
<1>2. /\ Len(s \o r) = Len(s) + Len(r)
      /\ \A i \in DOMAIN s : (s \o r)[i] = s[i]
      /\ \A i \in DOMAIN r : (s \o r)[Len(s) + i] = r[i]
      /\ DOMAIN (s \o r) = 1 .. (Len(s) + Len(r))
      /\ DOMAIN s = 1 .. Len(s) /\ DOMAIN r = 1 .. Len(r)
      /\ Len(s) \in Nat /\ Len(r) \in Nat
  OBVIOUS
<1>3. shift \in Bijection(second, moved)
  <2>1. shift \in [second -> moved]
    BY <1>2
  <2>2. \A i, j \in second : shift[i] = shift[j] => i = j
    BY <1>2
  <2>3. ASSUME NEW k \in moved
        PROVE  \E i \in second : shift[i] = k
    <3>1. k - Len(s) \in second /\ shift[k - Len(s)] = k
      BY <1>2
    <3>2. QED
      BY <3>1
  <2>4. QED
    BY <2>1, <2>2, <2>3, Fun_IsBij
<1>4. IsFiniteSet(moved) /\ Cardinality(moved) = Cardinality(second)
  BY <1>1, <1>3, FS_Bijection DEF ExistsBijection
<1>5. {i \in DOMAIN (s \o r) : (s \o r)[i] = o} = first \cup moved
  BY <1>2
<1>6. first \cap moved = {}
  BY <1>2
<1>7. Cardinality(first \cup moved) = Cardinality(first) + Cardinality(second)
  <2> HIDE DEF first, second, moved
  <2>1. Cardinality(first \cap moved) = 0
    BY <1>6, FS_EmptySet
  <2>2. Cardinality(first \cup moved) =
          Cardinality(first) + Cardinality(moved) - Cardinality(first \cap moved)
    BY <1>1, <1>4, FS_Union
  <2>3. QED
    BY <1>1, <1>4, <2>1, <2>2
<1>8. Occurrences(o, s) = Cardinality(first) /\ Occurrences(o, r) = Cardinality(second)
  BY DEF Occurrences
<1>9. Occurrences(o, s \o r) = Cardinality(first \cup moved)
  BY <1>5 DEF Occurrences
<1>10. QED
  BY ONLY <1>7, <1>8, <1>9, Zenon

LEMMA OccurrencesInOne ==
  ASSUME NEW e, NEW o
  PROVE  Occurrences(o, <<e>>) = IF e = o THEN 1 ELSE 0
<1>1. <<>> \in Seq({e}) /\ Append(<<>>, e) = <<e>>
  OBVIOUS
<1>2. Occurrences(o, Append(<<>>, e)) = Occurrences(o, <<>>) + (IF e = o THEN 1 ELSE 0)
  BY <1>1, OccurrencesInAppend
<1>3. QED
  BY <1>1, <1>2, OccurrencesInNone

LEMMA OccurrencesInTail ==
  ASSUME NEW S, NEW s \in Seq(S), s # <<>>, NEW o
  PROVE  Occurrences(o, s) = Occurrences(o, Tail(s)) + (IF Head(s) = o THEN 1 ELSE 0)
<1>1. Tail(s) \in Seq(S) /\ Head(s) \in S /\ <<Head(s)>> \in Seq(S)
  OBVIOUS
<1>2. s = <<Head(s)>> \o Tail(s)
  OBVIOUS
<1>3. Occurrences(o, <<Head(s)>> \o Tail(s)) =
        Occurrences(o, <<Head(s)>>) + Occurrences(o, Tail(s))
  BY <1>1, OccurrencesInConcat
<1>4. Occurrences(o, <<Head(s)>>) = IF Head(s) = o THEN 1 ELSE 0
  BY OccurrencesInOne
<1>5. Occurrences(o, Tail(s)) \in Nat
  BY <1>1, OccurrencesType
<1>6. Occurrences(o, s) = Occurrences(o, <<Head(s)>>) + Occurrences(o, Tail(s))
  BY <1>2, <1>3, Zenon
<1>7. QED
  BY <1>4, <1>5, <1>6

\* In a sequence without repetitions a value occurs once or not at all.
LEMMA OccurrencesOnce ==
  ASSUME NEW S, NEW s \in Seq(S), NEW o,
         \A i, j \in DOMAIN s : s[i] = s[j] => i = j
  PROVE  Occurrences(o, s) = IF o \in ToSet(s) THEN 1 ELSE 0
<1>1. CASE o \notin ToSet(s)
  BY <1>1, OccurrencesType
<1>2. CASE o \in ToSet(s)
  <2>1. PICK i \in DOMAIN s : s[i] = o
    BY <1>2 DEF ToSet
  <2>2. {j \in DOMAIN s : s[j] = o} = {i}
    BY <2>1
  <2>3. Cardinality({i}) = 1
    BY FS_Singleton
  <2>4. QED
    BY <1>2, <2>2, <2>3 DEF Occurrences
<1>3. QED
  BY <1>1, <1>2

-----------------------------------------------------------------------------
(* The scripts of the handlers *)

\* SetToSeq lists the elements of a finite set.
LEMMA SetToSeqType ==
  ASSUME NEW S, IsFiniteSet(S)
  PROVE  SetToSeq(S) \in Seq(S)
<1>1. Cardinality(S) \in Nat /\ ExistsBijection(1 .. Cardinality(S), S)
  BY FS_CardinalityType
<1>2. PICK f : f \in Bijection(1 .. Cardinality(S), S)
  BY <1>1 DEF ExistsBijection
<1>3. f \in [1 .. Cardinality(S) -> S] /\ IsInjective(f)
  BY <1>2 DEF Bijection, Injection, IsInjective
<1>4. SetToSeq(S) \in [1 .. Cardinality(S) -> S]
  BY <1>3 DEF SetToSeq
<1>5. QED
  BY <1>1, <1>4
-----------------------------------------------------------------------------
(* The beginning *)

LEMMA OwnersType ==
  ASSUME NEW o
  PROVE  Owners(o) \in Nat /\ (Owners(o) > 0 <=> InUse(o))
BY DEF Owners, InUse

LEMMA StartIsForest == CacheInit => IsForest(children)
BY BridgeAssumption DEF CacheInit

LEMMA BridgeTypeInitially == BridgeInit => BridgeTypeOK
<1> SUFFICES ASSUME BridgeInit PROVE BridgeTypeOK
  OBVIOUS
<1>1. RegTypeOK
  BY RegInitIndInv DEF BridgeInit, RegIndInv
<1>2. CacheTypeOK
  BY CacheTypeInitially DEF BridgeInit
<1>3. refs \in [Object -> Nat]
  <2>1. ASSUME NEW o \in Object
        PROVE  Owners(o) + Occurrences(o, add_traversal) \in Nat
    <3>1. Occurrences(o, add_traversal) \in Nat
      BY <1>2, OccurrencesType DEF CacheTypeOK
    <3>2. QED
      BY <3>1, OwnersType
  <2>2. QED
    BY <2>1 DEF BridgeInit
<1>4. todo = <<>> /\ todo \in Seq(Step)
  <2>1. <<>> \in Seq(Step)
    OBVIOUS
  <2>2. QED
    BY <2>1 DEF BridgeInit
<1>5. QED
  BY <1>1, <1>2, <1>3, <1>4, CacheAssumption DEF BridgeInit, BridgeTypeOK

LEMMA BridgeInitially == BridgeInit => BridgeInv
<1> SUFFICES ASSUME BridgeInit PROVE BridgeInv
  OBVIOUS
<1>1. RegIndInv
  BY RegInitIndInv DEF BridgeInit
<1>2. BridgeTypeOK
  BY BridgeTypeInitially
<1>3. add_traversal = <<Root>> /\ to_add = <<>> /\ todo = <<>>
  BY DEF BridgeInit, CacheInit
<1>4. \A o \in Object : Queued(o) => o = Root
  BY <1>3 DEF Queued, ToSet
<1>5. DOMAIN todo = {}
  BY <1>3
<1>6. TreeInv
  <2>1. IsForest(children)
    BY StartIsForest DEF BridgeInit
  <2>2. \A o \in Object : Attached(o) => o \in alive
    BY DEF BridgeInit
  <2>3. \A p \in Object : children[p] # <<>> => p = Root \/ Attached(p)
    BY <2>1 DEF IsForest, Attached
  <2>4. ~Attached(Root)
    BY <2>1 DEF IsForest, Attached
  <2>5. \A p, q \in Object : \A i \in DOMAIN children[p], j \in DOMAIN children[q] :
          children[p][i] = children[q][j] => p = q /\ i = j
    BY <2>1 DEF IsForest
  <2>6. Root \in alive
    BY DEF BridgeInit
  <2>7. QED
    BY <2>2, <2>3, <2>4, <2>5, <2>6 DEF TreeInv
<1>7. HoldersInv
  BY <1>4, CacheAssumption DEF BridgeInit, HoldersInv
<1>8. ScriptInv
  BY <1>3, <1>5 DEF ScriptInv
<1>9. LeasesHavePaths
  BY DEF BridgeInit, LeasesHavePaths
<1>10. PhasesInv
  BY DEF BridgeInit, CacheInit, PhasesInv
<1>11. RefsAccounted
  <2> SUFFICES ASSUME NEW o \in alive
               PROVE  refs[o] = Owners(o) + leases[o] + leaked[o]
                        + Occurrences(o, add_traversal) + Occurrences(o, to_add)
                        + Occurrences([do |-> "unref", obj |-> o], todo)
    BY DEF RefsAccounted
  <2>1. o \in Object
    BY <1>2 DEF BridgeTypeOK, RegTypeOK
  <2>2. /\ Occurrences(o, to_add) = 0
        /\ Occurrences([do |-> "unref", obj |-> o], todo) = 0
    BY <1>3, OccurrencesInNone
  <2>3. Occurrences(o, add_traversal) \in Nat
    BY <1>2, OccurrencesType DEF BridgeTypeOK, CacheTypeOK
  <2>4. refs[o] = Owners(o) + Occurrences(o, add_traversal)
    BY <2>1 DEF BridgeInit
  <2>5. leases[o] = 0 /\ leaked[o] = 0
    BY <2>1 DEF BridgeInit
  <2>6. QED
    BY <2>2, <2>3, <2>4, <2>5, OwnersType
<1>12. QED
  BY <1>1, <1>2, <1>6, <1>7, <1>8, <1>9, <1>10, <1>11 DEF BridgeInv

-----------------------------------------------------------------------------
(* The scripts the handlers start with: what they are about, that they     *)
(* drop a reference last if at all, and lease what they made a path for.   *)

Shaped(s, about) ==
  /\ s \in Seq(Step)
  /\ \A i \in DOMAIN s :
       /\ s[i].obj \in about
       /\ Drops(s[i]) => i = Len(s)
       /\ Leases(s[i]) =>
            \E j \in 1 .. (i - 1) : Paths(s[j]) /\ s[j].obj = s[i].obj

DropsNone(s) == \A i \in DOMAIN s : ~Drops(s[i])
DropsLast(s, o) == \E r \in Seq(Step) : DropsNone(r) /\ s = r \o <<UnrefOf(o)>>

\* what a script may go on with
LEMMA ShapedMore ==
  ASSUME NEW about \in SUBSET Object, NEW s \in Seq(Step), NEW e \in Step,
         Shaped(s, about), DropsNone(s), e.obj \in about,
         Leases(e) => \E j \in DOMAIN s : Paths(s[j]) /\ s[j].obj = e.obj
  PROVE  Shaped(s \o <<e>>, about)
<1>1. PICK whole : whole = s \o <<e>>
  OBVIOUS
<1>2. /\ whole \in Seq(Step)
      /\ Len(whole) = Len(s) + 1 /\ Len(s) \in Nat
      /\ DOMAIN s = 1 .. Len(s) /\ DOMAIN whole = 1 .. (Len(s) + 1)
      /\ \A i \in 1 .. Len(s) : whole[i] = s[i]
      /\ whole[Len(s) + 1] = e
  BY <1>1
<1>3. ASSUME NEW i \in DOMAIN whole
      PROVE  /\ whole[i].obj \in about
             /\ Drops(whole[i]) => i = Len(whole)
             /\ Leases(whole[i]) =>
                  \E j \in 1 .. (i - 1) : Paths(whole[j]) /\ whole[j].obj = whole[i].obj
  <2>1. CASE i = Len(s) + 1
    <3>1. whole[i] = e
      BY <1>2, <2>1
    <3>2. ASSUME Leases(e)
          PROVE  \E j \in 1 .. (i - 1) : Paths(whole[j]) /\ whole[j].obj = e.obj
      <4>1. PICK j \in DOMAIN s : Paths(s[j]) /\ s[j].obj = e.obj
        BY <3>2
      <4>2. j \in 1 .. (i - 1) /\ whole[j] = s[j]
        BY <1>2, <2>1
      <4>3. QED
        BY <4>1, <4>2
    <3>3. QED
      BY <1>2, <2>1, <3>1, <3>2
  <2>2. CASE i \in DOMAIN s
    <3>1. whole[i] = s[i] /\ ~Drops(whole[i]) /\ s[i].obj \in about
      BY <1>2, <2>2 DEF Shaped, DropsNone
    <3>2. ASSUME Leases(s[i])
          PROVE  \E j \in 1 .. (i - 1) : Paths(whole[j]) /\ whole[j].obj = s[i].obj
      <4>1. PICK j \in 1 .. (i - 1) : Paths(s[j]) /\ s[j].obj = s[i].obj
        BY <2>2, <3>2 DEF Shaped
      <4>2. whole[j] = s[j]
        BY <1>2, <2>2
      <4>3. QED
        BY <4>1, <4>2
    <3>3. QED
      BY <3>1, <3>2
  <2>3. QED
    BY <1>2, <2>1, <2>2
<1>4. QED
  BY <1>1, <1>2, <1>3 DEF Shaped

LEMMA DropsNoneMore ==
  ASSUME NEW s \in Seq(Step), NEW e \in Step, DropsNone(s), ~Drops(e)
  PROVE  DropsNone(s \o <<e>>)
BY DEF DropsNone

LEMMA StepsConcat ==
  ASSUME NEW r \in Seq(Step), NEW s \in Seq(Step)
  PROVE  r \o s \in Seq(Step)
OBVIOUS

LEMMA StepOne ==
  ASSUME NEW e \in Step
  PROVE  <<e>> \in Seq(Step) /\ Len(<<e>>) = 1 /\ DOMAIN <<e>> = {1} /\ <<e>>[1] = e
OBVIOUS

LEMMA StepAfter ==
  ASSUME NEW s \in Seq(Step), NEW e \in Step
  PROVE  ToSet(s \o <<e>>) = ToSet(s) \cup {e}
<1>1. <<e>> \in Seq(Step)
  BY StepOne
<1>2. ToSet(<<e>>) = {e}
  BY StepOne DEF ToSet
<1>3. ToSet(s \o <<e>>) = ToSet(s) \cup ToSet(<<e>>)
  BY <1>1, ElementsOfConcat, ZenonT(40)
<1>4. QED
  BY <1>2, <1>3

LEMMA ShapedOne ==
  ASSUME NEW about \in SUBSET Object, NEW e \in Step, e.obj \in about,
         ~Drops(e), ~Leases(e)
  PROVE  Shaped(<<e>>, about) /\ DropsNone(<<e>>)
BY StepOne DEF Shaped, DropsNone

\* what the names of the steps mean
LEMMA StepNames ==
  ASSUME NEW o \in Object,
         NEW what \in {"path", "reference", "lease", "maybe lease", "announced", "unref"}
  PROVE  \E e \in Step :
           /\ do(what, o) = <<e>> /\ e = [do |-> what, obj |-> o] /\ e.obj = o
           /\ Drops(e) <=> what = "unref"
           /\ Paths(e) <=> what = "path"
           /\ Leases(e) <=> what \in {"lease", "maybe lease"}
<1>1. [do |-> what, obj |-> o] \in Step
  BY DEF Step
<1>2. PICK e \in Step : e = [do |-> what, obj |-> o]
  BY <1>1
<1>3. e.do = what /\ e.obj = o
  BY <1>2
<1>4. do(what, o) = <<e>>
  BY <1>2 DEF do
<1>5. /\ Drops(e) <=> what = "unref"
      /\ Paths(e) <=> what = "path"
      /\ Leases(e) <=> what \in {"lease", "maybe lease"}
  BY <1>3 DEF Drops, Paths, Leases
<1>6. QED
  BY <1>2, <1>3, <1>4, <1>5

\* A script that drops nothing has nothing to account for.
LEMMA CountNone ==
  ASSUME NEW s \in Seq(Step), DropsNone(s), NEW o
  PROVE  Occurrences(UnrefOf(o), s) = 0
<1>1. Drops(UnrefOf(o))
  BY DEF Drops, UnrefOf
<1>2. UnrefOf(o) \notin ToSet(s)
  BY <1>1 DEF DropsNone, ToSet
<1>3. QED
  BY <1>2, OccurrencesType

\* One that drops a reference in the end accounts for that one.
LEMMA CountLast ==
  ASSUME NEW s, NEW c \in Object, DropsLast(s, c), NEW o
  PROVE  Occurrences(UnrefOf(o), s) = IF o = c THEN 1 ELSE 0
<1>1. PICK r \in Seq(Step) : DropsNone(r) /\ s = r \o <<UnrefOf(c)>>
  BY DEF DropsLast
<1>2. Occurrences(UnrefOf(o), r) = 0
  BY <1>1, CountNone
<1>3. UnrefOf(c) = UnrefOf(o) <=> o = c
  BY DEF UnrefOf
<1>4. PICK e \in Step : e = UnrefOf(c)
  BY DEF UnrefOf, Step
<1>5. Occurrences(UnrefOf(o), <<e>>) = IF o = c THEN 1 ELSE 0
  BY <1>3, <1>4, OccurrencesInOne
<1>6. Occurrences(UnrefOf(o), r \o <<e>>) =
        Occurrences(UnrefOf(o), r) + Occurrences(UnrefOf(o), <<e>>)
  BY StepOne, OccurrencesInConcat
<1>7. QED
  BY <1>1, <1>2, <1>4, <1>5, <1>6

-----------------------------------------------------------------------------
\* emit_event for children-changed, and the reference dropped after it
LEMMA ShapedChildrenChanged ==
  ASSUME NEW about \in SUBSET Object, NEW p \in about, NEW c \in about
  PROVE  LET s == ChildrenChanged(p, c) IN
         /\ Shaped(s, about) /\ DropsNone(s)
         /\ Shaped(s \o do("unref", c), about) /\ DropsLast(s \o do("unref", c), c)
<1>1. PICK e1 \in Step : do("path", p) = <<e1>> /\ e1.obj = p
                         /\ Paths(e1) /\ ~Drops(e1) /\ ~Leases(e1)
  BY StepNames
<1>2. PICK e2 \in Step : do("reference", c) = <<e2>> /\ e2.obj = c
                         /\ ~Drops(e2) /\ ~Leases(e2)
  BY StepNames
<1>3. PICK e3 \in Step : do("maybe lease", p) = <<e3>> /\ e3.obj = p
                         /\ Leases(e3) /\ ~Drops(e3)
  BY StepNames
<1>4. PICK e4 \in Step : do("unref", c) = <<e4>> /\ e4.obj = c /\ e4 = UnrefOf(c)
                         /\ ~Leases(e4)
  BY StepNames DEF UnrefOf
<1>5. <<e1>> \in Seq(Step) /\ Shaped(<<e1>>, about) /\ DropsNone(<<e1>>)
  BY <1>1, StepOne, ShapedOne
<1>6. PICK s2 \in Seq(Step) : s2 = <<e1>> \o <<e2>>
  BY StepsConcat, StepOne
<1>7. Shaped(s2, about) /\ DropsNone(s2) /\ 1 \in DOMAIN s2 /\ s2[1] = e1
  <2>1. 1 \in DOMAIN s2 /\ s2[1] = e1
    BY <1>6
  <2>2. QED
    BY <1>2, <1>5, <1>6, <2>1, ShapedMore, DropsNoneMore
<1>8. PICK s3 \in Seq(Step) : s3 = s2 \o <<e3>>
  BY StepsConcat, StepOne
<1>9. Shaped(s3, about) /\ DropsNone(s3)
  <2>1. \E j \in DOMAIN s2 : Paths(s2[j]) /\ s2[j].obj = e3.obj
    BY <1>1, <1>3, <1>7
  <2>2. QED
    BY <1>3, <1>7, <1>8, <2>1, ShapedMore, DropsNoneMore
<1>10. Shaped(s3 \o <<e4>>, about) /\ DropsLast(s3 \o <<e4>>, c)
  BY <1>4, <1>9, ShapedMore DEF DropsLast
<1>11. ChildrenChanged(p, c) = s3
  BY <1>1, <1>2, <1>3, <1>6, <1>8 DEF ChildrenChanged
<1>12. QED
  BY <1>4, <1>9, <1>10, <1>11

\* what a script does before it drops a reference
LEMMA ShapedThenUnref ==
  ASSUME NEW about \in SUBSET Object, NEW c \in about, NEW s \in Seq(Step),
         Shaped(s, about), DropsNone(s)
  PROVE  /\ s \o do("unref", c) \in Seq(Step)
         /\ Shaped(s \o do("unref", c), about)
         /\ DropsLast(s \o do("unref", c), c)
<1>1. PICK e \in Step : do("unref", c) = <<e>> /\ e.obj = c /\ e = UnrefOf(c)
                        /\ ~Leases(e)
  BY StepNames DEF UnrefOf
<1>2. Shaped(s \o <<e>>, about) /\ DropsLast(s \o <<e>>, c)
  BY <1>1, ShapedMore DEF DropsLast
<1>3. QED
  BY <1>1, <1>2, StepOne, StepsConcat

\* an event of o, or of o about a child it does not name
LEMMA ShapedPathLease ==
  ASSUME NEW about \in SUBSET Object, NEW o \in about,
         NEW what \in {"lease", "maybe lease"}
  PROVE  LET s == do("path", o) \o do(what, o) IN
         s \in Seq(Step) /\ Shaped(s, about) /\ DropsNone(s)
<1>1. PICK e1 \in Step : do("path", o) = <<e1>> /\ e1.obj = o
                         /\ Paths(e1) /\ ~Drops(e1) /\ ~Leases(e1)
  BY StepNames
<1>2. PICK e2 \in Step : do(what, o) = <<e2>> /\ e2.obj = o /\ ~Drops(e2)
  BY StepNames
<1>3. <<e1>> \in Seq(Step) /\ Shaped(<<e1>>, about) /\ DropsNone(<<e1>>)
      /\ DOMAIN <<e1>> = {1} /\ <<e1>>[1] = e1
  BY <1>1, StepOne, ShapedOne
<1>4. PICK s \in Seq(Step) : s = <<e1>> \o <<e2>>
  BY StepsConcat, StepOne
<1>5. \E j \in DOMAIN <<e1>> : Paths(<<e1>>[j]) /\ <<e1>>[j].obj = e2.obj
  BY <1>1, <1>2, <1>3
<1>6. Shaped(s, about) /\ DropsNone(s)
  BY <1>2, <1>3, <1>4, <1>5, ShapedMore, DropsNoneMore
<1>7. QED
  BY <1>1, <1>2, <1>4, <1>6

\* a reference in the answer to a call
LEMMA ShapedReference ==
  ASSUME NEW about \in SUBSET Object, NEW c \in about
  PROVE  LET s == do("reference", c) IN
         s \in Seq(Step) /\ Shaped(s, about) /\ DropsNone(s)
<1>1. PICK e \in Step : do("reference", c) = <<e>> /\ e.obj = c
                        /\ ~Drops(e) /\ ~Leases(e)
  BY StepNames
<1>2. QED
  BY <1>1, StepOne, ShapedOne

\* append_cache_item mentions objects that exist and drops nothing.
LEMMA ShapedCacheItem ==
  ASSUME CacheTypeOK, alive \in SUBSET Object, TreeInv, NEW o \in alive
  PROVE  LET s == CacheItem(o) IN
         /\ s \in Seq(Step) /\ Shaped(s, alive) /\ DropsNone(s)
         /\ [do |-> "reference", obj |-> o] \in ToSet(s)
         /\ \A e \in ToSet(s) : e.do = "reference"
<1> DEFINE Parents == {p \in Object : o \in ToSet(children[p])}
           listed  == IF o \in ManagesDescendants THEN <<>> ELSE children[o]
           related == <<o>> \o SetToSeq(Parents) \o listed
<1>1. SetToSeq(Parents) \in Seq(alive)
  <2>1. \A p, q \in Parents : p = q
    <3> SUFFICES ASSUME NEW p \in Parents, NEW q \in Parents PROVE p = q
      OBVIOUS
    <3>1. /\ \E i \in DOMAIN children[p] : children[p][i] = o
          /\ \E i \in DOMAIN children[q] : children[q][i] = o
      BY DEF ToSet
    <3>2. QED
      BY <3>1 DEF TreeInv
  <2>2. IsFiniteSet(Parents)
    <3>1. CASE Parents = {}
      BY <3>1, FS_EmptySet
    <3>2. CASE Parents # {}
      <4>1. PICK p : p \in Parents
        BY <3>2
      <4>2. Parents = {p}
        BY <2>1, <4>1
      <4>3. QED
        BY <4>2, FS_Singleton
    <3>3. QED
      BY <3>1, <3>2
  <2>3. SetToSeq(Parents) \in Seq(Parents)
    BY <2>2, SetToSeqType
  <2>4. Parents \subseteq alive
    <3> SUFFICES ASSUME NEW p \in Parents PROVE p \in alive
      OBVIOUS
    <3>1. children[p] # <<>>
      BY DEF ToSet
    <3>2. QED
      BY <3>1 DEF TreeInv
  <2> HIDE DEF Parents
  <2>5. QED
    BY <2>3, <2>4
<1>2. listed \in Seq(alive)
  <2>1. <<>> \in Seq(alive)
    OBVIOUS
  <2>2. children[o] \in Seq(Object)
    BY DEF CacheTypeOK
  <2>3. \A i \in DOMAIN children[o] : children[o][i] \in alive
    <3> SUFFICES ASSUME NEW i \in DOMAIN children[o] PROVE children[o][i] \in alive
      OBVIOUS
    <3>1. children[o][i] \in ToSet(children[o]) /\ children[o][i] \in Object
      BY <2>2 DEF ToSet
    <3>2. QED
      BY <3>1 DEF TreeInv, Attached
  <2>4. children[o] \in Seq(alive)
    BY <2>2, <2>3
  <2>5. QED
    BY <2>1, <2>4
<1> HIDE DEF Parents, listed
<1>3. related \in Seq(alive) /\ 1 \in DOMAIN related /\ related[1] = o
  BY <1>1, <1>2
<1>4. PICK r \in Seq(alive) : r = related /\ 1 \in DOMAIN r /\ r[1] = o
  BY <1>3
<1>5. CacheItem(o) = [i \in DOMAIN r |-> [do |-> "reference", obj |-> r[i]]]
  BY <1>4 DEF CacheItem, Parents, listed
<1>6. PICK s : s = CacheItem(o)
  OBVIOUS
<1>7. /\ DOMAIN s = DOMAIN r
      /\ \A i \in DOMAIN s : s[i] = [do |-> "reference", obj |-> r[i]]
  BY <1>5, <1>6
<1>8. \A i \in DOMAIN s :
        s[i] \in Step /\ s[i].do = "reference" /\ ~Drops(s[i]) /\ ~Leases(s[i])
        /\ s[i].obj = r[i]
  <2> SUFFICES ASSUME NEW i \in DOMAIN s
               PROVE  s[i] \in Step /\ s[i].do = "reference" /\ ~Drops(s[i])
                      /\ ~Leases(s[i]) /\ s[i].obj = r[i]
    OBVIOUS
  <2>1. s[i] = [do |-> "reference", obj |-> r[i]] /\ r[i] \in Object
    BY <1>7
  <2>2. s[i] \in Step /\ s[i].do = "reference" /\ s[i].obj = r[i]
    BY <2>1 DEF Step
  <2>3. QED
    BY <2>2 DEF Drops, Leases
<1>9. s \in Seq(Step)
  <2>1. r \in Seq(alive) /\ DOMAIN r = 1 .. Len(r) /\ Len(r) \in Nat
    OBVIOUS
  <2>2. s = [i \in 1 .. Len(r) |-> s[i]]
    BY <1>5, <1>6, <2>1
  <2>3. \A i \in 1 .. Len(r) : s[i] \in Step
    BY <1>7, <1>8, <2>1
  <2>4. QED
    BY ONLY <2>1, <2>2, <2>3
<1>10. Shaped(s, alive) /\ DropsNone(s)
  <2>1. \A i \in DOMAIN s : r[i] \in alive
    BY <1>7
  <2>2. QED
    BY <1>8, <1>9, <2>1 DEF Shaped, DropsNone
<1>11. [do |-> "reference", obj |-> o] \in ToSet(s)
  <2>1. 1 \in DOMAIN s /\ s[1] = [do |-> "reference", obj |-> o]
    BY <1>4, <1>7
  <2>2. QED
    BY <2>1, Zenon DEF ToSet
<1>12. \A e \in ToSet(s) : e.do = "reference"
  BY <1>8, Zenon DEF ToSet
<1>13. QED
  BY <1>6, <1>9, <1>10, <1>11, <1>12, Zenon

-----------------------------------------------------------------------------
(* What every step leaves as it is *)

\* A step of the bridge is one of the register, or does not concern it.
LEMMA BridgeStepReg ==
  ASSUME BridgeTypeOK, [BridgeNext]_bridgeVars
  PROVE  [RegNext]_regVars
<1>1. CASE Continue
  <2>1. Head(todo) \in Step
    BY <1>1, ElementsOfTail DEF Continue, BridgeTypeOK
  <2>2. Head(todo).obj \in Object
    BY <2>1 DEF Step
  <2>3. QED
    BY <1>1, <2>2 DEF Continue, DoStep, RegNext
<1>2. ASSUME NEW o \in Object, Dies(o)
      PROVE  [RegNext]_regVars
  BY <1>2 DEF Dies, RegNext
<1>3. ASSUME NEW o \in Object, New(o) \/ Drop(o) \/ Emit(o) \/ LeaseEnds(o)
      PROVE  [RegNext]_regVars
  BY <1>3 DEF New, Drop, Emit, LeaseEnds, RegNext
<1>4. ASSUME NEW p \in Object, NEW c \in Object, NEW named \in BOOLEAN,
             Adopt(p, c, named) \/ Abandon(p, c, named)
      PROVE  [RegNext]_regVars
  BY <1>4 DEF Adopt, Abandon
<1>5. ASSUME NEW p \in Object, NEW c \in Object,
             Signal(p, c) \/ GetChild(p, c) \/ MakeChild(p, c)
      PROVE  [RegNext]_regVars
  BY <1>5 DEF Signal, GetChild, MakeChild, RegNext
<1>6. CASE Walk \/ Insert \/ Release \/ Turn
  BY <1>6 DEF Walk, Insert, Release, Turn
<1>7. CASE UNCHANGED bridgeVars
  BY <1>7 DEF bridgeVars
<1>8. QED
  BY <1>1, <1>2, <1>3, <1>4, <1>5, <1>6, <1>7
  DEF BridgeNext, Toolkit, Client, Bridge

LEMMA RegisterKept ==
  ASSUME BridgeInv, [BridgeNext]_bridgeVars
  PROVE  RegIndInv' /\ RegTypeOK'
<1>1. RegIndInv'
  BY BridgeStepReg, RegStepIndInv DEF BridgeInv
<1>2. QED
  BY <1>1 DEF RegIndInv

\* the parts of the sum in RefsAccounted
LEMMA PartsType ==
  ASSUME BridgeTypeOK, NEW x \in Object
  PROVE  /\ refs[x] \in Nat /\ Owners(x) \in Nat
         /\ leases[x] \in Nat /\ leaked[x] \in Nat
         /\ Occurrences(x, add_traversal) \in Nat
         /\ Occurrences(x, to_add) \in Nat
         /\ Occurrences(UnrefOf(x), todo) \in Nat
<1>1. /\ Occurrences(x, add_traversal) \in Nat
      /\ Occurrences(x, to_add) \in Nat
      /\ Occurrences(UnrefOf(x), todo) \in Nat
  BY OccurrencesType DEF BridgeTypeOK, CacheTypeOK
<1>2. QED
  BY <1>1, OwnersType DEF BridgeTypeOK

LEMMA Accounted ==
  ASSUME BridgeInv, NEW x \in alive
  PROVE  refs[x] = Entitled(x) /\ x \in Object
BY DEF BridgeInv, BridgeTypeOK, RegTypeOK, RefsAccounted, Entitled, UnrefOf

LEMMA AccountedNext ==
  ASSUME \A x \in alive' : refs'[x] = Entitled(x)'
  PROVE  RefsAccounted'
BY DEF RefsAccounted, Entitled, UnrefOf

LEMMA TreeKept ==
  ASSUME TreeInv, children' = children, alive \subseteq alive'
  PROVE  TreeInv' /\ \A x \in Object : Attached(x)' <=> Attached(x)
BY DEF TreeInv, Attached

LEMMA ScriptOver ==
  ASSUME todo' = <<>>
  PROVE  ScriptInv'
<1>1. DOMAIN todo' = {}
  BY ONLY todo' = <<>>
<1>2. QED
  BY <1>1 DEF ScriptInv

\* a handler starts
LEMMA ScriptStarts ==
  ASSUME Shaped(todo', alive'), \A x \in alive' : refs'[x] # 0
  PROVE  ScriptInv'
<1>1. Doomed' = {}
  BY DEF Doomed
<1>2. QED
  BY <1>1 DEF ScriptInv, Shaped, HasPathBy

LEMMA NoneDoomed ==
  ASSUME Doomed = {}, NEW x \in alive
  PROVE  refs[x] # 0
BY DEF Doomed

-----------------------------------------------------------------------------
(* Each step keeps the invariant *)

LEMMA DropKeeps ==
  ASSUME BridgeInv, NEW o \in Object, Drop(o)
  PROVE  BridgeInv'
<1>1. /\ o \in held /\ o # Root /\ todo = <<>>
      /\ held' = held \ {o} /\ refs' = [refs EXCEPT ![o] = refs[o] - 1]
      /\ UNCHANGED <<regVars, cacheVars, leases, leaked, todo, view>>
  BY DEF Drop, MayAct, Loop, Quiet, Plus, BridgeInv, BridgeTypeOK
<1>2. /\ UNCHANGED <<alive, dbus_id, children, objects, add_traversal, to_add, cpc, listening>>
      /\ todo' = <<>>
  BY <1>1 DEF regVars, cacheVars
<1>3. BridgeTypeOK /\ TreeInv /\ HoldersInv
  BY DEF BridgeInv
<1>4. RegIndInv' /\ RegTypeOK'
  BY RegisterKept DEF BridgeNext, Toolkit
<1>5. CacheTypeOK'
  BY <1>1, <1>3, CacheTypeStep DEF BridgeTypeOK
<1>6. refs[o] \in Nat \ {0}
  <2>1. o \in alive /\ refs[o] = Entitled(o)
    BY <1>1, <1>3, Accounted DEF HoldersInv
  <2>2. Owners(o) \in Nat /\ Owners(o) > 0
    BY <1>1, OwnersType DEF InUse
  <2>3. QED
    BY <1>3, <2>1, <2>2, PartsType DEF Entitled
<1>7. BridgeTypeOK'
  BY <1>1, <1>3, <1>4, <1>5, <1>6 DEF BridgeTypeOK
<1>8. TreeInv' /\ \A x \in Object : Attached(x)' <=> Attached(x)
  BY <1>2, <1>3, TreeKept
<1>9. HoldersInv'
  BY <1>1, <1>2, <1>3 DEF HoldersInv, Queued
<1>10. ScriptInv'
  BY <1>2, ScriptOver
<1>11. LeasesHavePaths' /\ PhasesInv'
  BY <1>1, <1>2 DEF BridgeInv, LeasesHavePaths, PhasesInv
<1>12. ASSUME NEW x \in alive'
       PROVE  refs'[x] = Entitled(x)'
  <2>1. refs[x] = Entitled(x) /\ x \in Object
    BY <1>2, Accounted
  <2>2. Owners(x)' = IF x = o THEN Owners(x) - 1 ELSE Owners(x)
    BY <1>1, <1>8, <2>1 DEF Owners
  <2>3. refs'[x] = IF x = o THEN refs[x] - 1 ELSE refs[x]
    BY <1>1, <1>3, <2>1 DEF BridgeTypeOK
  <2>4. Entitled(x)' = Owners(x)' + leases[x] + leaked[x]
          + Occurrences(x, add_traversal) + Occurrences(x, to_add)
          + Occurrences(UnrefOf(x), todo)
    BY <1>1, <1>2 DEF Entitled
  <2>5. QED
    BY <1>3, <2>1, <2>2, <2>3, <2>4, PartsType DEF Entitled
<1>13. QED
  BY <1>4, <1>7, <1>8, <1>9, <1>10, <1>11, <1>12, AccountedNext DEF BridgeInv

LEMMA LeaseEndsKeeps ==
  ASSUME BridgeInv, NEW o \in Object, LeaseEnds(o)
  PROVE  BridgeInv'
<1>1. /\ leases[o] > 0 /\ todo = <<>>
      /\ leases' = [leases EXCEPT ![o] = leases[o] - 1]
      /\ refs' = [refs EXCEPT ![o] = refs[o] - 1]
      /\ UNCHANGED <<regVars, cacheVars, held, leaked, todo, view>>
  BY DEF LeaseEnds, Loop, Quiet, Plus, BridgeInv, BridgeTypeOK
<1>2. /\ UNCHANGED <<alive, dbus_id, children, objects, add_traversal, to_add, cpc, listening>>
      /\ todo' = <<>>
  BY <1>1 DEF regVars, cacheVars
<1>3. BridgeTypeOK /\ TreeInv /\ HoldersInv
  BY DEF BridgeInv
<1>4. RegIndInv' /\ RegTypeOK'
  BY RegisterKept DEF BridgeNext, Bridge
<1>5. CacheTypeOK'
  BY <1>1, <1>3, CacheTypeStep DEF BridgeTypeOK
<1>6. refs[o] \in Nat \ {0} /\ leases[o] \in Nat \ {0}
  <2>1. o \in alive /\ refs[o] = Entitled(o)
    BY <1>1, <1>3, Accounted DEF HoldersInv
  <2>2. QED
    BY <1>1, <1>3, <2>1, PartsType, SMTT(30) DEF Entitled
<1>7. BridgeTypeOK'
  BY <1>1, <1>3, <1>4, <1>5, <1>6 DEF BridgeTypeOK
<1>8. TreeInv' /\ \A x \in Object : Attached(x)' <=> Attached(x)
  BY <1>2, <1>3, TreeKept
<1>9. \A x \in Object : leases'[x] = IF x = o THEN leases[x] - 1 ELSE leases[x]
  BY <1>1, <1>3 DEF BridgeTypeOK
<1>10. \A x \in Object : leases'[x] > 0 => leases[x] > 0
  BY <1>1, <1>9
<1>11. HoldersInv'
  BY <1>1, <1>2, <1>3, <1>10 DEF HoldersInv, Queued
<1>12. ScriptInv'
  BY <1>2, ScriptOver
<1>13. LeasesHavePaths' /\ PhasesInv'
  BY <1>2, <1>10 DEF BridgeInv, LeasesHavePaths, PhasesInv
<1>14. ASSUME NEW x \in alive'
       PROVE  refs'[x] = Entitled(x)'
  <2>1. refs[x] = Entitled(x) /\ x \in Object
    BY <1>2, Accounted
  <2>2. Owners(x)' = Owners(x)
    BY <1>1, <1>8, <2>1 DEF Owners
  <2>3. refs'[x] = IF x = o THEN refs[x] - 1 ELSE refs[x]
    BY <1>1, <1>3, <2>1 DEF BridgeTypeOK
  <2>4. Entitled(x)' = Owners(x)' + leases'[x] + leaked[x]
          + Occurrences(x, add_traversal) + Occurrences(x, to_add)
          + Occurrences(UnrefOf(x), todo)
    BY <1>1, <1>2 DEF Entitled
  <2>5. QED
    BY <1>3, <1>9, <2>1, <2>2, <2>3, <2>4, PartsType DEF Entitled
<1>15. QED
  BY <1>4, <1>7, <1>8, <1>11, <1>12, <1>13, <1>14, AccountedNext DEF BridgeInv

\* A handler that only tells something starts.
LEMMA TellsKeeps ==
  ASSUME BridgeInv, [BridgeNext]_bridgeVars, Quiet,
         NEW s \in Seq(Step), Shaped(s, alive), DropsNone(s), todo' = s,
         UNCHANGED <<regVars, cacheVars, refs, held, leases, leaked, view>>
  PROVE  BridgeInv'
<1>1. UNCHANGED <<alive, dbus_id, children, objects, add_traversal, to_add, cpc, listening>>
  BY DEF regVars, cacheVars
<1>2. BridgeTypeOK /\ TreeInv /\ HoldersInv
  BY DEF BridgeInv
<1>3. RegIndInv' /\ RegTypeOK'
  BY RegisterKept
<1>4. CacheTypeOK'
  BY <1>2, CacheTypeStep DEF BridgeTypeOK
<1>5. BridgeTypeOK'
  BY <1>2, <1>3, <1>4 DEF BridgeTypeOK
<1>6. TreeInv' /\ \A x \in Object : Attached(x)' <=> Attached(x)
  BY <1>1, <1>2, TreeKept
<1>7. HoldersInv' /\ LeasesHavePaths' /\ PhasesInv'
  BY <1>1 DEF BridgeInv, HoldersInv, Queued, LeasesHavePaths, PhasesInv
<1>8. ScriptInv'
  <2>1. Shaped(todo', alive')
    BY <1>1
  <2>2. \A x \in alive' : refs'[x] # 0
    BY <1>1, NoneDoomed DEF Quiet
  <2>3. QED
    BY <2>1, <2>2, ScriptStarts
<1>9. ASSUME NEW x \in alive'
      PROVE  refs'[x] = Entitled(x)'
  <2>1. refs[x] = Entitled(x) /\ x \in Object
    BY <1>1, Accounted
  <2>2. Owners(x)' = Owners(x)
    BY <1>6, <2>1 DEF Owners
  <2>3. Occurrences(UnrefOf(x), s) = 0 /\ Occurrences(UnrefOf(x), todo) = 0
    BY CountNone, OccurrencesInNone DEF Quiet
  <2>4. Entitled(x)' = Owners(x)' + leases[x] + leaked[x]
          + Occurrences(x, add_traversal) + Occurrences(x, to_add)
          + Occurrences(UnrefOf(x), s)
    BY <1>1 DEF Entitled
  <2>5. QED
    BY <1>2, <2>1, <2>2, <2>3, <2>4 DEF Entitled
<1>10. QED
  BY <1>3, <1>5, <1>6, <1>7, <1>8, <1>9, AccountedNext DEF BridgeInv

LEMMA EmitKeeps ==
  ASSUME BridgeInv, NEW o \in Object, Emit(o)
  PROVE  BridgeInv'
<1>1. o \in alive /\ alive \in SUBSET Object
  BY DEF Emit, InUse, BridgeInv, BridgeTypeOK, RegTypeOK, HoldersInv, TreeInv
<1>2. PICK s \in Seq(Step) : s = do("path", o) \o do("lease", o)
                             /\ Shaped(s, alive) /\ DropsNone(s)
  BY <1>1, ShapedPathLease
<1>3. [BridgeNext]_bridgeVars
  BY DEF BridgeNext, Toolkit
<1>4. QED
  BY <1>2, <1>3, TellsKeeps DEF Emit, MayAct, Loop

LEMMA GetChildKeeps ==
  ASSUME BridgeInv, NEW p \in Object, NEW c \in Object, GetChild(p, c)
  PROVE  BridgeInv'
<1>1. c \in alive /\ alive \in SUBSET Object
  BY DEF GetChild, Attached, BridgeInv, BridgeTypeOK, RegTypeOK, TreeInv
<1>2. PICK s \in Seq(Step) : s = do("reference", c)
                             /\ Shaped(s, alive) /\ DropsNone(s)
  BY <1>1, ShapedReference
<1>3. [BridgeNext]_bridgeVars
  BY DEF BridgeNext, Client
<1>4. QED
  BY <1>2, <1>3, TellsKeeps DEF GetChild, MayAct, Loop

LEMMA TurnKeeps ==
  ASSUME BridgeInv, Turn
  PROVE  BridgeInv'
<1>1. /\ UNCHANGED <<alive, dbus_id, children, objects, add_traversal, to_add,
                     refs, held, leases, leaked, todo, view>>
      /\ todo = <<>>
  BY DEF Turn, IdleFires, DrainDone, AddDone, regVars, ownVars, Quiet
<1>2. BridgeTypeOK /\ TreeInv /\ HoldersInv
  BY DEF BridgeInv
<1>3. RegIndInv' /\ RegTypeOK'
  BY RegisterKept DEF BridgeNext, Bridge
<1>4. CacheTypeOK'
  BY <1>2, CacheTypeStep DEF BridgeTypeOK, Turn, CacheNext, AddPendingItems
<1>5. BridgeTypeOK'
  BY <1>1, <1>2, <1>3, <1>4 DEF BridgeTypeOK
<1>6. TreeInv' /\ \A x \in Object : Attached(x)' <=> Attached(x)
  BY <1>1, <1>2, TreeKept
<1>7. HoldersInv' /\ LeasesHavePaths'
  BY <1>1 DEF BridgeInv, HoldersInv, Queued, LeasesHavePaths
<1>8. PhasesInv'
  BY DEF BridgeInv, PhasesInv, Turn, IdleFires, DrainDone, AddDone
<1>9. ScriptInv'
  BY <1>1, ScriptOver
<1>10. ASSUME NEW x \in alive'
       PROVE  refs'[x] = Entitled(x)'
  <2>1. refs[x] = Entitled(x) /\ x \in Object
    BY <1>1, Accounted
  <2>2. Owners(x)' = Owners(x)
    BY <1>1, <1>6, <2>1 DEF Owners
  <2>3. QED
    BY <1>1, <2>1, <2>2 DEF Entitled
<1>11. QED
  BY <1>3, <1>5, <1>6, <1>7, <1>8, <1>9, <1>10, AccountedNext DEF BridgeInv

\* Nobody has a claim on an address that holds no object.
LEMMA FreshUnclaimed ==
  ASSUME BridgeInv, todo = <<>>, NEW o \in Object, o \notin alive
  PROVE  /\ o \notin held /\ ~Attached(o) /\ ~Queued(o)
         /\ leases[o] = 0 /\ leaked[o] = 0 /\ Owners(o) = 0
         /\ Occurrences(o, add_traversal) = 0 /\ Occurrences(o, to_add) = 0
<1>1. BridgeTypeOK /\ TreeInv /\ HoldersInv
  BY DEF BridgeInv
<1>2. o \notin held /\ ~Attached(o) /\ ~Queued(o)
  BY <1>1 DEF TreeInv, HoldersInv
<1>3. leases[o] = 0 /\ leaked[o] = 0
  <2>1. ~(leases[o] > 0) /\ ~(leaked[o] > 0)
    BY <1>1 DEF HoldersInv
  <2>2. QED
    BY <1>1, <2>1, PartsType
<1>4. Owners(o) = 0
  BY <1>2 DEF Owners
<1>5. Occurrences(o, add_traversal) = 0 /\ Occurrences(o, to_add) = 0
  BY <1>1, <1>2, OccurrencesType DEF Queued, BridgeTypeOK, CacheTypeOK
<1>6. QED
  BY <1>2, <1>3, <1>4, <1>5

LEMMA CreateFacts ==
  ASSUME BridgeInv, NEW o \in Object, Create(o)
  PROVE  /\ o \notin alive /\ alive' = alive \cup {o} /\ alive' \in SUBSET Object
         /\ \A x \in Object : x # o => dbus_id'[x] = dbus_id[x]
BY DEF Create, BridgeInv, BridgeTypeOK, RegTypeOK

LEMMA CreateKeepsPaths ==
  ASSUME BridgeInv, NEW o \in Object, Create(o), leases' = leases
  PROVE  LeasesHavePaths'
<1>1. \A x \in Object : leases[x] > 0 => x # o
  BY CreateFacts DEF BridgeInv, HoldersInv
<1>2. QED
  BY <1>1, CreateFacts DEF BridgeInv, LeasesHavePaths

LEMMA NewKeeps ==
  ASSUME BridgeInv, NEW o \in Object, New(o)
  PROVE  BridgeInv'
<1>1. /\ todo = <<>> /\ Create(o) /\ Doomed = {}
      /\ refs' = [refs EXCEPT ![o] = 1] /\ held' = held \cup {o}
      /\ UNCHANGED <<cacheVars, leases, leaked, todo, view>>
  BY DEF New, MayAct, Loop, Quiet
<1>2. /\ UNCHANGED <<children, objects, add_traversal, to_add, cpc, listening>>
      /\ todo' = <<>>
  BY <1>1 DEF cacheVars
<1>3. BridgeTypeOK /\ TreeInv /\ HoldersInv
  BY DEF BridgeInv
<1>4. RegIndInv' /\ RegTypeOK'
  BY RegisterKept DEF BridgeNext, Toolkit
<1>5. CacheTypeOK'
  BY <1>1, <1>3, CacheTypeStep DEF BridgeTypeOK
<1>6. o \notin alive /\ alive' = alive \cup {o} /\ alive' \in SUBSET Object
  BY <1>1, CreateFacts
<1>7. BridgeTypeOK'
  BY <1>1, <1>3, <1>4, <1>5 DEF BridgeTypeOK
<1>8. TreeInv' /\ \A x \in Object : Attached(x)' <=> Attached(x)
  BY <1>2, <1>3, <1>6, TreeKept
<1>9. HoldersInv'
  BY <1>1, <1>2, <1>3, <1>6 DEF HoldersInv, Queued
<1>10. ScriptInv' /\ LeasesHavePaths'
  BY <1>1, <1>2, ScriptOver, CreateKeepsPaths
<1>11. PhasesInv'
  BY <1>2 DEF BridgeInv, PhasesInv
<1>12. ASSUME NEW x \in alive'
       PROVE  refs'[x] = Entitled(x)'
  <2>1. Entitled(x)' = Owners(x)' + leases[x] + leaked[x]
          + Occurrences(x, add_traversal) + Occurrences(x, to_add)
          + Occurrences(UnrefOf(x), todo)
    BY <1>1, <1>2 DEF Entitled
  <2>2. CASE x = o
    <3>1. Occurrences(UnrefOf(x), todo) = 0
      BY <1>1, OccurrencesInNone
    <3>2. Owners(x)' = 1
      BY <1>1, <1>6, <1>8, <2>2, FreshUnclaimed DEF Owners
    <3>3. refs'[x] = 1
      BY <1>1, <1>3, <2>2 DEF BridgeTypeOK
    <3>4. QED
      BY <1>1, <1>6, <2>1, <2>2, <3>1, <3>2, <3>3, FreshUnclaimed
  <2>3. CASE x # o
    <3>1. refs[x] = Entitled(x) /\ x \in Object
      BY <1>6, <2>3, Accounted
    <3>2. Owners(x)' = Owners(x)
      BY <1>1, <1>8, <2>3, <3>1 DEF Owners
    <3>3. refs'[x] = refs[x]
      BY <1>1, <1>3, <2>3, <3>1 DEF BridgeTypeOK
    <3>4. QED
      BY <2>1, <3>1, <3>2, <3>3 DEF Entitled
  <2>4. QED
    BY <2>2, <2>3
<1>13. QED
  BY <1>4, <1>7, <1>8, <1>9, <1>10, <1>11, <1>12, AccountedNext DEF BridgeInv

LEMMA MakeChildKeeps ==
  ASSUME BridgeInv, NEW p \in Object, NEW c \in Object, MakeChild(p, c)
  PROVE  BridgeInv'
<1>1. /\ todo = <<>> /\ Create(c) /\ Doomed = {}
      /\ refs' = [refs EXCEPT ![c] = 1]
      /\ todo' = do("reference", c) \o do("unref", c)
      /\ UNCHANGED <<cacheVars, held, leases, leaked, view>>
  BY DEF MakeChild, MayAct, Loop, Quiet
<1>2. UNCHANGED <<children, objects, add_traversal, to_add, cpc, listening>>
  BY <1>1 DEF cacheVars
<1>3. BridgeTypeOK /\ TreeInv /\ HoldersInv
  BY DEF BridgeInv
<1>4. RegIndInv' /\ RegTypeOK'
  BY RegisterKept DEF BridgeNext, Client
<1>5. CacheTypeOK'
  BY <1>1, <1>3, CacheTypeStep DEF BridgeTypeOK
<1>6. c \notin alive /\ alive' = alive \cup {c} /\ alive' \in SUBSET Object
  BY <1>1, CreateFacts
<1>7. todo' \in Seq(Step) /\ Shaped(todo', alive') /\ DropsLast(todo', c)
  <2>1. PICK about \in SUBSET Object : about = alive' /\ c \in about
    BY <1>6
  <2>2. /\ do("reference", c) \in Seq(Step)
        /\ Shaped(do("reference", c), about) /\ DropsNone(do("reference", c))
    BY <2>1, ShapedReference
  <2>3. PICK s : s = do("reference", c) \o do("unref", c)
    OBVIOUS
  <2>4. s \in Seq(Step) /\ Shaped(s, about) /\ DropsLast(s, c)
    BY <2>1, <2>2, <2>3, ShapedThenUnref
  <2>5. QED
    BY <1>1, <2>1, <2>3, <2>4
<1>8. BridgeTypeOK'
  BY <1>1, <1>3, <1>4, <1>5, <1>7 DEF BridgeTypeOK
<1>9. TreeInv' /\ \A x \in Object : Attached(x)' <=> Attached(x)
  BY <1>2, <1>3, <1>6, TreeKept
<1>10. HoldersInv'
  BY <1>1, <1>2, <1>3, <1>6 DEF HoldersInv, Queued
<1>11. LeasesHavePaths' /\ PhasesInv'
  BY <1>1, <1>2, CreateKeepsPaths DEF BridgeInv, PhasesInv
<1>12. \A x \in Object : refs'[x] = IF x = c THEN 1 ELSE refs[x]
  BY <1>1, <1>3 DEF BridgeTypeOK
<1>13. ScriptInv'
  <2>1. \A x \in alive' : refs'[x] # 0
    BY <1>1, <1>6, <1>12, NoneDoomed
  <2>2. QED
    BY <1>7, <2>1, ScriptStarts
<1>14. ASSUME NEW x \in alive'
       PROVE  refs'[x] = Entitled(x)'
  <2>1. Entitled(x)' = Owners(x)' + leases[x] + leaked[x]
          + Occurrences(x, add_traversal) + Occurrences(x, to_add)
          + Occurrences(UnrefOf(x), todo')
    BY <1>1, <1>2 DEF Entitled
  <2>2. Owners(x)' = Owners(x) /\ x \in Object
    BY <1>1, <1>6, <1>9 DEF Owners
  <2>3. Occurrences(UnrefOf(x), todo') = IF x = c THEN 1 ELSE 0
    BY <1>7, CountLast
  <2>4. CASE x = c
    BY <1>1, <1>6, <1>12, <2>1, <2>2, <2>3, <2>4, FreshUnclaimed
  <2>5. CASE x # c
    <3>1. refs[x] = Entitled(x)
      BY <1>6, <2>5, Accounted
    <3>2. Occurrences(UnrefOf(x), todo) = 0
      BY <1>1, OccurrencesInNone
    <3>3. QED
      BY <1>12, <2>1, <2>2, <2>3, <2>5, <3>1, <3>2 DEF Entitled
  <2>6. QED
    BY <2>4, <2>5
<1>15. QED
  BY <1>4, <1>8, <1>9, <1>10, <1>11, <1>13, <1>14, AccountedNext DEF BridgeInv

-----------------------------------------------------------------------------
\* The references the cache takes are those of its queue.
LEMMA ChildAddedCounts ==
  ASSUME BridgeInv, cpc = "main", NEW p \in Object, NEW c \in Object, ChildAdded(p, c)
  PROVE  /\ QueueRefs(p, c) \in Nat
         /\ \A x \in Object :
              Occurrences(x, add_traversal') =
                Occurrences(x, add_traversal) + (IF x = c THEN QueueRefs(p, c) ELSE 0)
         /\ ToSet(add_traversal') \subseteq ToSet(add_traversal) \cup {c}
<1>1. add_traversal \in Seq(Object) /\ listening
  BY DEF BridgeInv, BridgeTypeOK, CacheTypeOK, PhasesInv
<1>2. CASE p \notin objects
  <2>1. add_traversal' = add_traversal /\ QueueRefs(p, c) = 0
    BY <1>2 DEF ChildAdded, QueueRefs
  <2>2. \A x \in Object : Occurrences(x, add_traversal) \in Nat
    BY <1>1, OccurrencesType
  <2>3. QED
    BY <2>1, <2>2
<1>3. CASE p \in objects
  <2>1. PICK s : s = Copies(p, c)
    OBVIOUS
  <2>2. s \in Seq(Object) /\ Len(s) \in Nat /\ ToSet(s) = {c}
        /\ \A x \in Object : Occurrences(x, s) = IF x = c THEN Len(s) ELSE 0
    <3>1. <<c>> \in Seq(Object) /\ Len(<<c>>) = 1 /\ ToSet(<<c>>) = {c}
          /\ \A x \in Object : Occurrences(x, <<c>>) = IF x = c THEN 1 ELSE 0
      BY OccurrencesInOne DEF ToSet
    <3>2. <<c, c>> \in Seq(Object) /\ Len(<<c, c>>) = 2 /\ ToSet(<<c, c>>) = {c}
      <4>1. <<c, c>> \in Seq(Object) /\ Len(<<c, c>>) = 2
        OBVIOUS
      <4>2. DOMAIN <<c, c>> = {1, 2} /\ <<c, c>>[1] = c /\ <<c, c>>[2] = c
        OBVIOUS
      <4>3. QED
        BY <4>1, <4>2, Zenon DEF ToSet
    <3>3. ASSUME NEW x \in Object
          PROVE  Occurrences(x, <<c, c>>) = IF x = c THEN 2 ELSE 0
      <4>1. DOMAIN <<c, c>> = {1, 2} /\ <<c, c>>[1] = c /\ <<c, c>>[2] = c
        OBVIOUS
      <4>2. {i \in DOMAIN <<c, c>> : <<c, c>>[i] = x} = IF x = c THEN {1, 2} ELSE {}
        BY <4>1, Zenon
      <4>3. Cardinality({1} \cup {2}) = 2
        <5>1. IsFiniteSet({1}) /\ Cardinality({1}) = 1
          BY FS_Singleton
        <5>2. 2 \notin {1}
          OBVIOUS
        <5>3. Cardinality({1} \cup {2}) = Cardinality({1}) + 1
          BY <5>1, <5>2, FS_AddElement
        <5>4. QED
          BY <5>1, <5>3
      <4>4. {1, 2} = {1} \cup {2}
        OBVIOUS
      <4>5. Cardinality({1, 2}) = 2 /\ Cardinality({}) = 0
        BY <4>3, <4>4, FS_EmptySet
      <4>6. QED
        BY <4>2, <4>5 DEF Occurrences
    <3>4. s = <<c>> \/ s = <<c, c>>
      BY <2>1 DEF Copies
    <3>5. CASE s = <<c>>
      BY <3>1, <3>5
    <3>6. CASE s = <<c, c>>
      BY <3>2, <3>3, <3>6
    <3>7. QED
      BY <3>4, <3>5, <3>6
  <2>3. add_traversal' = add_traversal \o s /\ QueueRefs(p, c) = Len(s)
    BY <1>1, <1>3, <2>1 DEF ChildAdded, QueueRefs
  <2>4. \A x \in Object : Occurrences(x, add_traversal \o s) =
                 Occurrences(x, add_traversal) + Occurrences(x, s)
    BY <1>1, <2>2, OccurrencesInConcat
  <2>5. \A x \in Object : Occurrences(x, add_traversal) \in Nat
    BY <1>1, OccurrencesType
  <2>6. ToSet(add_traversal \o s) = ToSet(add_traversal) \cup ToSet(s)
    BY <1>1, <2>2, ElementsOfConcat
  <2>7. QED
    BY <2>2, <2>3, <2>4, <2>5, <2>6
<1>4. QED
  BY <1>2, <1>3

LEMMA SignalKeeps ==
  ASSUME BridgeInv, NEW p \in Object, NEW c \in Object, Signal(p, c)
  PROVE  BridgeInv'
<1>1. /\ todo = <<>> /\ Doomed = {} /\ cpc = "main" /\ Create(c)
      /\ ChildAdded(p, c) /\ Mention(p, c)
      /\ refs' = [refs EXCEPT ![c] = 1 + QueueRefs(p, c)]
      /\ todo' = ChildrenChanged(p, c) \o do("unref", c)
      /\ UNCHANGED <<children, objects, to_add, cpc, listening>>
      /\ UNCHANGED <<held, leases, leaked, view>>
  BY DEF Signal, MayAct, Loop, Quiet, Mention
<1>2. BridgeTypeOK /\ TreeInv /\ HoldersInv
  BY DEF BridgeInv
<1>3. p \in alive
  BY <1>2 DEF Signal, InUse, TreeInv, HoldersInv
<1>4. RegIndInv' /\ RegTypeOK'
  BY RegisterKept DEF BridgeNext, Toolkit
<1>5. CacheTypeOK'
  BY <1>1, <1>2, CacheTypeStep DEF BridgeTypeOK, CacheNext
<1>6. c \notin alive /\ alive' = alive \cup {c} /\ alive' \in SUBSET Object
  BY <1>1, CreateFacts
<1>7. todo' \in Seq(Step) /\ Shaped(todo', alive') /\ DropsLast(todo', c)
  <2>1. PICK about \in SUBSET Object : about = alive' /\ c \in about /\ p \in about
    BY <1>3, <1>6
  <2>2. PICK s : s = ChildrenChanged(p, c) \o do("unref", c)
    OBVIOUS
  <2>3. Shaped(s, about) /\ DropsLast(s, c)
    BY <2>1, <2>2, ShapedChildrenChanged
  <2>4. s \in Seq(Step)
    BY <2>3 DEF Shaped
  <2>5. QED
    BY <1>1, <2>1, <2>2, <2>3, <2>4
<1>8. /\ QueueRefs(p, c) \in Nat
      /\ \A x \in Object :
           Occurrences(x, add_traversal') =
             Occurrences(x, add_traversal) + (IF x = c THEN QueueRefs(p, c) ELSE 0)
      /\ ToSet(add_traversal') \subseteq ToSet(add_traversal) \cup {c}
  BY <1>1, ChildAddedCounts
<1>9. /\ refs' \in [Object -> Nat]
      /\ \A x \in Object : refs'[x] = IF x = c THEN 1 + QueueRefs(p, c) ELSE refs[x]
  BY <1>1, <1>2, <1>8 DEF BridgeTypeOK
<1>10. BridgeTypeOK'
  BY <1>1, <1>2, <1>4, <1>5, <1>7, <1>9 DEF BridgeTypeOK
<1>11. TreeInv' /\ \A x \in Object : Attached(x)' <=> Attached(x)
  BY <1>1, <1>2, <1>6, TreeKept
<1>12. HoldersInv'
  <2>1. \A x \in Object : Queued(x)' => x \in alive'
    BY <1>1, <1>2, <1>6, <1>8 DEF HoldersInv, Queued
  <2>2. QED
    BY <1>1, <1>2, <1>6, <2>1 DEF HoldersInv
<1>13. LeasesHavePaths' /\ PhasesInv'
  BY <1>1, CreateKeepsPaths DEF BridgeInv, PhasesInv
<1>14. ScriptInv'
  <2>1. \A x \in alive' : refs'[x] # 0
    BY <1>1, <1>2, <1>6, <1>8, <1>9, NoneDoomed
  <2>2. QED
    BY <1>7, <2>1, ScriptStarts
<1>15. ASSUME NEW x \in alive'
       PROVE  refs'[x] = Entitled(x)'
  <2>1. Entitled(x)' = Owners(x)' + leases[x] + leaked[x]
          + Occurrences(x, add_traversal') + Occurrences(x, to_add)
          + Occurrences(UnrefOf(x), todo')
    BY <1>1 DEF Entitled
  <2>2. Owners(x)' = Owners(x) /\ x \in Object
    BY <1>1, <1>6, <1>11 DEF Owners
  <2>3. Occurrences(UnrefOf(x), todo') = IF x = c THEN 1 ELSE 0
    BY <1>7, CountLast
  <2>4. CASE x = c
    BY <1>1, <1>6, <1>8, <1>9, <2>1, <2>2, <2>3, <2>4, FreshUnclaimed
  <2>5. CASE x # c
    <3>1. refs[x] = Entitled(x)
      BY <1>6, <2>5, Accounted
    <3>2. Occurrences(UnrefOf(x), todo) = 0
      BY <1>1, OccurrencesInNone
    <3>3. Occurrences(x, add_traversal') = Occurrences(x, add_traversal)
      BY <1>2, <1>8, <2>2, <2>5, PartsType
    <3>4. QED
      BY <1>9, <2>1, <2>2, <2>3, <2>5, <3>1, <3>2, <3>3 DEF Entitled
  <2>6. QED
    BY <2>4, <2>5
<1>16. QED
  BY <1>4, <1>10, <1>11, <1>12, <1>13, <1>14, <1>15, AccountedNext DEF BridgeInv

\* A child without a parent is appended to the children of p.
LEMMA AttachTree ==
  ASSUME TreeInv, CacheTypeOK, NEW p \in Object, NEW c \in Object, c # Root,
         p \in alive, c \in alive, ~Attached(c), alive' = alive,
         children' = [children EXCEPT ![p] = Append(children[p], c)]
  PROVE  TreeInv' /\ \A x \in Object : Attached(x)' <=> Attached(x) \/ x = c
<1>1. PICK n : n = Len(children[p]) + 1
  OBVIOUS
<1>2. /\ children[p] \in Seq(Object)
      /\ children'[p] = Append(children[p], c)
      /\ \A q \in Object \ {p} : children'[q] = children[q]
  BY DEF CacheTypeOK
<1>3. /\ DOMAIN children'[p] = DOMAIN children[p] \cup {n}
      /\ \A i \in DOMAIN children[p] : children'[p][i] = children[p][i]
      /\ children'[p][n] = c /\ n \notin DOMAIN children[p]
  BY <1>1, <1>2
<1>4. \A q \in Object : \A i \in DOMAIN children'[q] :
        \/ i \in DOMAIN children[q] /\ children'[q][i] = children[q][i]
        \/ q = p /\ i = n /\ children'[q][i] = c
  BY <1>2, <1>3
<1>5. \A q \in Object : \A i \in DOMAIN children[q] :
        i \in DOMAIN children'[q] /\ children'[q][i] = children[q][i]
  BY <1>2, <1>3
<1>6. \A q \in Object : \A i \in DOMAIN children[q] : children[q][i] # c
  BY DEF Attached, ToSet
<1>7. \A x \in Object : Attached(x)' <=> Attached(x) \/ x = c
  <2>1. ASSUME NEW x \in Object, Attached(x)'
        PROVE  Attached(x) \/ x = c
    <3>1. PICK q \in Object : \E i \in DOMAIN children'[q] : children'[q][i] = x
      BY <2>1 DEF Attached, ToSet
    <3>2. QED
      BY <1>4, <3>1 DEF Attached, ToSet
  <2>2. ASSUME NEW x \in Object, Attached(x)
        PROVE  Attached(x)'
    <3>1. PICK q \in Object : \E i \in DOMAIN children[q] : children[q][i] = x
      BY <2>2 DEF Attached, ToSet
    <3>2. \E i \in DOMAIN children'[q] : children'[q][i] = x
      BY <1>5, <3>1
    <3>3. QED
      BY <3>2 DEF Attached, ToSet
  <2>3. Attached(c)'
    <3>1. n \in DOMAIN children'[p] /\ children'[p][n] = c
      BY <1>3
    <3>2. QED
      BY <3>1 DEF Attached, ToSet
  <2>4. QED
    BY <2>1, <2>2, <2>3
<1>8. ASSUME NEW q \in Object, NEW r \in Object,
             NEW i \in DOMAIN children'[q], NEW j \in DOMAIN children'[r],
             children'[q][i] = children'[r][j]
      PROVE  q = r /\ i = j
  BY <1>4, <1>6, <1>8 DEF TreeInv
<1>9. \A q \in Object : children'[q] # <<>> => q \in alive
  BY <1>2 DEF TreeInv
<1>10. QED
  BY <1>7, <1>8, <1>9, CacheAssumption DEF TreeInv

LEMMA AdoptKeeps ==
  ASSUME BridgeInv, NEW p \in Object, NEW c \in Object, NEW named \in BOOLEAN,
         Adopt(p, c, named)
  PROVE  BridgeInv'
<1> DEFINE lost == IF named THEN 0 ELSE LostRefs(p)
<1>1. /\ todo = <<>> /\ Doomed = {} /\ cpc = "main" /\ c \in held /\ InUse(p)
      /\ ChildAdded(p, c) /\ Attach(p, c)
      /\ refs' = [refs EXCEPT ![c] = refs[c] + (1 + QueueRefs(p, c) + lost)]
      /\ leaked' = [leaked EXCEPT ![c] = leaked[c] + lost]
      /\ todo' = ChildrenChanged(p, c)
      /\ UNCHANGED <<regVars, objects, to_add, cpc, listening>>
      /\ UNCHANGED <<held, leases, view>>
  BY DEF Adopt, MayAct, Loop, Quiet, Attach, Plus
<1>2. /\ ~Attached(c) /\ <<p, c>> \in MayHold
      /\ children' = [children EXCEPT ![p] = Append(children[p], c)]
  BY <1>1 DEF Attach, SignalPossible
<1>3. alive' = alive /\ dbus_id' = dbus_id
  BY <1>1 DEF regVars
<1>4. BridgeTypeOK /\ TreeInv /\ HoldersInv
  BY DEF BridgeInv
<1>5. p \in alive /\ c \in alive /\ alive \in SUBSET Object /\ c # Root
  BY <1>1, <1>2, <1>4, CacheAssumption
  DEF InUse, TreeInv, HoldersInv, BridgeTypeOK, RegTypeOK
<1>6. lost \in Nat
  BY DEF LostRefs
<1> HIDE DEF lost
<1>7. RegIndInv' /\ RegTypeOK'
  BY RegisterKept DEF BridgeNext, Toolkit
<1>8. CacheTypeOK'
  BY <1>1, <1>4, CacheTypeStep DEF BridgeTypeOK, CacheNext
<1>9. todo' \in Seq(Step) /\ Shaped(todo', alive') /\ DropsNone(todo')
  <2>1. PICK about \in SUBSET Object : about = alive' /\ c \in about /\ p \in about
    BY <1>3, <1>5
  <2>2. PICK s : s = ChildrenChanged(p, c)
    OBVIOUS
  <2>3. Shaped(s, about) /\ DropsNone(s)
    BY <2>1, <2>2, ShapedChildrenChanged
  <2>4. s \in Seq(Step)
    BY <2>3 DEF Shaped
  <2>5. QED
    BY <1>1, <2>1, <2>2, <2>3, <2>4
<1>10. /\ QueueRefs(p, c) \in Nat
       /\ \A x \in Object :
            Occurrences(x, add_traversal') =
              Occurrences(x, add_traversal) + (IF x = c THEN QueueRefs(p, c) ELSE 0)
       /\ ToSet(add_traversal') \subseteq ToSet(add_traversal) \cup {c}
  BY <1>1, ChildAddedCounts
<1>11. refs[c] \in Nat /\ leaked[c] \in Nat
  BY <1>4, PartsType
<1>12. refs' \in [Object -> Nat] /\ leaked' \in [Object -> Nat]
  BY <1>1, <1>4, <1>6, <1>10, <1>11, SMTT(30) DEF BridgeTypeOK
<1>13. \A x \in Object :
         /\ refs'[x] = IF x = c THEN refs[c] + (1 + QueueRefs(p, c) + lost) ELSE refs[x]
         /\ leaked'[x] = IF x = c THEN leaked[c] + lost ELSE leaked[x]
  BY <1>1, <1>4, SMTT(30) DEF BridgeTypeOK
<1>14. BridgeTypeOK'
  BY <1>1, <1>4, <1>7, <1>8, <1>9, <1>12 DEF BridgeTypeOK
<1>15. TreeInv' /\ \A x \in Object : Attached(x)' <=> Attached(x) \/ x = c
  BY <1>2, <1>3, <1>4, <1>5, AttachTree DEF BridgeTypeOK
<1>16. HoldersInv'
  <2>1. \A x \in Object : Queued(x)' => x \in alive'
    BY <1>1, <1>3, <1>4, <1>5, <1>10 DEF HoldersInv, Queued
  <2>2. \A x \in Object : leases'[x] > 0 \/ leaked'[x] > 0 => x \in alive'
    BY <1>1, <1>3, <1>4, <1>5, <1>13 DEF HoldersInv
  <2>3. QED
    BY <1>1, <1>3, <1>4, <2>1, <2>2 DEF HoldersInv
<1>17. LeasesHavePaths' /\ PhasesInv'
  BY <1>1, <1>3 DEF BridgeInv, LeasesHavePaths, PhasesInv
<1>18. ScriptInv'
  <2>1. \A x \in alive' : refs'[x] # 0
    BY <1>1, <1>3, <1>5, <1>6, <1>10, <1>11, <1>13, NoneDoomed
  <2>2. QED
    BY <1>9, <2>1, ScriptStarts
<1>19. ASSUME NEW x \in alive'
       PROVE  refs'[x] = Entitled(x)'
  <2>1. Entitled(x)' = Owners(x)' + leases[x] + leaked'[x]
          + Occurrences(x, add_traversal') + Occurrences(x, to_add)
          + Occurrences(UnrefOf(x), todo')
    BY <1>1 DEF Entitled
  <2>2. refs[x] = Entitled(x) /\ x \in Object
    BY <1>3, Accounted
  <2>3. Owners(x)' = IF x = c THEN Owners(x) + 1 ELSE Owners(x)
    BY <1>1, <1>2, <1>15, <2>2 DEF Owners
  <2>4. Occurrences(UnrefOf(x), todo') = 0 /\ Occurrences(UnrefOf(x), todo) = 0
    BY <1>1, <1>9, CountNone, OccurrencesInNone
  <2>5. refs[x] = Owners(x) + leases[x] + leaked[x]
          + Occurrences(x, add_traversal) + Occurrences(x, to_add)
    BY <1>4, <2>2, <2>4, PartsType DEF Entitled
  <2>6. QED
    BY <1>4, <1>6, <1>10, <1>13, <2>1, <2>2, <2>3, <2>4, <2>5, PartsType
<1>20. QED
  BY <1>7, <1>14, <1>15, <1>16, <1>17, <1>18, <1>19, AccountedNext DEF BridgeInv

\* what RemoveAt leaves is what was there, in the same order
LEMMA RemoveAtIndexes ==
  ASSUME NEW S, NEW s \in Seq(S), NEW i \in DOMAIN s
  PROVE  /\ RemoveAt(s, i) \in Seq(S)
         /\ DOMAIN RemoveAt(s, i) = 1 .. (Len(s) - 1)
         /\ \A j \in 1 .. (Len(s) - 1) :
              RemoveAt(s, i)[j] = IF j < i THEN s[j] ELSE s[j + 1]
<1> DEFINE front == SubSeq(s, 1, i - 1)
           back  == SubSeq(s, i + 1, Len(s))
<1>1. /\ front \in Seq(S) /\ Len(front) = i - 1
      /\ \A j \in 1 .. (i - 1) : front[j] = s[j]
  OBVIOUS
<1>2. /\ back \in Seq(S) /\ Len(back) = Len(s) - i
      /\ \A j \in 1 .. (Len(s) - i) : back[j] = s[i + j]
  OBVIOUS
<1>3. PICK f \in Seq(S) : f = front /\ Len(f) = i - 1
                          /\ \A j \in 1 .. (i - 1) : f[j] = s[j]
  BY <1>1
<1>4. PICK b \in Seq(S) : b = back /\ Len(b) = Len(s) - i
                          /\ \A j \in 1 .. (Len(s) - i) : b[j] = s[i + j]
  BY <1>2
<1>5. /\ DOMAIN (f \o b) = 1 .. (Len(f) + Len(b))
      /\ \A j \in 1 .. Len(f) : (f \o b)[j] = f[j]
      /\ \A j \in 1 .. Len(b) : (f \o b)[Len(f) + j] = b[j]
      /\ f \o b \in Seq(S)
  OBVIOUS
<1>6. PICK w : w = f \o b
  OBVIOUS
<1>7. RemoveAt(s, i) = w
  BY <1>3, <1>4, <1>6 DEF RemoveAt
<1> HIDE DEF front, back
<1>8. Len(s) \in Nat /\ i \in 1 .. Len(s)
  OBVIOUS
<1>9. /\ w \in Seq(S) /\ DOMAIN w = 1 .. (Len(s) - 1)
      /\ \A j \in 1 .. (i - 1) : w[j] = s[j]
      /\ \A j \in 1 .. (Len(s) - i) : w[(i - 1) + j] = s[i + j]
  <2>1. w \in Seq(S) /\ DOMAIN w = 1 .. (Len(f) + Len(b))
    BY <1>5, <1>6
  <2>2. (i - 1) + (Len(s) - i) = Len(s) - 1
    BY <1>8
  <2>3. ASSUME NEW j \in 1 .. (i - 1)
        PROVE  w[j] = s[j]
    BY <1>3, <1>5, <1>6
  <2>4. ASSUME NEW j \in 1 .. (Len(s) - i)
        PROVE  w[(i - 1) + j] = s[i + j]
    <3>1. Len(f) = i - 1 /\ j \in 1 .. Len(b)
      BY <1>3, <1>4
    <3>2. w[Len(f) + j] = b[j]
      BY <1>5, <1>6, <3>1, Zenon
    <3>3. b[j] = s[i + j]
      BY <1>4, Zenon
    <3>4. QED
      BY <3>1, <3>2, <3>3, Zenon
  <2>5. QED
    BY <1>3, <1>4, <2>1, <2>2, <2>3, <2>4
<1>10. ASSUME NEW j \in 1 .. (Len(s) - 1)
       PROVE  w[j] = IF j < i THEN s[j] ELSE s[j + 1]
  <2>1. CASE j < i
    BY <1>8, <1>9, <2>1
  <2>2. CASE ~(j < i)
    <3>1. PICK k \in 1 .. (Len(s) - i) : (i - 1) + k = j /\ i + k = j + 1
      <4>1. j - (i - 1) \in 1 .. (Len(s) - i)
        BY <1>8, <2>2
      <4>2. (i - 1) + (j - (i - 1)) = j /\ i + (j - (i - 1)) = j + 1
        BY <1>8
      <4>3. QED
        BY <4>1, <4>2
    <3>2. w[(i - 1) + k] = s[i + k]
      BY <1>9
    <3>3. QED
      BY <2>2, <3>1, <3>2
  <2>3. QED
    BY <2>1, <2>2
<1>11. QED
  BY <1>7, <1>9, <1>10

\* A child is taken from the children of p.
LEMMA DetachTree ==
  ASSUME TreeInv, CacheTypeOK, NEW p \in Object, NEW i \in DOMAIN children[p],
         alive' = alive,
         children' = [children EXCEPT ![p] = RemoveAt(children[p], i)]
  PROVE  TreeInv' /\ \A x \in Object : Attached(x)' <=> Attached(x) /\ x # children[p][i]
<1>1. PICK s \in Seq(Object) : s = children[p] /\ i \in DOMAIN s
  BY DEF CacheTypeOK
<1>2. PICK r \in Seq(Object) :
        /\ r = RemoveAt(s, i)
        /\ DOMAIN r = 1 .. (Len(s) - 1)
        /\ \A j \in 1 .. (Len(s) - 1) : r[j] = IF j < i THEN s[j] ELSE s[j + 1]
  BY <1>1, RemoveAtIndexes
<1>3. DOMAIN s = 1 .. Len(s) /\ Len(s) \in Nat /\ i \in 1 .. Len(s)
  BY <1>1
<1>4. /\ children'[p] = r
      /\ \A q \in Object \ {p} : children'[q] = children[q]
  BY <1>1, <1>2 DEF CacheTypeOK
<1> DEFINE old(q, j) == IF q = p /\ j >= i THEN j + 1 ELSE j
<1>5. \A q \in Object : \A j \in DOMAIN children'[q] :
        /\ old(q, j) \in DOMAIN children[q]
        /\ children'[q][j] = children[q][old(q, j)]
        /\ q = p => old(q, j) # i
  <2>1. \A j \in DOMAIN r : old(p, j) \in DOMAIN s /\ r[j] = s[old(p, j)] /\ old(p, j) # i
    BY <1>2, <1>3
  <2>2. QED
    BY <1>1, <1>4, <2>1
<1>6. \A j \in DOMAIN s : j # i => \E k \in DOMAIN r : r[k] = s[j]
  <2> SUFFICES ASSUME NEW j \in DOMAIN s, j # i
               PROVE  \E k \in DOMAIN r : r[k] = s[j]
    OBVIOUS
  <2>1. CASE j < i
    <3>1. j \in DOMAIN r /\ r[j] = s[j]
      BY <1>2, <1>3, <2>1
    <3>2. QED
      BY <3>1
  <2>2. CASE j > i
    <3>1. j - 1 \in DOMAIN r /\ r[j - 1] = s[j]
      BY <1>2, <1>3, <2>2
    <3>2. QED
      BY <3>1
  <2>3. QED
    BY <1>3, <2>1, <2>2
<1>7. ASSUME NEW x \in Object
      PROVE  Attached(x)' <=> Attached(x) /\ x # children[p][i]
  <2>1. ASSUME Attached(x)'
        PROVE  Attached(x) /\ x # children[p][i]
    <3>0. PICK q \in Object : \E j \in DOMAIN children'[q] : children'[q][j] = x
      BY <2>1 DEF Attached, ToSet
    <3>1. PICK j \in DOMAIN children'[q] : children'[q][j] = x
      BY <3>0
    <3>2. /\ old(q, j) \in DOMAIN children[q] /\ children[q][old(q, j)] = x
          /\ q = p => old(q, j) # i
      BY <1>5, <3>1
    <3> HIDE DEF old
    <3>3. Attached(x)
      BY <3>2 DEF Attached, ToSet
    <3>4. x # children[p][i]
      BY <3>2 DEF TreeInv
    <3>5. QED
      BY <3>3, <3>4
  <2>2. ASSUME Attached(x), x # children[p][i]
        PROVE  Attached(x)'
    <3>0. PICK q \in Object : \E j \in DOMAIN children[q] : children[q][j] = x
      BY <2>2 DEF Attached, ToSet
    <3>1. PICK j \in DOMAIN children[q] : children[q][j] = x
      BY <3>0
    <3>2. \E k \in DOMAIN children'[q] : children'[q][k] = x
      BY <1>1, <1>4, <1>6, <2>2, <3>1
    <3>3. QED
      BY <3>2 DEF Attached, ToSet
  <2>3. QED
    BY <2>1, <2>2
<1>8. ASSUME NEW q1 \in Object, NEW q2 \in Object,
             NEW j1 \in DOMAIN children'[q1], NEW j2 \in DOMAIN children'[q2],
             children'[q1][j1] = children'[q2][j2]
      PROVE  q1 = q2 /\ j1 = j2
  <2>1. q1 = q2 /\ old(q1, j1) = old(q2, j2)
    BY <1>5, <1>8 DEF TreeInv
  <2>2. j1 \in Int /\ j2 \in Int
    <3>1. \A q \in Object : DOMAIN children'[q] \subseteq Int
      <4>1. \A q \in Object : DOMAIN children[q] = 1 .. Len(children[q])
        BY DEF CacheTypeOK
      <4>2. DOMAIN r \subseteq Int
        BY <1>2
      <4>3. \A q \in Object : Len(children[q]) \in Nat
        BY DEF CacheTypeOK
      <4>4. QED
        BY <1>4, <4>1, <4>2, <4>3
    <3>2. QED
      BY <3>1
  <2>3. QED
    BY <1>3, <2>1, <2>2
<1>9. \A q \in Object : children'[q] # <<>> => q \in alive
  <2>1. children[p] # <<>>
    OBVIOUS
  <2>2. QED
    BY <1>4, <2>1 DEF TreeInv
<1>10. QED
  BY <1>7, <1>8, <1>9, CacheAssumption DEF TreeInv

LEMMA AbandonKeeps ==
  ASSUME BridgeInv, NEW p \in Object, NEW c \in Object, NEW named \in BOOLEAN,
         Abandon(p, c, named)
  PROVE  BridgeInv'
<1>1. /\ todo = <<>> /\ Doomed = {} /\ cpc = "main" /\ Detach(p, c)
      /\ todo' = IF named THEN ChildrenChanged(p, c) \o do("unref", c)
                 ELSE do("path", p) \o do("maybe lease", p) \o do("unref", c)
      /\ UNCHANGED <<regVars, objects, add_traversal, to_add, cpc, listening>>
      /\ UNCHANGED <<refs, held, leases, leaked, view>>
  BY DEF Abandon, MayAct, Loop, Quiet, Detach
<1>2. PICK i \in DOMAIN children[p] :
        /\ children[p][i] = c
        /\ children' = [children EXCEPT ![p] = RemoveAt(children[p], i)]
  BY <1>1 DEF Detach
<1>3. alive' = alive /\ dbus_id' = dbus_id
  BY <1>1 DEF regVars
<1>4. BridgeTypeOK /\ TreeInv /\ HoldersInv
  BY DEF BridgeInv
<1>5. Attached(c) /\ c \in alive /\ p \in alive /\ alive \in SUBSET Object
  <2>1. children[p] # <<>> /\ Attached(c)
    BY <1>2 DEF Attached, ToSet
  <2>2. QED
    BY <1>4, <2>1 DEF TreeInv, BridgeTypeOK, RegTypeOK
<1>6. RegIndInv' /\ RegTypeOK'
  BY RegisterKept DEF BridgeNext, Toolkit
<1>7. CacheTypeOK'
  BY <1>1, <1>4, CacheTypeStep DEF BridgeTypeOK, CacheNext
<1>8. todo' \in Seq(Step) /\ Shaped(todo', alive') /\ DropsLast(todo', c)
  <2>1. PICK about \in SUBSET Object : about = alive' /\ c \in about /\ p \in about
    BY <1>3, <1>5
  <2>2. PICK s : s = ChildrenChanged(p, c) \o do("unref", c)
    OBVIOUS
  <2>3. Shaped(s, about) /\ DropsLast(s, c)
    BY <2>1, <2>2, ShapedChildrenChanged
  <2>4. s \in Seq(Step)
    BY <2>3 DEF Shaped
  <2>5. PICK u \in Seq(Step) : u = do("path", p) \o do("maybe lease", p)
                               /\ Shaped(u, about) /\ DropsNone(u)
    BY <2>1, ShapedPathLease
  <2>6. PICK v : v = u \o do("unref", c)
    OBVIOUS
  <2>7. v \in Seq(Step) /\ Shaped(v, about) /\ DropsLast(v, c)
    BY <2>1, <2>5, <2>6, ShapedThenUnref
  <2>8. todo' = s \/ todo' = v
    BY <1>1, <2>2, <2>5, <2>6
  <2>9. QED
    BY <2>1, <2>3, <2>4, <2>7, <2>8
<1>9. BridgeTypeOK'
  BY <1>1, <1>4, <1>6, <1>7, <1>8 DEF BridgeTypeOK
<1>10. TreeInv' /\ \A x \in Object : Attached(x)' <=> Attached(x) /\ x # c
  BY <1>2, <1>3, <1>4, DetachTree DEF BridgeTypeOK
<1>11. HoldersInv' /\ LeasesHavePaths' /\ PhasesInv'
  BY <1>1, <1>3 DEF BridgeInv, HoldersInv, Queued, LeasesHavePaths, PhasesInv
<1>12. ScriptInv'
  <2>1. \A x \in alive' : refs'[x] # 0
    BY <1>1, <1>3, NoneDoomed
  <2>2. QED
    BY <1>8, <2>1, ScriptStarts
<1>13. ASSUME NEW x \in alive'
       PROVE  refs'[x] = Entitled(x)'
  <2>1. Entitled(x)' = Owners(x)' + leases[x] + leaked[x]
          + Occurrences(x, add_traversal) + Occurrences(x, to_add)
          + Occurrences(UnrefOf(x), todo')
    BY <1>1 DEF Entitled
  <2>2. refs[x] = Entitled(x) /\ x \in Object
    BY <1>3, Accounted
  <2>3. Owners(x)' = IF x = c THEN Owners(x) - 1 ELSE Owners(x)
    <3>1. (x \in held)' <=> x \in held
      BY <1>1
    <3>2. Attached(x)' <=> Attached(x) /\ x # c
      BY <1>10, <2>2
    <3>3. x = c => Attached(x)
      BY <1>5
    <3>4. QED
      BY <3>1, <3>2, <3>3 DEF Owners
  <2>4. /\ Occurrences(UnrefOf(x), todo') = IF x = c THEN 1 ELSE 0
        /\ Occurrences(UnrefOf(x), todo) = 0
    BY <1>1, <1>8, CountLast, OccurrencesInNone
  <2>5. refs[x] = Owners(x) + leases[x] + leaked[x]
          + Occurrences(x, add_traversal) + Occurrences(x, to_add)
    BY <1>4, <2>2, <2>4, PartsType DEF Entitled
  <2>6. refs'[x] = refs[x]
    BY <1>1
  <2>7. QED
    BY <1>4, <2>1, <2>2, <2>3, <2>4, <2>5, <2>6, PartsType
<1>14. QED
  BY <1>6, <1>9, <1>10, <1>11, <1>12, <1>13, AccountedNext DEF BridgeInv

\* The first loop of add_pending_items: every reference that a queue loses
\* is leaked or passed on, every one that a queue gains was taken for it.
LEMMA WalkKeeps ==
  ASSUME BridgeInv, Walk
  PROVE  BridgeInv'
<1> DEFINE current == Head(add_traversal)
           rest == Tail(add_traversal)
           found == WalkedChildren(current)
<1>1. /\ todo = <<>> /\ Doomed = {} /\ DrainHead
      /\ cpc = "drain" /\ add_traversal # <<>>
      /\ UNCHANGED <<regVars, children, objects, cpc, listening>>
      /\ UNCHANGED <<held, leases, todo, view>>
  BY DEF Walk, Quiet, DrainHead
<1>2. alive' = alive /\ dbus_id' = dbus_id /\ children' = children
  BY <1>1 DEF regVars
<1>3. BridgeTypeOK /\ TreeInv /\ HoldersInv
  BY DEF BridgeInv
<1>4. add_traversal \in Seq(Object) /\ to_add \in Seq(Object)
      /\ children \in [Object -> Seq(Object)]
  BY <1>3 DEF BridgeTypeOK, CacheTypeOK
<1>5. /\ current \in Object /\ rest \in Seq(Object)
      /\ ToSet(add_traversal) = ToSet(rest) \cup {current}
  BY <1>1, <1>4, ElementsOfTail
<1>6. current \in alive
  BY <1>3, <1>5 DEF HoldersInv, Queued
<1>7. /\ found \in Seq(Object)
      /\ \A i, j \in DOMAIN found : found[i] = found[j] => i = j
      /\ \A x \in Object : x \in ToSet(found) => x \in alive
  <2>1. CASE found = <<>>
    <3>1. DOMAIN found = {} /\ ToSet(found) = {}
      BY <2>1 DEF ToSet
    <3>2. <<>> \in Seq(Object)
      OBVIOUS
    <3>3. QED
      BY <2>1, <3>1, <3>2
  <2>2. CASE found = children[current]
    <3>1. \A x \in Object : x \in ToSet(found) => Attached(x)
      BY <1>5, <2>2 DEF Attached
    <3>2. found \in Seq(Object)
      BY <1>4, <1>5, <2>2
    <3>3. \A i, j \in DOMAIN found : found[i] = found[j] => i = j
      BY <1>3, <1>5, <2>2 DEF TreeInv
    <3>4. QED
      BY <1>3, <3>1, <3>2, <3>3 DEF TreeInv
  <2>3. QED
    BY <2>1, <2>2 DEF WalkedChildren
<1>8. \A x \in Object :
        Occurrences(x, add_traversal) =
          Occurrences(x, rest) + (IF current = x THEN 1 ELSE 0)
  BY <1>1, <1>4, OccurrencesInTail
<1>9. \/ /\ current \in Transient
         /\ add_traversal' = rest /\ to_add' = to_add
         /\ leaked' = [leaked EXCEPT ![current] = leaked[current] + 1]
         /\ refs' = refs
      \/ /\ current \notin Transient
         /\ add_traversal' = rest \o found /\ to_add' = Append(to_add, current)
         /\ refs' = [x \in Object |-> IF x \in ToSet(found) THEN refs[x] + 1 ELSE refs[x]]
         /\ leaked' = leaked
  BY DEF Walk, DrainHead, Plus
<1> HIDE DEF current, rest, found
<1>10. RegIndInv' /\ RegTypeOK'
  BY RegisterKept DEF BridgeNext, Bridge
<1>11. CacheTypeOK'
  BY <1>1, <1>3, CacheTypeStep DEF BridgeTypeOK, CacheNext, AddPendingItems
<1>12. refs \in [Object -> Nat] /\ leaked \in [Object -> Nat]
  BY <1>3 DEF BridgeTypeOK
<1>13. refs' \in [Object -> Nat] /\ leaked' \in [Object -> Nat]
  <2>1. CASE current \in Transient
    BY <1>5, <1>9, <1>12, <2>1
  <2>2. CASE current \notin Transient
    <3>1. /\ refs' = [x \in Object |-> IF x \in ToSet(found) THEN refs[x] + 1 ELSE refs[x]]
          /\ leaked' = leaked
      BY <1>9, <2>2
    <3>2. \A x \in Object : refs[x] + 1 \in Nat /\ refs[x] \in Nat
      BY <1>12
    <3>3. QED
      BY <1>12, <3>1, <3>2
  <2>3. QED
    BY <2>1, <2>2
<1>14. BridgeTypeOK'
  BY <1>1, <1>3, <1>10, <1>11, <1>13 DEF BridgeTypeOK
<1>15. TreeInv' /\ \A x \in Object : Attached(x)' <=> Attached(x)
  BY <1>2, <1>3, TreeKept
<1>16. HoldersInv'
  <2>1. ASSUME NEW x \in Object, Queued(x)'
        PROVE  x \in alive'
    <3>1. x \in ToSet(add_traversal') \/ x \in ToSet(to_add')
      BY <2>1 DEF Queued
    <3>2. ToSet(rest \o found) = ToSet(rest) \cup ToSet(found)
      BY <1>5, <1>7, ElementsOfConcat
    <3>3. ToSet(Append(to_add, current)) = ToSet(to_add) \cup {current}
      BY <1>4, <1>5, ElementsOfAppend
    <3>4. Queued(x) \/ x \in ToSet(found)
      BY <1>5, <1>9, <3>1, <3>2, <3>3 DEF Queued
    <3>5. QED
      BY <1>2, <1>3, <1>7, <3>4 DEF HoldersInv
  <2>2. ASSUME NEW x \in Object, leases'[x] > 0 \/ leaked'[x] > 0
        PROVE  x \in alive'
    BY <1>1, <1>2, <1>3, <1>6, <1>9, <2>2 DEF HoldersInv, BridgeTypeOK
  <2>3. QED
    BY <1>1, <1>2, <1>3, <2>1, <2>2 DEF HoldersInv
<1>17. ScriptInv' /\ LeasesHavePaths' /\ PhasesInv'
  BY <1>1, <1>2, ScriptOver DEF BridgeInv, LeasesHavePaths, PhasesInv
<1>18. ASSUME NEW x \in alive'
       PROVE  refs'[x] = Entitled(x)'
  <2>1. Entitled(x)' = Owners(x)' + leases[x] + leaked'[x]
          + Occurrences(x, add_traversal') + Occurrences(x, to_add')
          + Occurrences(UnrefOf(x), todo)
    BY <1>1 DEF Entitled
  <2>2. refs[x] = Entitled(x) /\ x \in Object
    BY <1>2, Accounted
  <2>3. Owners(x)' = Owners(x)
    BY <1>1, <1>15, <2>2 DEF Owners
  <2>4. Occurrences(x, rest) \in Nat
    BY <1>5, OccurrencesType
  <2>5. CASE current \in Transient
    <3>1. /\ refs'[x] = refs[x]
          /\ leaked'[x] = leaked[x] + (IF current = x THEN 1 ELSE 0)
      BY <1>3, <1>5, <1>9, <2>2, <2>5 DEF BridgeTypeOK
    <3>2. /\ Occurrences(x, add_traversal') = Occurrences(x, rest)
          /\ Occurrences(x, to_add') = Occurrences(x, to_add)
      BY <1>9, <2>5
    <3>3. QED
      BY <1>3, <1>8, <2>1, <2>2, <2>3, <2>4, <3>1, <3>2, PartsType DEF Entitled
  <2>6. CASE current \notin Transient
    <3>1. /\ refs'[x] = refs[x] + (IF x \in ToSet(found) THEN 1 ELSE 0)
          /\ leaked'[x] = leaked[x]
      BY <1>3, <1>9, <2>2, <2>6 DEF BridgeTypeOK
    <3>2. Occurrences(x, found) = IF x \in ToSet(found) THEN 1 ELSE 0
      BY <1>7, OccurrencesOnce
    <3>3. Occurrences(x, rest \o found) = Occurrences(x, rest) + Occurrences(x, found)
      BY <1>5, <1>7, OccurrencesInConcat
    <3>4. Occurrences(x, Append(to_add, current)) =
            Occurrences(x, to_add) + (IF current = x THEN 1 ELSE 0)
      BY <1>4, <1>5, OccurrencesInAppend
    <3>5. /\ add_traversal' = rest \o found
          /\ to_add' = Append(to_add, current)
      BY <1>9, <2>6
    <3>6. /\ Occurrences(x, add_traversal') =
               Occurrences(x, rest) + (IF x \in ToSet(found) THEN 1 ELSE 0)
          /\ Occurrences(x, to_add') =
               Occurrences(x, to_add) + (IF current = x THEN 1 ELSE 0)
      BY <3>2, <3>3, <3>4, <3>5
    <3>7. Occurrences(x, add_traversal) =
            Occurrences(x, rest) + (IF current = x THEN 1 ELSE 0)
      BY <1>8, <2>2
    <3>8. QED
      BY <1>3, <2>1, <2>2, <2>3, <2>4, <3>1, <3>6, <3>7, PartsType DEF Entitled
  <2>7. QED
    BY <2>5, <2>6
<1>19. QED
  BY <1>10, <1>14, <1>15, <1>16, <1>17, <1>18, AccountedNext DEF BridgeInv

\* what the second loop of add_pending_items does for an object
LEMMA ShapedAdded ==
  ASSUME BridgeTypeOK, TreeInv, NEW o \in alive
  PROVE  LET s == Added(o) IN
         /\ s \in Seq(Step) /\ Shaped(s, alive) /\ DropsNone(s)
         /\ listening => /\ [do |-> "reference", obj |-> o] \in ToSet(s)
                         /\ [do |-> "announced", obj |-> o] \in ToSet(s)
         /\ \A x : [do |-> "announced", obj |-> x] \in ToSet(s) => x = o /\ listening
<1>1. PICK about \in SUBSET Object : about = alive /\ o \in about
  BY DEF BridgeTypeOK, RegTypeOK
<1>2. PICK item : item = CacheItem(o)
  OBVIOUS
<1>3. /\ item \in Seq(Step) /\ Shaped(item, about) /\ DropsNone(item)
      /\ [do |-> "reference", obj |-> o] \in ToSet(item)
      /\ \A e \in ToSet(item) : e.do = "reference"
  BY <1>1, <1>2, ShapedCacheItem DEF BridgeTypeOK
<1>4. PICK tell \in Step : /\ do("announced", o) = <<tell>> /\ tell.obj = o
                           /\ tell = [do |-> "announced", obj |-> o]
                           /\ ~Drops(tell) /\ ~Leases(tell)
  BY <1>1, StepNames
<1>5. PICK told : told = Added(o)
  OBVIOUS
<1>6. CASE listening
  <2>1. told = item \o <<tell>>
    BY <1>2, <1>4, <1>5, <1>6 DEF Added
  <2>2. told \in Seq(Step)
    BY <1>3, <2>1, StepsConcat, StepOne
  <2>3. Shaped(told, about) /\ DropsNone(told)
    BY <1>1, <1>3, <1>4, <2>1, ShapedMore, DropsNoneMore
  <2>4. ToSet(told) = ToSet(item) \cup {tell}
    BY <1>3, <2>1, StepAfter
  <2>5. ASSUME NEW x, [do |-> "announced", obj |-> x] \in ToSet(told)
        PROVE  x = o
    <3>1. PICK e : e = [do |-> "announced", obj |-> x]
      OBVIOUS
    <3>2. e.do = "announced" /\ e.obj = x
      BY <3>1
    <3>3. e \in ToSet(item) \/ e = tell
      BY <2>4, <2>5, <3>1
    <3>4. e = tell
      BY <1>3, <3>2, <3>3
    <3>5. QED
      BY <1>4, <3>2, <3>4
  <2>6. /\ [do |-> "reference", obj |-> o] \in ToSet(told)
        /\ [do |-> "announced", obj |-> o] \in ToSet(told)
    BY <1>3, <1>4, <2>4
  <2>7. QED
    BY <1>1, <1>5, <1>6, <2>2, <2>3, <2>5, <2>6, Zenon
<1>7. CASE ~listening
  <2>1. told = <<>>
    BY <1>5, <1>7 DEF Added
  <2>2. DOMAIN told = {}
    BY ONLY <2>1
  <2>3. <<>> \in Seq(Step)
    OBVIOUS
  <2>4. told \in Seq(Step) /\ Shaped(told, about) /\ DropsNone(told) /\ ToSet(told) = {}
    BY <2>1, <2>2, <2>3 DEF Shaped, DropsNone, ToSet
  <2>5. QED
    BY <1>1, <1>5, <1>7, <2>4, Zenon
<1>8. QED
  BY <1>6, <1>7

LEMMA InsertKeeps ==
  ASSUME BridgeInv, Insert
  PROVE  BridgeInv'
<1> DEFINE head == Head(to_add)
<1>1. /\ todo = <<>> /\ Doomed = {} /\ AddHead /\ cpc = "add" /\ cpc' = "announce"
      /\ to_add # <<>>
      /\ todo' = Added(head)
      /\ UNCHANGED <<regVars, children, add_traversal, to_add, listening>>
      /\ UNCHANGED <<refs, held, leases, leaked, view>>
  BY DEF Insert, Quiet, AddHead
<1>2. alive' = alive /\ dbus_id' = dbus_id /\ children' = children
  BY <1>1 DEF regVars
<1>3. BridgeTypeOK /\ TreeInv /\ HoldersInv
  BY DEF BridgeInv
<1>4. to_add \in Seq(Object)
  BY <1>3 DEF BridgeTypeOK, CacheTypeOK
<1>5. head \in ToSet(to_add)
  BY <1>1, <1>4, ElementsOfTail
<1> HIDE DEF head
<1>6. head \in alive
  BY <1>3, <1>4, <1>5 DEF HoldersInv, Queued, ToSet
<1>7. todo' \in Seq(Step) /\ Shaped(todo', alive') /\ DropsNone(todo')
  <2>1. PICK s : s = Added(head)
    OBVIOUS
  <2>2. s \in Seq(Step) /\ Shaped(s, alive) /\ DropsNone(s)
    BY <1>3, <1>6, <2>1, ShapedAdded
  <2>3. QED
    BY <1>1, <1>2, <2>1, <2>2
<1>8. RegIndInv' /\ RegTypeOK'
  BY RegisterKept DEF BridgeNext, Bridge
<1>9. CacheTypeOK'
  BY <1>1, <1>3, CacheTypeStep DEF BridgeTypeOK, CacheNext, AddPendingItems
<1>10. BridgeTypeOK'
  BY <1>1, <1>3, <1>7, <1>8, <1>9 DEF BridgeTypeOK
<1>11. TreeInv' /\ \A x \in Object : Attached(x)' <=> Attached(x)
  BY <1>2, <1>3, TreeKept
<1>12. HoldersInv' /\ LeasesHavePaths' /\ PhasesInv'
  BY <1>1, <1>2 DEF BridgeInv, HoldersInv, Queued, LeasesHavePaths, PhasesInv
<1>13. ScriptInv'
  <2>1. \A x \in alive' : refs'[x] # 0
    BY <1>1, <1>2, NoneDoomed
  <2>2. QED
    BY <1>7, <2>1, ScriptStarts
<1>14. ASSUME NEW x \in alive'
       PROVE  refs'[x] = Entitled(x)'
  <2>1. Entitled(x)' = Owners(x)' + leases[x] + leaked[x]
          + Occurrences(x, add_traversal) + Occurrences(x, to_add)
          + Occurrences(UnrefOf(x), todo')
    BY <1>1 DEF Entitled
  <2>2. refs[x] = Entitled(x) /\ x \in Object
    BY <1>2, Accounted
  <2>3. Owners(x)' = Owners(x) /\ refs'[x] = refs[x]
    BY <1>1, <1>11, <2>2 DEF Owners
  <2>4. Occurrences(UnrefOf(x), todo') = 0 /\ Occurrences(UnrefOf(x), todo) = 0
    BY <1>1, <1>7, CountNone, OccurrencesInNone
  <2>5. QED
    BY <2>1, <2>2, <2>3, <2>4 DEF Entitled
<1>15. QED
  BY <1>8, <1>10, <1>11, <1>12, <1>13, <1>14, AccountedNext DEF BridgeInv

\* The reference that to_add held is given back.
LEMMA ReleaseKeeps ==
  ASSUME BridgeInv, Release
  PROVE  BridgeInv'
<1>1. PICK head : head = Head(to_add)
  OBVIOUS
<1>2. /\ todo = <<>> /\ cpc = "announce" /\ cpc' = "add"
      /\ HeadReleased /\ to_add # <<>> /\ to_add' = Tail(to_add)
      /\ refs' = [refs EXCEPT ![head] = refs[head] + -1]
      /\ UNCHANGED <<regVars, children, objects, add_traversal, listening>>
      /\ UNCHANGED <<held, leases, leaked, todo, view>>
  BY <1>1 DEF Release, Quiet, HeadReleased, Released, Plus
<1>3. alive' = alive /\ dbus_id' = dbus_id /\ children' = children /\ todo' = <<>>
  BY <1>2 DEF regVars
<1>4. BridgeTypeOK /\ TreeInv /\ HoldersInv
  BY DEF BridgeInv
<1>5. to_add \in Seq(Object)
  BY <1>4 DEF BridgeTypeOK, CacheTypeOK
<1>6. head \in Object /\ ToSet(to_add) = ToSet(to_add') \cup {head}
  BY <1>1, <1>2, <1>5, ElementsOfTail
<1>7. \A x \in Object :
        Occurrences(x, to_add) = Occurrences(x, to_add') + (IF head = x THEN 1 ELSE 0)
  BY <1>1, <1>2, <1>5, OccurrencesInTail
<1>8. RegIndInv' /\ RegTypeOK'
  BY RegisterKept DEF BridgeNext, Bridge
<1>9. CacheTypeOK'
  BY <1>2, <1>4, CacheTypeStep DEF BridgeTypeOK, CacheNext, AddPendingItems
<1>10. \A x \in Object : Occurrences(x, to_add') \in Nat
  BY <1>9, OccurrencesType DEF CacheTypeOK
<1>11. refs[head] \in Nat \ {0}
  <2>1. head \in alive /\ refs[head] = Entitled(head)
    BY <1>4, <1>6, Accounted DEF HoldersInv, Queued
  <2>2. Occurrences(head, to_add) \in Nat \ {0}
    BY <1>6, <1>7, <1>10
  <2>3. /\ Owners(head) \in Nat /\ leases[head] \in Nat /\ leaked[head] \in Nat
        /\ Occurrences(head, add_traversal) \in Nat
        /\ Occurrences(UnrefOf(head), todo) \in Nat
    BY <1>4, <1>6, PartsType
  <2>4. PICK a \in Nat, b \in Nat, c \in Nat, d \in Nat, e \in Nat \ {0}, f \in Nat :
          /\ a = Owners(head) /\ b = leases[head] /\ c = leaked[head]
          /\ d = Occurrences(head, add_traversal) /\ e = Occurrences(head, to_add)
          /\ f = Occurrences(UnrefOf(head), todo)
    BY <2>2, <2>3
  <2>5. refs[head] = a + b + c + d + e + f
    BY <2>1, <2>4 DEF Entitled
  <2>6. QED
    BY <2>5
<1>12. BridgeTypeOK'
  <2>1. refs' \in [Object -> Nat]
    <3>1. refs[head] + -1 \in Nat
      BY <1>11
    <3>2. refs \in [Object -> Nat]
      BY <1>4 DEF BridgeTypeOK
    <3>3. QED
      BY <1>2, <3>1, <3>2
  <2>2. QED
    BY <1>2, <1>3, <1>4, <1>8, <1>9, <2>1 DEF BridgeTypeOK
<1>13. TreeInv' /\ \A x \in Object : Attached(x)' <=> Attached(x)
  BY <1>3, <1>4, TreeKept
<1>14. HoldersInv' /\ LeasesHavePaths' /\ PhasesInv'
  BY <1>2, <1>3, <1>6 DEF BridgeInv, HoldersInv, Queued, LeasesHavePaths, PhasesInv
<1>15. ScriptInv'
  BY <1>3, ScriptOver
<1>16. ASSUME NEW x \in alive'
       PROVE  refs'[x] = Entitled(x)'
  <2>1. refs[x] = Entitled(x) /\ x \in Object
    BY <1>3, Accounted
  <2>2. Owners(x)' = Owners(x)
    BY <1>2, <1>13, <2>1 DEF Owners
  <2>3. refs'[x] = IF x = head THEN refs[x] - 1 ELSE refs[x]
    BY <1>2, <1>4, <1>6, <2>1 DEF BridgeTypeOK
  <2>4. Entitled(x)' = Owners(x) + leases[x] + leaked[x]
          + Occurrences(x, add_traversal) + Occurrences(x, to_add')
          + Occurrences(UnrefOf(x), todo)
    BY <1>2, <2>2 DEF Entitled
  <2>5. /\ Occurrences(x, to_add) = Occurrences(x, to_add') + (IF head = x THEN 1 ELSE 0)
        /\ Occurrences(x, to_add') \in Nat
    BY <1>7, <1>10, <2>1
  <2>6. QED
    BY <1>4, <2>1, <2>3, <2>4, <2>5, PartsType DEF Entitled
<1>17. QED
  BY <1>8, <1>12, <1>13, <1>14, <1>15, <1>16, AccountedNext DEF BridgeInv

-----------------------------------------------------------------------------
(* One step of a handler *)

\* making a path gives the object one and takes none away
LEMMA PathIsGiven ==
  ASSUME RegTypeOK, NEW o \in Object, ObjectToPath(o)
  PROVE  /\ o = Root \/ dbus_id'[o] # 0
         /\ \A x \in Object : dbus_id[x] # 0 => dbus_id'[x] # 0
         /\ alive' = alive /\ gen' = gen
<1>1. CASE o # Root /\ dbus_id[o] = 0
  <2>1. PICK ref : ref = NextReference(reference_counter)
    OBVIOUS
  <2>2. ref # 0
    BY <2>1, NextReferenceRange DEF RegTypeOK, Ref
  <2>3. dbus_id' = [dbus_id EXCEPT ![o] = ref]
    BY <1>1, <2>1 DEF ObjectToPath, RegisterObject
  <2>4. QED
    BY <2>2, <2>3 DEF RegTypeOK, ObjectToPath
<1>2. CASE ~(o # Root /\ dbus_id[o] = 0)
  BY <1>2 DEF ObjectToPath
<1>3. QED
  BY <1>1, <1>2

\* what a step adds to the references and the leases of its object
Adds(e, n) ==
  /\ leases' = [leases EXCEPT ![e.obj] = leases[e.obj] + n]
  /\ refs' = IF Drops(e) THEN [refs EXCEPT ![e.obj] = refs[e.obj] - 1]
             ELSE [refs EXCEPT ![e.obj] = refs[e.obj] + n]
  /\ Drops(e) => n = 0
  /\ n = 1 => e.obj = Root \/ dbus_id'[e.obj] # 0

\* what it makes of paths and announcements
Tells(e) ==
  /\ alive' = alive /\ gen' = gen
  /\ \A x \in Object : dbus_id[x] # 0 => dbus_id'[x] # 0
  /\ Paths(e) \/ e.do = "reference" => e.obj = Root \/ dbus_id'[e.obj] # 0
  /\ view' = IF e.do = "announced" THEN view \cup {<<e.obj, gen[e.obj]>>} ELSE view

LEMMA StepEffect ==
  ASSUME BridgeTypeOK, NEW e \in Step, DoStep(e.do, e.obj),
         Leases(e) => e.obj = Root \/ dbus_id[e.obj] # 0
  PROVE  Tells(e) /\ (Adds(e, 0) \/ Adds(e, 1))
<1>1. /\ e.obj \in Object
      /\ refs \in [Object -> Nat] /\ leases \in [Object -> Nat] /\ RegTypeOK
  BY DEF Step, BridgeTypeOK
<1>2. /\ leases = [leases EXCEPT ![e.obj] = leases[e.obj] + 0]
      /\ refs = [refs EXCEPT ![e.obj] = refs[e.obj] + 0]
  BY <1>1
<1>3. ASSUME leases' = leases, refs' = refs, ~Drops(e)
      PROVE  Adds(e, 0)
  BY <1>2, <1>3 DEF Adds
<1>4. ASSUME LeaseIfNeeded(e.obj), ~Drops(e), e.obj = Root \/ dbus_id'[e.obj] # 0
      PROVE  Adds(e, 0) \/ Adds(e, 1)
  <2>1. CASE e.obj \in objects
    BY <1>3, <1>4, <2>1 DEF LeaseIfNeeded
  <2>2. CASE e.obj \notin objects
    BY <1>4, <2>2 DEF LeaseIfNeeded, Leased, Plus, Adds
  <2>3. QED
    BY <2>1, <2>2
<1>5. ASSUME UNCHANGED regVars
      PROVE  alive' = alive /\ gen' = gen /\ dbus_id' = dbus_id
  BY <1>5 DEF regVars
<1>6. CASE e.do = "path"
  <2>1. ObjectToPath(e.obj) /\ leases' = leases /\ refs' = refs /\ view' = view
    BY <1>6 DEF DoStep
  <2>2. Tells(e)
    BY <1>1, <1>6, <2>1, PathIsGiven DEF Tells
  <2>3. ~Drops(e)
    BY <1>6 DEF Drops
  <2>4. QED
    BY <1>3, <2>1, <2>2, <2>3
<1>7. CASE e.do = "reference"
  <2>1. ObjectToPath(e.obj) /\ LeaseIfNeeded(e.obj) /\ view' = view
    BY <1>7 DEF DoStep
  <2>2. Tells(e) /\ (e.obj = Root \/ dbus_id'[e.obj] # 0)
    BY <1>1, <1>7, <2>1, PathIsGiven DEF Tells
  <2>3. ~Drops(e)
    BY <1>7 DEF Drops
  <2>4. QED
    BY <1>4, <2>1, <2>2, <2>3
<1>8. CASE e.do = "lease" \/ e.do = "maybe lease"
  <2>1. /\ UNCHANGED regVars /\ view' = view
        /\ LeaseIfNeeded(e.obj) \/ (leases' = leases /\ refs' = refs)
    BY <1>8 DEF DoStep
  <2>2. Leases(e) /\ ~Drops(e) /\ ~Paths(e)
    BY <1>8 DEF Leases, Drops, Paths
  <2>3. Tells(e) /\ (e.obj = Root \/ dbus_id'[e.obj] # 0)
    BY <1>5, <1>8, <2>1, <2>2 DEF Tells
  <2>4. QED
    BY <1>3, <1>4, <2>1, <2>2, <2>3
<1>9. CASE e.do = "announced"
  <2>1. /\ UNCHANGED regVars /\ leases' = leases /\ refs' = refs
        /\ view' = view \cup {<<e.obj, gen[e.obj]>>}
    BY <1>9 DEF DoStep
  <2>2. ~Drops(e) /\ ~Paths(e)
    BY <1>9 DEF Drops, Paths
  <2>3. Tells(e)
    BY <1>5, <1>9, <2>1, <2>2 DEF Tells
  <2>4. QED
    BY <1>3, <2>1, <2>2, <2>3
<1>10. CASE e.do = "unref"
  <2>1. /\ UNCHANGED regVars /\ leases' = leases /\ view' = view
        /\ refs' = Plus(refs, e.obj, -1)
    BY <1>10 DEF DoStep
  <2>2. refs' = [refs EXCEPT ![e.obj] = refs[e.obj] - 1]
    BY <1>1, <2>1 DEF Plus
  <2>3. Drops(e) /\ ~Paths(e)
    BY <1>10 DEF Drops, Paths
  <2>4. Tells(e)
    BY <1>5, <1>10, <2>1, <2>3 DEF Tells
  <2>5. Adds(e, 0)
    <3>1. leases' = [leases EXCEPT ![e.obj] = leases[e.obj] + 0]
      BY <1>2, <2>1
    <3>2. 0 # 1
      OBVIOUS
    <3>3. QED
      BY <2>2, <2>3, <3>1, <3>2, Zenon DEF Adds
  <2>6. QED
    BY <2>4, <2>5
<1>11. \/ e.do = "path" \/ e.do = "reference"
       \/ e.do = "lease" \/ e.do = "maybe lease"
       \/ e.do = "announced" \/ e.do = "unref"
  BY DEF Step
<1>12. QED
  BY <1>6, <1>7, <1>8, <1>9, <1>10, <1>11

\* the only step that drops a reference to x
LEMMA UnrefIsDrop ==
  ASSUME NEW e \in Step, NEW x
  PROVE  e = UnrefOf(x) <=> Drops(e) /\ e.obj = x
<1>1. e = [do |-> e.do, obj |-> e.obj]
  BY DEF Step
<1>2. PICK u : u = UnrefOf(x)
  OBVIOUS
<1>3. u.do = "unref" /\ u.obj = x /\ u = [do |-> "unref", obj |-> x]
  BY <1>2 DEF UnrefOf
<1>4. ASSUME Drops(e), e.obj = x PROVE e = u
  BY <1>1, <1>3, <1>4, Zenon DEF Drops
<1>5. ASSUME e = u PROVE Drops(e) /\ e.obj = x
  BY <1>3, <1>5, Zenon DEF Drops
<1>6. QED
  BY <1>2, <1>4, <1>5

\* A handler takes its next step.
LEMMA ContinueKeeps ==
  ASSUME BridgeInv, Continue
  PROVE  BridgeInv'
<1>1. /\ todo # <<>> /\ Doomed = {} /\ DoStep(Head(todo).do, Head(todo).obj)
      /\ todo' = Tail(todo)
      /\ UNCHANGED <<children, objects, add_traversal, to_add, cpc, listening>>
      /\ UNCHANGED <<cacheVars, held, leaked>>
  BY DEF Continue, cacheVars
<1>2. BridgeTypeOK /\ TreeInv /\ HoldersInv /\ ScriptInv
  BY DEF BridgeInv
<1>3. PICK s \in Seq(Step) : s = todo /\ s # <<>>
  BY <1>1, <1>2 DEF BridgeTypeOK
<1>4. PICK next \in Step, rest \in Seq(Step) :
        /\ next = Head(s) /\ rest = Tail(s)
        /\ 1 \in DOMAIN s /\ s[1] = next /\ Len(s) \in Nat
        /\ DOMAIN s = 1 .. Len(s) /\ DOMAIN rest = 1 .. (Len(s) - 1)
        /\ Len(rest) = Len(s) - 1
        /\ \A i \in DOMAIN rest : i + 1 \in DOMAIN s /\ rest[i] = s[i + 1]
  <2>1. Head(s) \in Step /\ Tail(s) \in Seq(Step)
    BY <1>3, ElementsOfTail
  <2>2. PICK next \in Step : next = Head(s)
    BY <2>1
  <2>3. PICK rest \in Seq(Step) : rest = Tail(s)
    BY <2>1
  <2>4. 1 \in DOMAIN s /\ s[1] = next /\ Len(s) \in Nat /\ DOMAIN s = 1 .. Len(s)
    BY <1>3, <2>2
  <2>5. /\ DOMAIN rest = 1 .. (Len(s) - 1) /\ Len(rest) = Len(s) - 1
        /\ \A i \in DOMAIN rest : i + 1 \in DOMAIN s /\ rest[i] = s[i + 1]
    BY <1>3, <2>3
  <2>6. QED
    BY <2>2, <2>3, <2>4, <2>5
<1>5. \A x : Occurrences(UnrefOf(x), todo) =
               Occurrences(UnrefOf(x), rest) + (IF next = UnrefOf(x) THEN 1 ELSE 0)
  BY <1>3, <1>4, OccurrencesInTail
<1>0. DoStep(next.do, next.obj) /\ todo' = rest
  BY <1>1, <1>3, <1>4
<1>6. next.obj \in Object /\ next.obj \in alive
  <2>1. next.obj \in Object
    BY <1>4 DEF Step
  <2>2. s[1].obj \in alive
    BY <1>2, <1>3, <1>4 DEF ScriptInv
  <2>3. QED
    BY <1>4, <2>1, <2>2
<1>7. Leases(next) => next.obj = Root \/ dbus_id[next.obj] # 0
  <2>1. Leases(s[1]) => HasPathBy(s, 1)
    BY <1>2, <1>3, <1>4 DEF ScriptInv
  <2>2. 1 .. (1 - 1) = {}
    OBVIOUS
  <2>3. QED
    BY <1>4, <2>1, <2>2 DEF HasPathBy
<1>8. Tells(next) /\ (Adds(next, 0) \/ Adds(next, 1))
  BY <1>0, <1>2, <1>4, <1>7, StepEffect
<1>9. /\ alive' = alive
      /\ \A x \in Object : dbus_id[x] # 0 => dbus_id'[x] # 0
      /\ Paths(next) => next.obj = Root \/ dbus_id'[next.obj] # 0
      /\ view' \in SUBSET Life
  <2>1. <<next.obj, gen[next.obj]>> \in Life
    BY <1>2, <1>6 DEF BridgeTypeOK, RegTypeOK, Life
  <2>2. view \in SUBSET Life
    BY <1>2 DEF BridgeTypeOK
  <2>3. QED
    BY <1>8, <2>1, <2>2 DEF Tells
<1>10. PICK n \in {0, 1} : Adds(next, n)
  BY <1>8
<1>11. Drops(next) => refs[next.obj] \in Nat \ {0}
  BY <1>1, <1>2, <1>6, PartsType, NoneDoomed
<1>12. /\ refs \in [Object -> Nat] /\ leases \in [Object -> Nat]
       /\ n \in Nat
  BY <1>2 DEF BridgeTypeOK
<1>13. /\ refs' \in [Object -> Nat] /\ leases' \in [Object -> Nat]
       /\ \A x \in Object :
            /\ leases'[x] = IF x = next.obj THEN leases[x] + n ELSE leases[x]
            /\ x # next.obj => refs'[x] = refs[x]
       /\ Drops(next) => n = 0 /\ refs'[next.obj] = refs[next.obj] - 1
       /\ ~Drops(next) => refs'[next.obj] = refs[next.obj] + n
       /\ n # 0 => next.obj = Root \/ dbus_id'[next.obj] # 0
  <2>1. /\ leases' = [leases EXCEPT ![next.obj] = leases[next.obj] + n]
        /\ n # 0 => next.obj = Root \/ dbus_id'[next.obj] # 0
    BY <1>10 DEF Adds
  <2>2. CASE Drops(next)
    <3>1. n = 0 /\ refs' = [refs EXCEPT ![next.obj] = refs[next.obj] - 1]
      BY <1>10, <2>2 DEF Adds
    <3>2. QED
      BY <1>6, <1>11, <1>12, <2>1, <2>2, <3>1
  <2>3. CASE ~Drops(next)
    <3>1. refs' = [refs EXCEPT ![next.obj] = refs[next.obj] + n]
      BY <1>10, <2>3 DEF Adds
    <3>2. QED
      BY <1>6, <1>12, <2>1, <2>3, <3>1
  <2>4. QED
    BY <2>2, <2>3
<1>14. RegIndInv' /\ RegTypeOK'
  BY RegisterKept DEF BridgeNext, Bridge
<1>15. CacheTypeOK'
  BY <1>1, <1>2, CacheTypeStep DEF BridgeTypeOK
<1>16. BridgeTypeOK'
  BY <1>0, <1>1, <1>2, <1>4, <1>9, <1>13, <1>14, <1>15 DEF BridgeTypeOK
<1>17. TreeInv' /\ \A x \in Object : Attached(x)' <=> Attached(x)
  BY <1>1, <1>2, <1>9, TreeKept
<1>18. HoldersInv' /\ PhasesInv'
  <2>1. \A x \in Object : leases'[x] > 0 => x \in alive
    BY <1>2, <1>6, <1>13 DEF HoldersInv
  <2>2. QED
    BY <1>1, <1>2, <1>9, <2>1 DEF HoldersInv, Queued, BridgeInv, PhasesInv
<1>19. LeasesHavePaths'
  <2> SUFFICES ASSUME NEW x \in Object \ {Root}, leases'[x] > 0 PROVE dbus_id'[x] # 0
    BY DEF LeasesHavePaths
  <2>1. CASE leases[x] > 0
    BY <1>9, <2>1 DEF BridgeInv, LeasesHavePaths
  <2>2. CASE ~(leases[x] > 0)
    <3>1. x = next.obj /\ n # 0
      BY <1>12, <1>13, <2>2
    <3>2. QED
      BY <1>13, <3>1
  <2>3. QED
    BY <2>1, <2>2
<1>20. ScriptInv'
  <2>1. ASSUME todo' # <<>>
        PROVE  Doomed' = {}
    <3>1. ~Drops(next)
      <4>1. Drops(s[1]) => 1 = Len(s)
        BY <1>2, <1>3, <1>4 DEF ScriptInv
      <4>2. Len(rest) = 0 => rest = <<>>
        BY <1>4
      <4>3. QED
        BY <1>0, <1>4, <2>1, <4>1, <4>2
    <3>2. \A x \in alive : refs'[x] # 0
      <4>1. ASSUME NEW x \in alive PROVE refs'[x] # 0
        <5>1. x \in Object /\ refs[x] # 0
          BY <1>1, <1>2, NoneDoomed DEF BridgeTypeOK, RegTypeOK
        <5>2. QED
          BY <1>12, <1>13, <3>1, <5>1
      <4>2. QED
        BY <4>1
    <3>3. QED
      BY <1>9, <3>2 DEF Doomed
  <2>2. ASSUME NEW i \in DOMAIN rest
        PROVE  /\ rest[i].obj \in alive'
               /\ Drops(rest[i]) => i = Len(rest)
               /\ Leases(rest[i]) => HasPathBy(rest, i)'
    <3>1. i + 1 \in DOMAIN s /\ rest[i] = s[i + 1] /\ i \in Nat
      BY <1>4
    <3>2. /\ s[i + 1].obj \in alive
          /\ Drops(s[i + 1]) => i + 1 = Len(s)
          /\ Leases(s[i + 1]) => HasPathBy(s, i + 1)
      BY <1>2, <1>3, <3>1 DEF ScriptInv
    <3>3. ASSUME HasPathBy(s, i + 1)
          PROVE  HasPathBy(rest, i)'
      <4>1. CASE rest[i].obj = Root
        BY <4>1 DEF HasPathBy
      <4>2. CASE dbus_id[rest[i].obj] # 0
        <5>1. rest[i] \in Step
          OBVIOUS
        <5>2. rest[i].obj \in Object
          BY <5>1 DEF Step
        <5>3. QED
          BY <1>9, <4>2, <5>2 DEF HasPathBy
      <4>3. ASSUME NEW j \in 1 .. i, Paths(s[j]), s[j].obj = rest[i].obj
            PROVE  HasPathBy(rest, i)'
        <5>1. CASE j = 1
          <6>1. Paths(next) /\ next.obj = rest[i].obj
            BY <1>4, <4>3, <5>1
          <6>2. QED
            BY <1>9, <6>1 DEF HasPathBy
        <5>2. CASE j # 1
          <6>1. j - 1 \in DOMAIN rest /\ j - 1 \in 1 .. (i - 1) /\ (j - 1) + 1 = j
            BY <1>4, <3>1, <5>2
          <6>2. rest[j - 1] = s[j]
            BY <1>4, <6>1
          <6>3. Paths(rest[j - 1]) /\ rest[j - 1].obj = rest[i].obj
            BY <4>3, <6>2
          <6>4. QED
            BY <6>1, <6>3 DEF HasPathBy
        <5>3. QED
          BY <5>1, <5>2
      <4>4. i = (i + 1) - 1
        BY <3>1
      <4>5. QED
        BY <3>1, <3>3, <4>1, <4>2, <4>3, <4>4 DEF HasPathBy
    <3>4. QED
      BY <1>4, <1>9, <3>1, <3>2, <3>3
  <2>3. QED
    BY <1>0, <2>1, <2>2 DEF ScriptInv
<1>21. ASSUME NEW x \in alive'
       PROVE  refs'[x] = Entitled(x)'
  <2>1. Entitled(x)' = Owners(x)' + leases'[x] + leaked[x]
          + Occurrences(x, add_traversal) + Occurrences(x, to_add)
          + Occurrences(UnrefOf(x), rest)
    BY <1>0, <1>1 DEF Entitled
  <2>2. refs[x] = Entitled(x) /\ x \in Object
    BY <1>9, Accounted
  <2>3. Owners(x)' = Owners(x)
    BY <1>1, <1>17, <2>2 DEF Owners
  <2>4. Occurrences(UnrefOf(x), todo) =
          Occurrences(UnrefOf(x), rest) + (IF Drops(next) /\ next.obj = x THEN 1 ELSE 0)
    BY <1>4, <1>5, UnrefIsDrop
  <2>5. Occurrences(UnrefOf(x), rest) \in Nat
    BY <1>4, OccurrencesType
  <2>6. refs[x] = Owners(x) + leases[x] + leaked[x]
          + Occurrences(x, add_traversal) + Occurrences(x, to_add)
          + Occurrences(UnrefOf(x), todo)
    BY <2>2 DEF Entitled
  <2>7. /\ Owners(x) \in Nat /\ leases[x] \in Nat /\ leaked[x] \in Nat
        /\ Occurrences(x, add_traversal) \in Nat /\ Occurrences(x, to_add) \in Nat
    BY <1>2, <2>2, PartsType
  <2>8. PICK own \in Nat : own = Owners(x)
    BY <2>7
  <2>9. PICK lent \in Nat : lent = leases[x]
    BY <2>7
  <2>10. PICK gone \in Nat : gone = leaked[x]
    BY <2>7
  <2>11. PICK walked \in Nat : walked = Occurrences(x, add_traversal)
    BY <2>7
  <2>12. PICK queued \in Nat : queued = Occurrences(x, to_add)
    BY <2>7
  <2>13. PICK owed \in Nat : owed = Occurrences(UnrefOf(x), rest)
    BY <2>5
  <2>14. refs[x] = own + lent + gone + walked + queued + Occurrences(UnrefOf(x), todo)
    BY ONLY <2>6, <2>8, <2>9, <2>10, <2>11, <2>12, Zenon
  <2>15. Entitled(x)' = own + leases'[x] + gone + walked + queued + owed
    BY ONLY <2>1, <2>3, <2>8, <2>10, <2>11, <2>12, <2>13, Zenon
  <2>16. CASE Drops(next) /\ next.obj = x
    <3>1. refs[x] = own + lent + gone + walked + queued + (owed + 1)
      BY <2>4, <2>13, <2>14, <2>16
    <3>2. refs'[x] = refs[x] - 1 /\ leases'[x] = lent
      BY <1>12, <1>13, <2>2, <2>9, <2>16
    <3>3. QED
      BY ONLY <2>15, <3>1, <3>2,
              own \in Nat, lent \in Nat, gone \in Nat, walked \in Nat, queued \in Nat, owed \in Nat
  <2>17. CASE ~Drops(next) \/ next.obj # x
    <3>1. PICK m \in Nat : m = IF x = next.obj THEN n ELSE 0
      BY <1>12
    <3>2. refs'[x] = refs[x] + m
      BY <1>12, <1>13, <2>2, <2>17, <3>1
    <3>3. leases'[x] = lent + m
      BY <1>12, <1>13, <2>2, <2>9, <3>1
    <3>4. Occurrences(UnrefOf(x), todo) = owed
      BY <2>4, <2>13, <2>17
    <3>5. PICK others \in Nat : others = gone + walked + queued + owed
      OBVIOUS
    <3>6. refs[x] = own + lent + others
      BY <2>14, <3>4, <3>5
    <3>7. Entitled(x)' = own + (lent + m) + others
      BY <2>15, <3>3, <3>5
    <3>8. QED
      BY <3>2, <3>6, <3>7
  <2>18. QED
    BY <2>16, <2>17
<1>22. QED
  BY <1>14, <1>16, <1>17, <1>18, <1>19, <1>20, <1>21, AccountedNext DEF BridgeInv

-----------------------------------------------------------------------------
\* Nobody has a claim on an object whose last reference is gone.
LEMMA DoomedUnclaimed ==
  ASSUME BridgeInv, NEW o \in Doomed
  PROVE  /\ o \in alive /\ o \in Object /\ todo = <<>> /\ o # Root
         /\ o \notin held /\ ~Attached(o) /\ ~Queued(o)
         /\ leases[o] = 0 /\ leaked[o] = 0
<1>1. BridgeTypeOK /\ HoldersInv /\ ScriptInv
  BY DEF BridgeInv
<1>2. o \in alive /\ refs[o] = 0 /\ o \in Object
  BY Accounted DEF Doomed
<1>3. todo = <<>>
  <2>1. todo # <<>> => Doomed = {}
    BY <1>1, Zenon DEF ScriptInv
  <2>2. QED
    BY <2>1
<1>4. Entitled(o) = 0
  BY <1>2, Accounted
<1>5. /\ Owners(o) = 0 /\ leases[o] = 0 /\ leaked[o] = 0
      /\ Occurrences(o, add_traversal) = 0 /\ Occurrences(o, to_add) = 0
  <2>1. /\ Owners(o) \in Nat /\ leases[o] \in Nat /\ leaked[o] \in Nat
        /\ Occurrences(o, add_traversal) \in Nat /\ Occurrences(o, to_add) \in Nat
        /\ Occurrences(UnrefOf(o), todo) \in Nat
    BY <1>1, <1>2, PartsType
  <2>2. Owners(o) + leases[o] + leaked[o] + Occurrences(o, add_traversal)
          + Occurrences(o, to_add) + Occurrences(UnrefOf(o), todo) = 0
    BY <1>4 DEF Entitled
  <2>3. PICK a \in Nat, b \in Nat, c \in Nat, d \in Nat, e \in Nat, f \in Nat :
          /\ a = Owners(o) /\ b = leases[o] /\ c = leaked[o]
          /\ d = Occurrences(o, add_traversal) /\ e = Occurrences(o, to_add)
          /\ f = Occurrences(UnrefOf(o), todo)
    BY <2>1
  <2>4. a + b + c + d + e + f = 0
    BY <2>2, <2>3
  <2>5. a = 0 /\ b = 0 /\ c = 0 /\ d = 0 /\ e = 0
    BY <2>4
  <2>6. QED
    BY <2>3, <2>5
<1>6. ~InUse(o)
  BY <1>5, OwnersType
<1>7. ~Queued(o)
  BY <1>1, <1>5, OccurrencesType DEF Queued, BridgeTypeOK, CacheTypeOK
<1>8. o # Root
  BY <1>1, <1>6 DEF InUse, HoldersInv
<1>9. QED
  BY <1>2, <1>3, <1>5, <1>6, <1>7, <1>8 DEF InUse

\* What a dead object had for children has no parent any more.
LEMMA DiesTree ==
  ASSUME TreeInv, CacheTypeOK, NEW o \in Object, ~Attached(o),
         alive' = alive \ {o}, children' = [children EXCEPT ![o] = <<>>]
  PROVE  TreeInv' /\ \A x \in Object : Attached(x)' <=> Attached(x) /\ x \notin ToSet(children[o])
<1>1. /\ children'[o] = <<>>
      /\ \A q \in Object \ {o} : children'[q] = children[q]
  BY DEF CacheTypeOK
<1>2. DOMAIN <<>> = {} /\ ToSet(<<>>) = {}
  BY DEF ToSet
<1>3. \A q \in Object : \A i \in DOMAIN children'[q] :
        q # o /\ children'[q] = children[q] /\ i \in DOMAIN children[q]
  BY <1>1, <1>2
<1>4. ASSUME NEW x \in Object
      PROVE  Attached(x)' <=> Attached(x) /\ x \notin ToSet(children[o])
  <2>1. ASSUME Attached(x)'
        PROVE  Attached(x) /\ x \notin ToSet(children[o])
    <3>1. PICK q \in Object : \E i \in DOMAIN children'[q] : children'[q][i] = x
      BY <2>1 DEF Attached, ToSet
    <3>2. q # o /\ \E i \in DOMAIN children[q] : children[q][i] = x
      BY <1>3, <3>1
    <3>3. Attached(x)
      BY <3>2 DEF Attached, ToSet
    <3>4. x \notin ToSet(children[o])
      BY <3>2 DEF ToSet, TreeInv
    <3>5. QED
      BY <3>3, <3>4
  <2>2. ASSUME Attached(x), x \notin ToSet(children[o])
        PROVE  Attached(x)'
    <3>1. PICK q \in Object : x \in ToSet(children[q])
      BY <2>2 DEF Attached
    <3>2. x \in ToSet(children'[q])
      BY <1>1, <2>2, <3>1
    <3>3. QED
      BY <3>2 DEF Attached
  <2>3. QED
    BY <2>1, <2>2
<1>5. \A p, q \in Object : \A i \in DOMAIN children'[p], j \in DOMAIN children'[q] :
        children'[p][i] = children'[q][j] => p = q /\ i = j
  BY <1>3 DEF TreeInv
<1>6. \A q \in Object : children'[q] # <<>> => q \in alive'
  BY <1>1 DEF TreeInv
<1>7. \A x \in Object : Attached(x)' => x \in alive'
  BY <1>4 DEF TreeInv
<1>8. QED
  BY <1>4, <1>5, <1>6, <1>7, CacheAssumption DEF TreeInv

LEMMA DiesKeeps ==
  ASSUME BridgeInv, NEW o \in Object, Dies(o)
  PROVE  BridgeInv'
<1>1. /\ o \in Doomed /\ Destroy(o)
      /\ objects' = ForgottenByCache(o) /\ unwatched' = unwatched \cap objects'
      /\ view' \subseteq view
      /\ children' = [children EXCEPT ![o] = <<>>]
      /\ refs' = [c \in Object |->
                    IF c \in ToSet(children[o]) THEN refs[c] - 1 ELSE refs[c]]
      /\ UNCHANGED <<add_traversal, to_add, add_pending_idle, cpc, listening>>
      /\ UNCHANGED <<held, leaked, todo>>
  BY DEF Dies
<1>0. leases' = leases
  <2>1. LeasedInRemoval(o) = 0
    BY DEF LeasedInRemoval, CachedInRemoval
  <2>2. leases \in [Object -> Nat]
    BY DEF BridgeInv, BridgeTypeOK
  <2>3. leases' = Plus(leases, o, LeasedInRemoval(o))
    BY DEF Dies
  <2>4. QED
    BY <2>1, <2>2, <2>3 DEF Plus
<1>2. /\ o \in alive /\ todo = <<>> /\ o # Root
      /\ o \notin held /\ ~Attached(o) /\ ~Queued(o)
      /\ leases[o] = 0 /\ leaked[o] = 0
  BY <1>1, DoomedUnclaimed
<1>3. alive' = alive \ {o} /\ dbus_id' = dbus_id
  BY <1>1 DEF Destroy
<1>4. BridgeTypeOK /\ TreeInv /\ HoldersInv
  BY DEF BridgeInv
<1>5. RegIndInv' /\ RegTypeOK'
  BY RegisterKept DEF BridgeNext, Bridge
<1>6. CacheTypeOK'
  <2>1. objects' \subseteq objects
    BY <1>1 DEF ForgottenByCache
  <2>2. <<>> \in Seq(Object)
    OBVIOUS
  <2>3. children' \in [Object -> Seq(Object)]
    BY <1>0, <1>1, <1>4, <2>2 DEF BridgeTypeOK, CacheTypeOK
  <2>4. QED
    BY <1>0, <1>1, <1>4, <2>1, <2>3 DEF BridgeTypeOK, CacheTypeOK
<1>7. ASSUME NEW c \in Object, c \in ToSet(children[o])
      PROVE  Attached(c) /\ c \in alive /\ refs[c] \in Nat \ {0}
  <2>1. Attached(c)
    BY <1>7 DEF Attached
  <2>2. c \in alive
    BY <1>4, <2>1 DEF TreeInv
  <2>3. refs[c] = Entitled(c) /\ Owners(c) > 0
    BY <2>1, <2>2, Accounted, OwnersType DEF InUse
  <2>4. QED
    BY <1>4, <2>1, <2>2, <2>3, PartsType DEF Entitled
<1>8. refs' \in [Object -> Nat]
  BY <1>0, <1>1, <1>4, <1>7 DEF BridgeTypeOK
<1>9. BridgeTypeOK'
  BY <1>0, <1>1, <1>4, <1>5, <1>6, <1>8 DEF BridgeTypeOK
<1>10. TreeInv' /\ \A x \in Object :
                     Attached(x)' <=> Attached(x) /\ x \notin ToSet(children[o])
  BY <1>0, <1>1, <1>2, <1>3, <1>4, DiesTree DEF BridgeTypeOK
<1>11. HoldersInv'
  <2>1. \A x \in Object : Queued(x)' => x \in alive'
    BY <1>0, <1>1, <1>2, <1>3, <1>4 DEF HoldersInv, Queued
  <2>2. \A x \in Object : leases'[x] > 0 \/ leaked'[x] > 0 => x \in alive'
    BY <1>0, <1>1, <1>2, <1>3, <1>4 DEF HoldersInv
  <2>3. QED
    BY <1>0, <1>1, <1>2, <1>3, <1>4, <2>1, <2>2 DEF HoldersInv
<1>12. ScriptInv'
  BY <1>0, <1>1, <1>2, ScriptOver
<1>13. LeasesHavePaths' /\ PhasesInv'
  BY <1>0, <1>1, <1>3 DEF BridgeInv, LeasesHavePaths, PhasesInv
<1>14. ASSUME NEW x \in alive'
       PROVE  refs'[x] = Entitled(x)'
  <2>1. Entitled(x)' = Owners(x)' + leases[x] + leaked[x]
          + Occurrences(x, add_traversal) + Occurrences(x, to_add)
          + Occurrences(UnrefOf(x), todo)
    BY <1>0, <1>1 DEF Entitled
  <2>2. refs[x] = Entitled(x) /\ x \in Object
    BY <1>3, Accounted
  <2>3. CASE x \in ToSet(children[o])
    <3>1. Attached(x) /\ ~Attached(x)'
      BY <1>7, <1>10, <2>2, <2>3
    <3>2. Owners(x)' = Owners(x) - 1
      BY <1>0, <1>1, <3>1 DEF Owners
    <3>3. refs'[x] = refs[x] - 1
      BY <1>0, <1>1, <2>2, <2>3
    <3>4. Entitled(x)' = (Owners(x) - 1) + leases[x] + leaked[x]
            + Occurrences(x, add_traversal) + Occurrences(x, to_add)
            + Occurrences(UnrefOf(x), todo)
      BY <2>1, <3>2
    <3>5. QED
      BY <1>4, <2>2, <3>3, <3>4, PartsType DEF Entitled
  <2>4. CASE x \notin ToSet(children[o])
    <3>1. Attached(x)' <=> Attached(x)
      BY <1>10, <2>2, <2>4
    <3>2. Owners(x)' = Owners(x)
      BY <1>0, <1>1, <3>1 DEF Owners
    <3>3. refs'[x] = refs[x]
      BY <1>0, <1>1, <2>2, <2>4
    <3>4. QED
      BY <2>1, <2>2, <3>2, <3>3 DEF Entitled
  <2>5. QED
    BY <2>3, <2>4
<1>15. QED
  BY <1>5, <1>9, <1>10, <1>11, <1>12, <1>13, <1>14, AccountedNext DEF BridgeInv

-----------------------------------------------------------------------------
LEMMA BridgeStep ==
  ASSUME BridgeInv, [BridgeNext]_bridgeVars
  PROVE  BridgeInv'
<1>1. ASSUME NEW o \in Object, New(o) \/ Drop(o) \/ Emit(o)
      PROVE  BridgeInv'
  BY <1>1, NewKeeps, DropKeeps, EmitKeeps
<1>2. ASSUME NEW p \in Object, NEW c \in Object, NEW named \in BOOLEAN,
             Adopt(p, c, named) \/ Abandon(p, c, named)
      PROVE  BridgeInv'
  BY <1>2, AdoptKeeps, AbandonKeeps
<1>3. ASSUME NEW p \in Object, NEW c \in Object,
             Signal(p, c) \/ GetChild(p, c) \/ MakeChild(p, c)
      PROVE  BridgeInv'
  BY <1>3, SignalKeeps, GetChildKeeps, MakeChildKeeps
<1>4. CASE Continue \/ Walk \/ Insert \/ Release \/ Turn
  BY <1>4, ContinueKeeps, WalkKeeps, InsertKeeps, ReleaseKeeps, TurnKeeps
<1>5. ASSUME NEW o \in Object, Dies(o) \/ LeaseEnds(o)
      PROVE  BridgeInv'
  BY <1>5, DiesKeeps, LeaseEndsKeeps
<1>6. CASE UNCHANGED bridgeVars
  <2>1. UNCHANGED <<regVars, cacheVars, refs, held, leases, leaked, todo, view>>
    BY <1>6 DEF bridgeVars, ownVars
  <2>2. UNCHANGED <<alive, dbus_id, children, objects, add_traversal, to_add, cpc, listening>>
    BY <2>1 DEF regVars, cacheVars
  <2>3. RegIndInv' /\ RegTypeOK'
    BY RegisterKept
  <2>4. CacheTypeOK'
    BY <2>1, CacheTypeStep DEF BridgeInv, BridgeTypeOK
  <2>5. BridgeTypeOK'
    BY <2>1, <2>3, <2>4 DEF BridgeInv, BridgeTypeOK
  <2>6. TreeInv' /\ HoldersInv' /\ LeasesHavePaths' /\ PhasesInv'
    BY <2>1, <2>2
    DEF BridgeInv, TreeInv, Attached, HoldersInv, Queued, LeasesHavePaths, PhasesInv
  <2>7. ScriptInv'
    BY <2>1, <2>2 DEF BridgeInv, ScriptInv, Doomed, HasPathBy
  <2>8. RefsAccounted'
    BY <2>1, <2>2 DEF BridgeInv, RefsAccounted, Owners, Attached
  <2>9. QED
    BY <2>3, <2>5, <2>6, <2>7, <2>8 DEF BridgeInv
<1>7. QED
  BY <1>1, <1>2, <1>3, <1>4, <1>5, <1>6 DEF BridgeNext, Toolkit, Client, Bridge

-----------------------------------------------------------------------------
(* What holds for any tree the toolkit may have built beforehand *)

(* BridgeInv is an invariant of the bridge at work: whoever has a claim on *)
(* an object exists, and an object has as many references as claims.       *)
THEOREM BridgeInvariant == BridgeSpec => []BridgeInv
<1>1. BridgeInit => BridgeInv
  BY BridgeInitially
<1>2. BridgeInv /\ [BridgeNext]_bridgeVars => BridgeInv'
  BY BridgeStep
<1>3. QED
  BY <1>1, <1>2, PTL DEF BridgeSpec

(* The variables keep their types; in particular no reference count and no *)
(* count of leases drops below zero.                                       *)
THEOREM BridgeTypeCorrect == BridgeSpec => []BridgeTypeOK
<1>1. BridgeInv => BridgeTypeOK
  BY DEF BridgeInv
<1>2. QED
  BY <1>1, BridgeInvariant, PTL

(* Every g_object_ref of the cache, the leases and the event listeners has *)
(* its g_object_unref to come, or is one of the leaks on record.           *)
THEOREM BridgeRefsAccounted == BridgeSpec => []RefsAccounted
<1>1. BridgeInv => RefsAccounted
  BY DEF BridgeInv
<1>2. QED
  BY <1>1, BridgeInvariant, PTL

(* What waits in add_traversal, in to_add, in a lease or in the rest of a  *)
(* handler is never about an object that was destroyed meanwhile.          *)
THEOREM BridgePendingAlive == BridgeSpec => []PendingAreAlive
<1>1. BridgeInv => PendingAreAlive
  <2> SUFFICES ASSUME BridgeInv PROVE PendingAreAlive
    OBVIOUS
  <2>1. BridgeTypeOK /\ HoldersInv /\ ScriptInv
    BY DEF BridgeInv
  <2>2. ToSet(add_traversal) \subseteq Object /\ ToSet(to_add) \subseteq Object
    BY <2>1, SMTT(30), SMTT(30) DEF BridgeTypeOK, CacheTypeOK, ToSet
  <2>3. ToSet(add_traversal) \cup ToSet(to_add) \subseteq alive
    <3>1. ASSUME NEW o \in Object, Queued(o)
          PROVE  o \in alive
      BY <2>1, <3>1 DEF HoldersInv
    <3>2. ASSUME NEW o \in ToSet(add_traversal) \cup ToSet(to_add)
          PROVE  o \in Object /\ Queued(o)
      BY <2>2, Zenon DEF Queued
    <3>3. QED
      BY <3>1, <3>2, Zenon
  <2>4. \A o \in Object : leases[o] > 0 => o \in alive
    BY <2>1 DEF HoldersInv
  <2>5. \A i \in DOMAIN todo : todo[i].obj \in alive
    BY <2>1, Zenon DEF ScriptInv
  <2>6. QED
    BY <2>3, <2>4, <2>5 DEF PendingAreAlive
<1>2. QED
  BY <1>1, BridgeInvariant, PTL

(* A leased object was sent with a path, and the path leads back to it     *)
(* until the register's counter wraps: spi_object_lease_if_needed runs     *)
(* before the path is made in some handlers and after it in others.        *)
THEOREM BridgeLeasedResolve == BridgeSpec => []LeasedResolve
<1>1. BridgeInv => LeasedResolve
  <2> SUFFICES ASSUME BridgeInv, NEW o \in Object, leases[o] > 0, o # Root
               PROVE  /\ dbus_id[o] # 0
                      /\ ~Wrapped => PathToObject(RefToPath(dbus_id[o])) = o
    BY DEF LeasedResolve
  <2>1. dbus_id[o] # 0
    BY DEF BridgeInv, LeasesHavePaths
  <2>2. o \in alive
    BY DEF BridgeInv, HoldersInv
  <2>3. dbus_id[o] \in Ref
    BY <2>1 DEF BridgeInv, BridgeTypeOK, RegTypeOK, Ref
  <2>4. ~Wrapped => ref2ptr[dbus_id[o]] = o
    BY <2>1, <2>2 DEF BridgeInv, RegIndInv, TableAgreesWithData
  <2>5. QED
    BY <2>1, <2>3, <2>4, PathRoundTrip
<1>2. QED
  BY <1>1, BridgeInvariant, PTL

(* The register is only ever used as Register says: what is proved about   *)
(* it alone holds with the cache, the leases and the handlers around it.   *)
THEOREM BridgeImplementsRegister == BridgeSpec => RegSpec
<1>1. BridgeInit => RegInit
  BY DEF BridgeInit
<1>2. BridgeTypeOK /\ [BridgeNext]_bridgeVars => [RegNext]_regVars
  BY BridgeStepReg
<1>3. QED
  BY <1>1, <1>2, BridgeTypeCorrect, PTL DEF BridgeSpec, RegSpec

-----------------------------------------------------------------------------
(* The cache that the bridge keeps, whatever tree it was loaded on *)

Announcement(o) == [do |-> "announced", obj |-> o]
Mentioned(o) == [do |-> "reference", obj |-> o]

\* a script that announces nothing
Silent(s) == \A o : Announcement(o) \notin ToSet(s)

LEMMA SilentNone ==
  Silent(<<>>) /\ \A o : Mentioned(o) \notin ToSet(<<>>)
<1>1. ToSet(<<>>) = {}
  BY DEF ToSet
<1>2. QED
  BY <1>1 DEF Silent

LEMMA SilentOne ==
  ASSUME NEW o \in Object,
         NEW what \in {"path", "reference", "lease", "maybe lease", "announced", "unref"},
         what # "announced"
  PROVE  do(what, o) \in Seq(Step) /\ Silent(do(what, o))
<1>1. PICK e \in Step : do(what, o) = <<e>> /\ e = [do |-> what, obj |-> o]
  <2>1. [do |-> what, obj |-> o] \in Step
    BY DEF Step
  <2>2. do(what, o) = <<[do |-> what, obj |-> o]>>
    BY DEF do
  <2>3. QED
    BY <2>1, <2>2, Zenon
<1>2. e.do # "announced"
  BY <1>1
<1>3. \A x : Announcement(x).do = "announced"
  BY DEF Announcement
<1>4. <<e>> \in Seq(Step) /\ ToSet(<<e>>) = {e}
  BY StepOne DEF ToSet
<1>5. QED
  BY <1>1, <1>2, <1>3, <1>4 DEF Silent

LEMMA SilentMore ==
  ASSUME NEW r \in Seq(Step), NEW s \in Seq(Step), Silent(r), Silent(s)
  PROVE  r \o s \in Seq(Step) /\ Silent(r \o s)
<1>1. ToSet(r \o s) = ToSet(r) \cup ToSet(s)
  BY ElementsOfConcat
<1>2. QED
  BY <1>1, StepsConcat DEF Silent

LEMMA SilentScripts ==
  ASSUME NEW p \in Object, NEW c \in Object
  PROVE  /\ Silent(ChildrenChanged(p, c))
         /\ Silent(ChildrenChanged(p, c) \o do("unref", c))
         /\ Silent(do("path", p) \o do("maybe lease", p) \o do("unref", c))
         /\ Silent(do("path", p) \o do("lease", p))
         /\ Silent(do("reference", c))
         /\ Silent(do("reference", c) \o do("unref", c))
<1>1. PICK path \in Seq(Step), lease \in Seq(Step), maybe \in Seq(Step),
           reference \in Seq(Step), unref \in Seq(Step) :
        /\ path = do("path", p) /\ Silent(path)
        /\ lease = do("lease", p) /\ Silent(lease)
        /\ maybe = do("maybe lease", p) /\ Silent(maybe)
        /\ reference = do("reference", c) /\ Silent(reference)
        /\ unref = do("unref", c) /\ Silent(unref)
  <2>1. /\ do("path", p) \in Seq(Step) /\ Silent(do("path", p))
        /\ do("lease", p) \in Seq(Step) /\ Silent(do("lease", p))
        /\ do("maybe lease", p) \in Seq(Step) /\ Silent(do("maybe lease", p))
        /\ do("reference", c) \in Seq(Step) /\ Silent(do("reference", c))
        /\ do("unref", c) \in Seq(Step) /\ Silent(do("unref", c))
    BY SilentOne
  <2>2. QED
    BY <2>1, Zenon
<1>2. /\ path \o reference \in Seq(Step) /\ Silent(path \o reference)
      /\ path \o maybe \in Seq(Step) /\ Silent(path \o maybe)
  BY <1>1, SilentMore
<1>3. PICK s \in Seq(Step) : s = path \o reference \o maybe /\ Silent(s)
  BY <1>1, <1>2, SilentMore
<1>4. Silent(s \o unref) /\ Silent(path \o maybe \o unref)
      /\ Silent(path \o lease) /\ Silent(reference \o unref)
  BY <1>1, <1>2, <1>3, SilentMore
<1>5. ChildrenChanged(p, c) = s
  BY <1>1, <1>3 DEF ChildrenChanged
<1>6. QED
  BY <1>1, <1>3, <1>4, <1>5

LEMMA CacheInvInitially == BridgeInit => CacheInv
<1> SUFFICES ASSUME BridgeInit PROVE CacheInv
  OBVIOUS
<1>1. /\ objects = {} /\ unwatched = {} /\ view = {} /\ todo = <<>>
      /\ add_traversal = <<Root>> /\ to_add = <<>> /\ listening = FALSE
  BY DEF BridgeInit, CacheInit
<1>2. Known = {}
  BY <1>1 DEF Known
<1>3. BeforeListening
  BY <1>1 DEF BeforeListening
<1>4. \A o : ~Announced(o)
  BY <1>1, SilentNone DEF Announced, Silent, Announcement
<1>5. QED
  BY <1>1, <1>2, <1>3, <1>4 DEF CacheInv, CachedHavePaths, ViewInv

\* While no handler runs, everything cached has a path and is announced.
LEMMA AtRest ==
  ASSUME CacheInv, todo = <<>>
  PROVE  /\ \A o \in Known :
              o \in alive /\ dbus_id[o] # 0 /\ <<o, gen[o]>> \in view
         /\ \A o : ~Announced(o)
<1>1. \A o : ~Announced(o) /\ Mentioned(o) \notin ToSet(todo)
  BY SilentNone DEF Announced, Silent, Announcement
<1>2. QED
  BY <1>1 DEF CacheInv, CachedHavePaths, ViewInv, Mentioned

\* The toolkit or the client has the main loop to itself.
LEMMA LoopKeepsCache ==
  ASSUME BridgeInv, CacheInv, Loop,
         objects' = objects, unwatched' = unwatched, view' = view, listening' = listening,
         ~Queued(Root)',
         \A x \in alive : x \in alive' /\ dbus_id'[x] = dbus_id[x] /\ gen'[x] = gen[x],
         Silent(todo')
  PROVE  CacheInv'
<1>1. listening /\ todo = <<>>
  BY DEF Loop, Quiet, BridgeInv, PhasesInv
<1>2. BeforeListening' /\ Known' = Known
  BY <1>1 DEF CacheInv, BeforeListening, Known
<1>3. \A o \in Known :
        o \in alive /\ dbus_id[o] # 0 /\ <<o, gen[o]>> \in view
  BY <1>1, AtRest
<1>4. CachedHavePaths'
  BY <1>2, <1>3 DEF CachedHavePaths
<1>5. \A o : ~Announced(o)'
  BY DEF Silent, Announced, Announcement
<1>6. \A o \in Known : gen'[o] = gen[o]
  BY <1>3
<1>7. ViewInv'
  BY <1>2, <1>3, <1>5, <1>6 DEF CacheInv, ViewInv
<1>8. QED
  BY <1>2, <1>4, <1>7 DEF CacheInv

\* what New, Drop, Emit and the like leave alone
LEMMA NothingCreated ==
  ASSUME UNCHANGED regVars
  PROVE  \A x \in alive : x \in alive' /\ dbus_id'[x] = dbus_id[x] /\ gen'[x] = gen[x]
BY DEF regVars

LEMMA OneCreated ==
  ASSUME BridgeInv, NEW o \in Object, Create(o)
  PROVE  \A x \in alive : x \in alive' /\ dbus_id'[x] = dbus_id[x] /\ gen'[x] = gen[x]
BY DEF Create, BridgeInv, BridgeTypeOK, RegTypeOK

LEMMA LoopKeepsQueues ==
  ASSUME BridgeInv, CacheInv, Loop
  PROVE  listening /\ todo = <<>> /\ cpc = "main" /\ ~Queued(Root)
BY DEF Loop, Quiet, BridgeInv, PhasesInv, CacheInv, BeforeListening

\* a signal queues its child, which is not the root
LEMMA SignalQueues ==
  ASSUME BridgeInv, CacheInv, Loop, NEW p \in Object, NEW c \in Object,
         ChildAdded(p, c), <<p, c>> \in MayHold, to_add' = to_add
  PROVE  ~Queued(Root)'
<1>1. ToSet(add_traversal') \subseteq ToSet(add_traversal) \cup {c}
  BY LoopKeepsQueues, ChildAddedCounts
<1>2. c # Root
  BY CacheAssumption
<1>3. QED
  BY <1>1, <1>2, LoopKeepsQueues DEF Queued

LEMMA ToolkitKeepsCache ==
  ASSUME BridgeInv, CacheInv, Toolkit
  PROVE  CacheInv'
<1>1. ASSUME NEW o \in Object, New(o)
      PROVE  CacheInv'
  <2>1. Loop /\ Create(o) /\ UNCHANGED cacheVars /\ view' = view /\ todo' = todo
    BY <1>1 DEF New, MayAct
  <2>2. /\ objects' = objects /\ unwatched' = unwatched /\ listening' = listening
        /\ ~Queued(Root)' /\ Silent(todo')
    BY <2>1, LoopKeepsQueues, SilentNone DEF cacheVars, Queued
  <2>3. QED
    BY <2>1, <2>2, OneCreated, LoopKeepsCache
<1>2. ASSUME NEW o \in Object, Drop(o)
      PROVE  CacheInv'
  <2>1. Loop /\ UNCHANGED regVars /\ UNCHANGED cacheVars /\ view' = view /\ todo' = todo
    BY <1>2 DEF Drop, MayAct
  <2>2. /\ objects' = objects /\ unwatched' = unwatched /\ listening' = listening
        /\ ~Queued(Root)' /\ Silent(todo')
    BY <2>1, LoopKeepsQueues, SilentNone DEF cacheVars, Queued
  <2>3. QED
    BY <2>1, <2>2, NothingCreated, LoopKeepsCache
<1>3. ASSUME NEW o \in Object, Emit(o)
      PROVE  CacheInv'
  <2>1. /\ Loop /\ UNCHANGED regVars /\ UNCHANGED cacheVars /\ view' = view
        /\ todo' = do("path", o) \o do("lease", o)
    BY <1>3 DEF Emit, MayAct
  <2>2. /\ objects' = objects /\ unwatched' = unwatched /\ listening' = listening
        /\ ~Queued(Root)' /\ Silent(todo')
    BY <2>1, LoopKeepsQueues, SilentScripts DEF cacheVars, Queued
  <2>3. QED
    BY <2>1, <2>2, NothingCreated, LoopKeepsCache
<1>4. ASSUME NEW p \in Object, NEW c \in Object, NEW named \in BOOLEAN, Adopt(p, c, named)
      PROVE  CacheInv'
  <2>1. /\ Loop /\ UNCHANGED regVars /\ Attach(p, c) /\ view' = view
        /\ todo' = ChildrenChanged(p, c)
    BY <1>4 DEF Adopt, MayAct
  <2>2. /\ objects' = objects /\ unwatched' = unwatched /\ listening' = listening /\ to_add' = to_add
        /\ ChildAdded(p, c) /\ <<p, c>> \in MayHold
    BY <2>1 DEF Attach, SignalPossible
  <2>3. ~Queued(Root)' /\ Silent(todo')
    BY <2>1, <2>2, SignalQueues, SilentScripts
  <2>4. QED
    BY <2>1, <2>2, <2>3, NothingCreated, LoopKeepsCache
<1>5. ASSUME NEW p \in Object, NEW c \in Object, NEW named \in BOOLEAN, Abandon(p, c, named)
      PROVE  CacheInv'
  <2>1. /\ Loop /\ UNCHANGED regVars /\ Detach(p, c) /\ view' = view
        /\ todo' = IF named THEN ChildrenChanged(p, c) \o do("unref", c)
                   ELSE do("path", p) \o do("maybe lease", p) \o do("unref", c)
    BY <1>5 DEF Abandon, MayAct
  <2>2. /\ objects' = objects /\ unwatched' = unwatched /\ listening' = listening
        /\ add_traversal' = add_traversal /\ to_add' = to_add
    BY <2>1 DEF Detach
  <2>3. ~Queued(Root)'
    BY <2>1, <2>2, LoopKeepsQueues DEF Queued
  <2>4. Silent(todo')
    BY <2>1, SilentScripts
  <2>5. QED
    BY <2>1, <2>2, <2>3, <2>4, NothingCreated, LoopKeepsCache
<1>6. ASSUME NEW p \in Object, NEW c \in Object, Signal(p, c)
      PROVE  CacheInv'
  <2>1. /\ Loop /\ Create(c) /\ Mention(p, c) /\ view' = view
        /\ todo' = ChildrenChanged(p, c) \o do("unref", c)
    BY <1>6 DEF Signal, MayAct
  <2>2. /\ objects' = objects /\ unwatched' = unwatched /\ listening' = listening /\ to_add' = to_add
        /\ ChildAdded(p, c) /\ <<p, c>> \in MayHold
    BY <2>1 DEF Mention, SignalPossible
  <2>3. ~Queued(Root)' /\ Silent(todo')
    BY <2>1, <2>2, SignalQueues, SilentScripts
  <2>4. QED
    BY <2>1, <2>2, <2>3, OneCreated, LoopKeepsCache
<1>7. QED
  BY <1>1, <1>2, <1>3, <1>4, <1>5, <1>6 DEF Toolkit

LEMMA ClientKeepsCache ==
  ASSUME BridgeInv, CacheInv,
         Client \/ \E o \in Object : LeaseEnds(o)
  PROVE  CacheInv'
<1>1. ASSUME NEW p \in Object, NEW c \in Object, GetChild(p, c)
      PROVE  CacheInv'
  <2>1. /\ Loop /\ UNCHANGED regVars /\ UNCHANGED cacheVars /\ view' = view
        /\ todo' = do("reference", c)
    BY <1>1 DEF GetChild, MayAct
  <2>2. /\ objects' = objects /\ unwatched' = unwatched /\ listening' = listening
        /\ ~Queued(Root)' /\ Silent(todo')
    BY <2>1, LoopKeepsQueues, SilentScripts DEF cacheVars, Queued
  <2>3. QED
    BY <2>1, <2>2, NothingCreated, LoopKeepsCache
<1>2. ASSUME NEW p \in Object, NEW c \in Object, MakeChild(p, c)
      PROVE  CacheInv'
  <2>1. /\ Loop /\ Create(c) /\ UNCHANGED cacheVars /\ view' = view
        /\ todo' = do("reference", c) \o do("unref", c)
    BY <1>2 DEF MakeChild, MayAct
  <2>2. /\ objects' = objects /\ unwatched' = unwatched /\ listening' = listening
        /\ ~Queued(Root)' /\ Silent(todo')
    BY <2>1, LoopKeepsQueues, SilentScripts DEF cacheVars, Queued
  <2>3. QED
    BY <2>1, <2>2, OneCreated, LoopKeepsCache
<1>3. ASSUME NEW o \in Object, LeaseEnds(o)
      PROVE  CacheInv'
  <2>1. Loop /\ UNCHANGED regVars /\ UNCHANGED cacheVars /\ view' = view /\ todo' = todo
    BY <1>3 DEF LeaseEnds
  <2>2. /\ objects' = objects /\ unwatched' = unwatched /\ listening' = listening
        /\ ~Queued(Root)' /\ Silent(todo')
    BY <2>1, LoopKeepsQueues, SilentNone DEF cacheVars, Queued
  <2>3. QED
    BY <2>1, <2>2, NothingCreated, LoopKeepsCache
<1>4. QED
  BY <1>1, <1>2, <1>3 DEF Client

\* An object that was cached since and dies is forgotten and withdrawn.
LEMMA DiesForgets ==
  ASSUME BridgeInv, CacheInv, NEW o \in Object, Dies(o)
  PROVE  /\ objects' \subseteq objects /\ objects \ {o} \subseteq objects'
         /\ unwatched' = unwatched \cap objects'
         /\ o \in objects' => o \in unwatched
         /\ Known' = Known \ {o}
         /\ view' = view \ {<<o, gen[o]>>}
<1>1. o \in alive /\ todo = <<>> /\ o # Root
  BY DoomedUnclaimed DEF Dies
<1>2. o \in Known => Noticed(o)
  BY <1>1, AtRest DEF BridgeInv, RegIndInv, Watched, Noticed
<1>3. /\ objects' = ForgottenByCache(o) /\ unwatched' = unwatched \cap objects'
      /\ view' = IF Noticed(o) /\ o \in objects THEN view \ {<<o, gen[o]>>} ELSE view
  BY DEF Dies
<1>4. /\ objects' \subseteq objects /\ objects \ {o} \subseteq objects'
      /\ o \in objects' => o \in unwatched
  BY <1>2, <1>3 DEF ForgottenByCache, Known
<1>5. Known' = Known \ {o}
  BY <1>3, <1>4 DEF Known
<1>6. o \notin Known => <<o, gen[o]>> \notin view
  BY DEF CacheInv, ViewInv
<1>7. view' = view \ {<<o, gen[o]>>}
  <2>1. CASE o \in Known
    BY <1>2, <1>3, <2>1 DEF Known
  <2>2. CASE o \notin Known
    BY <1>3, <1>6, <2>2
  <2>3. QED
    BY <2>1, <2>2
<1>8. QED
  BY <1>3, <1>4, <1>5, <1>7

LEMMA DiesKeepsCache ==
  ASSUME BridgeInv, CacheInv, NEW o \in Object, Dies(o)
  PROVE  CacheInv'
<1>1. o \in alive /\ todo = <<>> /\ o # Root /\ ~Queued(o)
  BY DoomedUnclaimed DEF Dies
<1>2. /\ alive' = alive \ {o} /\ dbus_id' = dbus_id /\ gen' = gen
      /\ add_traversal' = add_traversal /\ to_add' = to_add
      /\ listening' = listening /\ todo' = todo
  BY DEF Dies, Destroy
<1>3. /\ objects' \subseteq objects /\ unwatched' = unwatched \cap objects'
      /\ Known' = Known \ {o}
      /\ view' = view \ {<<o, gen[o]>>}
  BY DiesForgets
<1>4. /\ \A x \in Known :
           x \in alive /\ dbus_id[x] # 0 /\ <<x, gen[x]>> \in view
      /\ \A x : ~Announced(x)
  BY <1>1, AtRest
<1>5. BeforeListening'
  BY <1>2, <1>3 DEF CacheInv, BeforeListening, Queued
<1>6. CachedHavePaths'
  BY <1>2, <1>3, <1>4 DEF CachedHavePaths
<1>7. \A x : ~Announced(x)'
  BY <1>2, <1>4 DEF Announced
<1>8. ViewInv'
  <2>1. view \subseteq {<<x, gen[x]>> : x \in Known}
    BY DEF CacheInv, ViewInv
  <2>2. view' \subseteq {<<x, gen[x]>> : x \in Known'}
    BY <1>3, <2>1
  <2>3. \A x \in Known' : <<x, gen[x]>> \in view'
    BY <1>3, <1>4
  <2>4. QED
    BY <1>2, <1>7, <2>2, <2>3 DEF ViewInv
<1>9. QED
  BY <1>5, <1>6, <1>8 DEF CacheInv

\* What the walk puts into the queue has a parent: it is not the root.
LEMMA WalkQueues ==
  ASSUME BridgeInv, Walk
  PROVE  \A x : Queued(x)' => Queued(x) \/ Attached(x)
<1> DEFINE current == Head(add_traversal)
           rest == Tail(add_traversal)
           found == WalkedChildren(current)
<1>1. /\ add_traversal # <<>>
      /\ \/ add_traversal' = rest /\ to_add' = to_add
         \/ /\ add_traversal' = rest \o found
            /\ to_add' = Append(to_add, current)
  BY DEF Walk, DrainHead
<1>2. BridgeTypeOK /\ CacheTypeOK
  BY DEF BridgeInv, BridgeTypeOK
<1>3. /\ add_traversal \in Seq(Object) /\ to_add \in Seq(Object)
      /\ current \in Object /\ rest \in Seq(Object)
      /\ ToSet(add_traversal) = ToSet(rest) \cup {current}
  BY <1>1, <1>2, ElementsOfTail DEF CacheTypeOK
<1>4. found \in Seq(Object)
  BY <1>2, <1>3, WalkedChildrenType
<1>5. \A x \in ToSet(found) : Attached(x)
  <2>1. found = <<>> \/ found = children[current]
    BY DEF WalkedChildren
  <2>2. ToSet(<<>>) = {}
    BY DEF ToSet
  <2>3. QED
    BY <1>3, <2>1, <2>2 DEF Attached
<1> HIDE DEF current, rest, found
<1>6. QED
  <2>1. ToSet(rest \o found) = ToSet(rest) \cup ToSet(found)
    BY <1>3, <1>4, ElementsOfConcat
  <2>2. ToSet(Append(to_add, current)) = ToSet(to_add) \cup {current}
    BY <1>3, ElementsOfAppend
  <2>3. QED
    BY <1>1, <1>3, <1>5, <2>1, <2>2 DEF Queued

LEMMA WalkKeepsCache ==
  ASSUME BridgeInv, CacheInv, Walk
  PROVE  CacheInv'
<1>1. /\ todo' = todo /\ view' = view
      /\ UNCHANGED <<children, objects, listening, unwatched>>
      /\ alive' = alive /\ dbus_id' = dbus_id /\ gen' = gen
  BY DEF Walk, DrainHead, regVars
<1>2. BeforeListening'
  BY <1>1, WalkQueues DEF CacheInv, BeforeListening, BridgeInv, TreeInv
<1>3. CachedHavePaths' /\ ViewInv'
  BY <1>1 DEF CacheInv, CachedHavePaths, ViewInv, Announced, Known
<1>4. QED
  BY <1>2, <1>3 DEF CacheInv

LEMMA InsertKeepsCache ==
  ASSUME BridgeInv, CacheInv, Insert
  PROVE  CacheInv'
<1>1. /\ to_add # <<>> /\ todo = <<>> /\ todo' = Added(Head(to_add)) /\ view' = view
      /\ objects' = objects \cup {Head(to_add)}
      /\ unwatched' = IF listening THEN unwatched \ {Head(to_add)}
                      ELSE unwatched \cup {Head(to_add)}
      /\ UNCHANGED <<children, listening, add_traversal, to_add>>
      /\ alive' = alive /\ dbus_id' = dbus_id /\ gen' = gen
  BY DEF Insert, Quiet, AddHead, regVars
<1>2. BridgeTypeOK /\ TreeInv /\ HoldersInv /\ to_add \in Seq(Object)
  BY DEF BridgeInv, BridgeTypeOK, CacheTypeOK
<1>3. PICK head \in Object : head = Head(to_add) /\ head \in ToSet(to_add)
  BY <1>1, <1>2, ElementsOfTail
<1>4. Queued(head) /\ head \in alive
  BY <1>2, <1>3 DEF HoldersInv, Queued
<1>5. \A x : Queued(x)' => Queued(x)
  BY <1>1 DEF Queued
<1>6. /\ listening => head # Root /\ Known' = Known \cup {head}
      /\ ~listening => Known = {} /\ Known' = {}
  BY <1>1, <1>3, <1>4 DEF CacheInv, BeforeListening, Known
<1>7. BeforeListening'
  BY <1>1, <1>3, <1>5, <1>6 DEF CacheInv, BeforeListening
<1>8. PICK s : s = todo' /\ s = Added(head)
  BY <1>1, <1>3
<1>9. /\ listening => Mentioned(head) \in ToSet(s) /\ Announcement(head) \in ToSet(s)
      /\ \A x : Announcement(x) \in ToSet(s) => x = head /\ listening
  BY <1>2, <1>4, <1>8, ShapedAdded DEF Mentioned, Announcement
<1>10. \A x \in Known :
         x \in alive /\ dbus_id[x] # 0 /\ <<x, gen[x]>> \in view
  BY <1>1, AtRest
<1>11. CachedHavePaths'
  BY <1>1, <1>4, <1>6, <1>8, <1>9, <1>10 DEF CachedHavePaths, Mentioned
<1>12. ViewInv'
  <2>1. view \subseteq {<<x, gen[x]>> : x \in Known}
    BY DEF CacheInv, ViewInv
  <2>2. view' \subseteq {<<x, gen'[x]>> : x \in Known'}
    BY <1>1, <1>6, <1>10, <2>1
  <2>3. \A x \in Known' : <<x, gen'[x]>> \in view' \/ Announced(x)'
    BY <1>1, <1>6, <1>8, <1>9, <1>10 DEF Announced, Announcement
  <2>4. \A x \in Object : Announced(x)' => x \in Known'
    BY <1>6, <1>8, <1>9, <1>10 DEF Announced, Announcement
  <2>5. QED
    BY <2>2, <2>3, <2>4 DEF ViewInv
<1>13. QED
  BY <1>7, <1>11, <1>12 DEF CacheInv

LEMMA ReleaseKeepsCache ==
  ASSUME BridgeInv, CacheInv, Release
  PROVE  CacheInv'
<1>1. /\ UNCHANGED <<objects, unwatched, listening, add_traversal, todo, view>>
      /\ alive' = alive /\ dbus_id' = dbus_id /\ gen' = gen
      /\ to_add # <<>> /\ to_add' = Tail(to_add)
  BY DEF Release, HeadReleased, regVars
<1>2. ToSet(to_add') \subseteq ToSet(to_add)
  BY <1>1, ElementsOfTail DEF BridgeInv, BridgeTypeOK, CacheTypeOK
<1>3. BeforeListening'
  BY <1>1, <1>2 DEF CacheInv, BeforeListening, Queued
<1>4. CachedHavePaths' /\ ViewInv'
  BY <1>1 DEF CacheInv, CachedHavePaths, ViewInv, Announced, Known
<1>5. QED
  BY <1>3, <1>4 DEF CacheInv

LEMMA TurnKeepsCache ==
  ASSUME BridgeInv, CacheInv, Turn
  PROVE  CacheInv'
<1>1. /\ UNCHANGED <<children, objects, unwatched, add_traversal, to_add, todo, view>>
      /\ alive' = alive /\ dbus_id' = dbus_id /\ gen' = gen
      /\ \/ listening' = listening
         \/ cpc = "add" /\ to_add = <<>>
  BY DEF Turn, IdleFires, DrainDone, AddDone, regVars, ownVars
<1>2. BeforeListening'
  <2>1. CASE listening' = listening
    BY <1>1, <2>1 DEF CacheInv, BeforeListening, Queued
  <2>2. CASE cpc = "add" /\ to_add = <<>>
    <3>1. add_traversal = <<>>
      BY <2>2 DEF BridgeInv, PhasesInv
    <3>2. ~Queued(Root)'
      BY <1>1, <2>2, <3>1 DEF Queued, ToSet
    <3>3. ~listening' => ~listening
      BY DEF Turn, IdleFires, DrainDone, AddDone
    <3>4. QED
      BY <1>1, <3>2, <3>3 DEF CacheInv, BeforeListening, Queued
  <2>3. QED
    BY <1>1, <2>1, <2>2
<1>3. CachedHavePaths' /\ ViewInv'
  BY <1>1 DEF CacheInv, CachedHavePaths, ViewInv, Announced, Known
<1>4. QED
  BY <1>2, <1>3 DEF CacheInv

LEMMA ContinueKeepsCache ==
  ASSUME BridgeInv, CacheInv, Continue
  PROVE  CacheInv'
<1>1. /\ todo # <<>> /\ DoStep(Head(todo).do, Head(todo).obj) /\ todo' = Tail(todo)
      /\ UNCHANGED <<children, objects, unwatched, add_traversal, to_add, cpc, listening>>
  BY DEF Continue, cacheVars
<1>2. BridgeTypeOK /\ ScriptInv /\ todo \in Seq(Step)
  BY DEF BridgeInv, BridgeTypeOK
<1>3. PICK next \in Step : next = Head(todo) /\ ToSet(todo) = ToSet(todo') \cup {next}
  BY <1>1, <1>2, ElementsOfTail
<1>4. DoStep(next.do, next.obj)
  BY <1>1, <1>3
<1>5. Leases(next) => next.obj = Root \/ dbus_id[next.obj] # 0
  <2>1. 1 \in DOMAIN todo /\ todo[1] = next
    BY <1>1, <1>2, <1>3
  <2>2. Leases(todo[1]) => HasPathBy(todo, 1)
    BY <1>2, <2>1 DEF ScriptInv
  <2>3. 1 .. (1 - 1) = {}
    OBVIOUS
  <2>4. QED
    BY <2>1, <2>2, <2>3 DEF HasPathBy
<1>6. Tells(next)
  BY <1>2, <1>4, <1>5, StepEffect
<1>7. /\ alive' = alive /\ gen' = gen
      /\ \A x \in Object : dbus_id[x] # 0 => dbus_id'[x] # 0
      /\ next.do = "reference" => next.obj = Root \/ dbus_id'[next.obj] # 0
      /\ view' = IF next.do = "announced" THEN view \cup {<<next.obj, gen[next.obj]>>}
                 ELSE view
  BY <1>6 DEF Tells
<1>8. objects \subseteq Object /\ Known' = Known
  BY <1>1, <1>2 DEF BridgeTypeOK, CacheTypeOK, Known
<1>9. /\ next.do = "announced" => Announced(next.obj)
      /\ \A x : Announced(x)' => Announced(x)
      /\ \A x : Announced(x) => Announced(x)' \/ next = Announcement(x)
      /\ \A x : Mentioned(x) \in ToSet(todo) =>
                  Mentioned(x) \in ToSet(todo') \/ next = Mentioned(x)
  <2>1. next = [do |-> next.do, obj |-> next.obj]
    BY DEF Step
  <2>2. next.do = "announced" => next = Announcement(next.obj)
    BY <2>1, Zenon DEF Announcement
  <2>3. QED
    BY <1>3, <2>2 DEF Announced, Announcement
<1>10. /\ \A x : next = Announcement(x) => next.do = "announced" /\ next.obj = x
       /\ \A x : next = Mentioned(x) => next.do = "reference" /\ next.obj = x
  <2>1. ASSUME NEW x
        PROVE  /\ Announcement(x).do = "announced" /\ Announcement(x).obj = x
               /\ Mentioned(x).do = "reference" /\ Mentioned(x).obj = x
    BY DEF Announcement, Mentioned
  <2>2. QED
    BY <2>1, Zenon
<1>11. BeforeListening'
  BY <1>1 DEF CacheInv, BeforeListening, Queued
<1>12. CachedHavePaths'
  <2> SUFFICES ASSUME NEW o \in Known
               PROVE  /\ o \in alive
                      /\ dbus_id'[o] # 0 \/ Mentioned(o) \in ToSet(todo')
    BY <1>7, <1>8 DEF CachedHavePaths, Mentioned
  <2>1. o \in alive /\ (dbus_id[o] # 0 \/ Mentioned(o) \in ToSet(todo))
    BY DEF CacheInv, CachedHavePaths, Mentioned
  <2>2. o \in Object /\ o # Root
    BY <1>8 DEF Known, CacheInv, BeforeListening
  <2>3. CASE dbus_id[o] # 0
    BY <1>7, <2>1, <2>2, <2>3
  <2>4. CASE Mentioned(o) \in ToSet(todo)
    BY <1>7, <1>9, <1>10, <2>1, <2>2, <2>4
  <2>5. QED
    BY <2>1, <2>3, <2>4
<1>13. ViewInv'
  <2>1. /\ view \subseteq {<<x, gen[x]>> : x \in Known}
        /\ \A x \in Known : <<x, gen[x]>> \in view \/ Announced(x)
        /\ \A x \in Object : Announced(x) => x \in Known
    BY DEF CacheInv, ViewInv
  <2>2. next.do = "announced" => next.obj \in Known
    <3>1. next.obj \in Object
      BY DEF Step
    <3>2. QED
      BY <1>9, <2>1, <3>1
  <2>3. view' \subseteq {<<x, gen[x]>> : x \in Known}
    BY <1>7, <2>1, <2>2
  <2>4. \A x \in Known : <<x, gen[x]>> \in view' \/ Announced(x)'
    BY <1>7, <1>9, <1>10, <2>1
  <2>5. \A x \in Object : Announced(x)' => x \in Known
    BY <1>9, <2>1
  <2>6. QED
    BY <1>7, <1>8, <2>3, <2>4, <2>5 DEF ViewInv
<1>14. QED
  BY <1>11, <1>12, <1>13 DEF CacheInv

LEMMA CacheInvStep ==
  ASSUME BridgeInv, CacheInv, [BridgeNext]_bridgeVars
  PROVE  CacheInv'
<1>1. CASE Toolkit
  BY <1>1, ToolkitKeepsCache
<1>2. CASE Client \/ \E o \in Object : LeaseEnds(o)
  BY <1>2, ClientKeepsCache
<1>3. CASE Continue \/ Walk \/ Insert \/ Release \/ Turn
  BY <1>3, ContinueKeepsCache, WalkKeepsCache, InsertKeepsCache, ReleaseKeepsCache,
     TurnKeepsCache
<1>4. CASE \E o \in Object : Dies(o)
  BY <1>4, DiesKeepsCache
<1>5. CASE UNCHANGED bridgeVars
  <2>1. UNCHANGED <<alive, dbus_id, gen, children, objects, unwatched, add_traversal,
                    to_add, listening, todo, view>>
    BY <1>5 DEF bridgeVars, regVars, cacheVars, ownVars
  <2>2. QED
    BY <2>1 DEF CacheInv, BeforeListening, Queued, CachedHavePaths, ViewInv,
       Announced, Known
<1>6. QED
  BY <1>1, <1>2, <1>3, <1>4, <1>5 DEF BridgeNext, Bridge

-----------------------------------------------------------------------------
(* CacheInv is an invariant too: whatever was cached since the bridge was  *)
(* loaded has a path, so that its end will be noticed, and the clients     *)
(* know of it, or are told in the rest of the handler that runs.           *)
THEOREM BridgeCacheInvariant == BridgeSpec => [](BridgeInv /\ CacheInv)
<1>1. BridgeInit => BridgeInv /\ CacheInv
  BY BridgeInitially, CacheInvInitially
<1>2. (BridgeInv /\ CacheInv) /\ [BridgeNext]_bridgeVars => (BridgeInv /\ CacheInv)'
  BY BridgeStep, CacheInvStep
<1>3. QED
  BY <1>1, <1>2, PTL DEF BridgeSpec

\* A step of the bridge is one of the cache, or does not concern it.
LEMMA BridgeStepCache ==
  ASSUME BridgeInv, CacheInv, [BridgeNext]_bridgeVars
  PROVE  [CacheNext]_cacheVars
<1>1. ASSUME NEW o \in Object, New(o) \/ Drop(o) \/ Emit(o) \/ LeaseEnds(o)
      PROVE  [CacheNext]_cacheVars
  BY <1>1 DEF New, Drop, Emit, LeaseEnds
<1>2. ASSUME NEW p \in Object, NEW c \in Object, NEW named \in BOOLEAN,
             Adopt(p, c, named) \/ Abandon(p, c, named)
      PROVE  [CacheNext]_cacheVars
  BY <1>2 DEF Adopt, Abandon, CacheNext
<1>3. ASSUME NEW p \in Object, NEW c \in Object,
             Signal(p, c) \/ GetChild(p, c) \/ MakeChild(p, c)
      PROVE  [CacheNext]_cacheVars
  BY <1>3 DEF Signal, GetChild, MakeChild, CacheNext
<1>4. CASE Continue
  BY <1>4 DEF Continue
<1>5. CASE Walk \/ Insert \/ Release \/ Turn
  BY <1>5 DEF Walk, Insert, Release, Turn, CacheNext, AddPendingItems
<1>6. ASSUME NEW o \in Object, Dies(o)
      PROVE  Gone(o)
  <2>1. o # Root /\ ~Attached(o) /\ ~Queued(o)
    BY <1>6, DoomedUnclaimed DEF Dies
  <2>2. /\ objects' = objects \ {o} \/ (o \in unwatched /\ objects' = objects)
        /\ unwatched' = unwatched \cap objects'
    BY <1>6, DiesForgets
  <2>3. QED
    BY <1>6, <2>1, <2>2 DEF Dies, Gone
<1>7. CASE UNCHANGED bridgeVars
  BY <1>7 DEF bridgeVars
<1>8. QED
  BY <1>1, <1>2, <1>3, <1>4, <1>5, <1>6, <1>7
  DEF BridgeNext, Toolkit, Client, Bridge, CacheNext

(* The cache is used as Cache supposes: an object is destroyed only when   *)
(* no parent and no queue has it, and it leaves the cache at that moment   *)
(* unless it was cached before anything listened.                          *)
THEOREM BridgeImplementsCache == BridgeSpec => ImplementsCache
<1>1. BridgeInit => CacheInit
  BY DEF BridgeInit
<1>2. (BridgeInv /\ CacheInv) /\ [BridgeNext]_bridgeVars => [CacheNext]_cacheVars
  BY BridgeStepCache
<1>3. BridgeSpec => CacheSpec
  BY <1>1, <1>2, BridgeCacheInvariant, PTL DEF BridgeSpec, CacheSpec
<1>4. QED
  BY <1>3 DEF ImplementsCache

(* So every child that a cached object owns is cached once nothing is      *)
(* pending, with objects that die, leases that end and clients that call.  *)
THEOREM BridgeCoversTree == ~Reentrant /\ BridgeSpec => []SubtreeCached
BY BridgeImplementsCache, CacheCoversTree, PTL DEF ImplementsCache

-----------------------------------------------------------------------------
(* A bridge that is loaded before the toolkit builds its tree *)

\* Before it listens there is nothing but the root.
LEMMA OnlyRootStep ==
  ASSUME BridgeInv, CacheInv, OnlyRootBefore, [BridgeNext]_bridgeVars
  PROVE  OnlyRootBefore'
<1>1. CASE Toolkit \/ Client \/ \E o \in Object : LeaseEnds(o)
  <2>1. Loop
    BY <1>1
    DEF Toolkit, Client, New, Drop, Emit, Adopt, Abandon, Signal, GetChild, MakeChild,
        LeaseEnds, MayAct
  <2>2. listening
    BY <2>1, LoopKeepsQueues
  <2>3. unwatched' = unwatched /\ listening' = listening
    <3>1. CASE Client \/ \E o \in Object : New(o) \/ Drop(o) \/ Emit(o) \/ LeaseEnds(o)
      BY <3>1
      DEF Client, New, Drop, Emit, GetChild, MakeChild, LeaseEnds, cacheVars
    <3>2. ASSUME NEW p \in Object, NEW c \in Object, NEW named \in BOOLEAN,
                 Adopt(p, c, named) \/ Abandon(p, c, named) \/ Signal(p, c)
          PROVE  unwatched' = unwatched /\ listening' = listening
      <4>1. Attach(p, c) \/ Detach(p, c) \/ Mention(p, c)
        BY <3>2 DEF Adopt, Abandon, Signal
      <4>2. QED
        BY <4>1 DEF Attach, Detach, Mention
    <3>3. QED
      BY <1>1, <3>1, <3>2 DEF Toolkit
  <2>4. QED
    BY <2>2, <2>3 DEF OnlyRootBefore
<1>2. CASE Continue \/ UNCHANGED bridgeVars
  <2>1. UNCHANGED <<children, unwatched, listening, add_traversal, to_add>>
    BY <1>2 DEF Continue, bridgeVars, cacheVars
  <2>2. QED
    BY <2>1 DEF OnlyRootBefore, Queued
<1>3. CASE Walk
  <2>1. /\ UNCHANGED <<children, unwatched, listening>>
        /\ \A x \in Object : Queued(x)' => Queued(x) \/ Attached(x)
    BY <1>3, WalkQueues DEF Walk, DrainHead
  <2>2. ~listening => \A x : ~Attached(x)
    <3>1. ToSet(<<>>) = {}
      BY DEF ToSet
    <3>2. QED
      BY <3>1 DEF OnlyRootBefore, Attached
  <2>3. QED
    BY <2>1, <2>2 DEF OnlyRootBefore
<1>4. CASE Insert
  <2>1. to_add # <<>> /\ to_add \in Seq(Object)
    BY <1>4 DEF Insert, AddHead, BridgeInv, BridgeTypeOK, CacheTypeOK
  <2>2. Head(to_add) \in Object /\ Queued(Head(to_add))
    BY <2>1, ElementsOfTail DEF Queued
  <2>3. /\ UNCHANGED <<children, listening, add_traversal, to_add>>
        /\ unwatched' = IF listening THEN unwatched \ {Head(to_add)}
                        ELSE unwatched \cup {Head(to_add)}
    BY <1>4 DEF Insert, AddHead
  <2>4. QED
    BY <2>2, <2>3 DEF OnlyRootBefore, Queued
<1>5. CASE Release
  <2>1. /\ UNCHANGED <<children, unwatched, listening, add_traversal>>
        /\ to_add # <<>> /\ to_add' = Tail(to_add)
    BY <1>5 DEF Release, HeadReleased
  <2>2. ToSet(to_add') \subseteq ToSet(to_add)
    BY <2>1, ElementsOfTail DEF BridgeInv, BridgeTypeOK, CacheTypeOK
  <2>3. QED
    BY <2>1, <2>2 DEF OnlyRootBefore, Queued
<1>6. CASE Turn
  BY <1>6 DEF Turn, IdleFires, DrainDone, AddDone, OnlyRootBefore, Queued
<1>7. ASSUME NEW o \in Object, Dies(o)
      PROVE  OnlyRootBefore'
  <2>1. children \in [Object -> Seq(Object)]
    BY DEF BridgeInv, BridgeTypeOK, CacheTypeOK
  <2>2. QED
    BY <1>7, <2>1 DEF Dies, OnlyRootBefore, Queued
<1>8. QED
  BY <1>1, <1>2, <1>3, <1>4, <1>5, <1>6, <1>7 DEF BridgeNext, Bridge

LEMMA OnlyRootInitially == LoadedFirst /\ BridgeInit => OnlyRootBefore
<1> SUFFICES ASSUME LoadedFirst, BridgeInit PROVE OnlyRootBefore
  OBVIOUS
<1>1. /\ children \in StartTrees /\ unwatched = {}
      /\ add_traversal = <<Root>> /\ to_add = <<>> /\ listening = FALSE
  BY DEF BridgeInit, CacheInit
<1>2. \A o \in Object : Queued(o) => o = Root
  BY <1>1 DEF Queued, ToSet
<1>3. QED
  BY <1>1, <1>2 DEF LoadedFirst, OnlyRootBefore

THEOREM BridgeLoadedFirst ==
  LoadedFirst /\ BridgeSpec => [](BridgeInv /\ CacheInv /\ OnlyRootBefore)
<1> SUFFICES ASSUME LoadedFirst
             PROVE  BridgeSpec => [](BridgeInv /\ CacheInv /\ OnlyRootBefore)
  OBVIOUS
<1>1. BridgeInit => OnlyRootBefore
  BY OnlyRootInitially
<1>2. (BridgeInv /\ CacheInv) /\ OnlyRootBefore /\ [BridgeNext]_bridgeVars
        => OnlyRootBefore'
  BY OnlyRootStep
<1>3. QED
  BY <1>1, <1>2, BridgeCacheInvariant, PTL DEF BridgeSpec

(* Nothing the bridge will dereference is gone: not in the cache, which    *)
(* owns no reference to what it holds and relies on being told of its end  *)
(* (accessible-register.c:42), nor anywhere in its queues and handlers.    *)
THEOREM BridgeNothingDangles == LoadedFirst /\ BridgeSpec => []NothingDangles
<1>1. BridgeInv /\ CacheInv /\ OnlyRootBefore => CachedAreAlive
  BY DEF CacheInv, CachedHavePaths, CachedAreAlive, BridgeInv, HoldersInv, OnlyRootBefore,
         Known
<1>2. QED
  BY <1>1, BridgeLoadedFirst, BridgePendingAlive, PTL DEF NothingDangles

(* The clients' view, built from AddAccessible and RemoveAccessible, is    *)
(* the cache whenever the main loop runs (cache-adaptor.c:168).            *)
THEOREM BridgeViewIsCache == LoadedFirst /\ BridgeSpec => []ViewIsCache
<1>1. CacheInv /\ OnlyRootBefore => ViewIsCache
  <2> SUFFICES ASSUME CacheInv, OnlyRootBefore, todo = <<>>
               PROVE  view = {<<o, gen[o]>> : o \in objects \ {Root}}
    BY DEF ViewIsCache, Loop, Quiet
  <2>1. \A o \in Known : <<o, gen[o]>> \in view
    BY AtRest
  <2>2. view \subseteq {<<o, gen[o]>> : o \in Known}
    BY DEF CacheInv, ViewInv
  <2>3. Known = objects \ {Root}
    BY DEF CacheInv, BeforeListening, OnlyRootBefore, Known
  <2>4. QED
    BY <2>1, <2>2, <2>3
<1>2. QED
  BY <1>1, BridgeLoadedFirst, PTL
=============================================================================
