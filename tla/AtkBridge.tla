------------------------------ MODULE AtkBridge -----------------------------
(***************************************************************************)
(* The register, the cache and the leases of atk-adaptor at work on one    *)
(* toolkit: who keeps an object alive, when its path is made and when it   *)
(* is forgotten, and what a client is told.                                *)
(*                                                                         *)
(* Everything runs in the thread of the main loop.  A handler that appends *)
(* references to a message is a script, todo, of the steps it takes; while *)
(* it runs nothing else does, except that an object whose last reference   *)
(* is dropped is destroyed on the spot.                                    *)
(*                                                                         *)
(* Leasing models when a lease ends; here it may end at any time.  The     *)
(* toolkit does not re-enter the bridge (Reentrant is FALSE).              *)
(***************************************************************************)
EXTENDS Register, Cache, FiniteSets

CONSTANTS
  MaxLeases,   \* bound: toolkit and client act while no object has as many
  MaxLeaks     \* bound: references to an object are lost up to here

(* An object has one parent, the root has none, and what has children is   *)
(* in the tree.                                                            *)
IsForest(tree) ==
  LET IsChild(o) == \E p \in Object : o \in ToSet(tree[p]) IN
  /\ \A p, q \in Object : \A i \in DOMAIN tree[p], j \in DOMAIN tree[q] :
       tree[p][i] = tree[q][j] => p = q /\ i = j
  /\ \A o \in Object : tree[o] # <<>> => o = Root \/ IsChild(o)
  /\ ~IsChild(Root)

ASSUME BridgeAssumption ==
  /\ MaxLeases \in Nat /\ MaxLeaks \in Nat
  /\ \A tree \in StartTrees : IsForest(tree)

VARIABLES
  refs,      \* GObject's ref_count
  held,      \* objects the toolkit keeps a reference to, besides its tree
  leases,    \* how many elements of SpiLeasing.expiry_queue an object has
  leaked,    \* history: references that nobody will give back
  todo,      \* the rest of the handler that is running
  view       \* history: lives announced with AddAccessible, not yet removed

ownVars == <<refs, held, leases, leaked, todo, view>>
bridgeVars == <<regVars, cacheVars, ownVars>>

Step == [do : {"path", "reference", "lease", "maybe lease", "announced", "unref"},
         obj : Object]

do(what, o) == <<[do |-> what, obj |-> o]>>

BridgeTypeOK ==
  /\ RegTypeOK
  /\ CacheTypeOK
  /\ refs \in [Object -> Nat]
  /\ held \in SUBSET Object
  /\ leases \in [Object -> Nat]
  /\ leaked \in [Object -> Nat]
  /\ todo \in Seq(Step)
  /\ view \in SUBSET Life

Owners(o) == (IF o \in held THEN 1 ELSE 0) + (IF Attached(o) THEN 1 ELSE 0)
Occurrences(o, s) == Cardinality({i \in DOMAIN s : s[i] = o})

\* The tree may have been built before the bridge was loaded.
BridgeInit ==
  /\ RegInit
  /\ CacheInit
  /\ held = {Root}
  /\ alive = {Root} \cup {o \in Object : Attached(o)}
  /\ refs = [o \in Object |-> Owners(o) + Occurrences(o, add_traversal)]
  /\ leases = [o \in Object |-> 0]
  /\ leaked = [o \in Object |-> 0]
  /\ todo = <<>>
  /\ view = {}

Doomed == {o \in alive : refs[o] = 0}
Quiet == todo = <<>> /\ Doomed = {}
Loop == cpc = "main" /\ Quiet
MayAct == Loop /\ \A o \in Object : leases[o] < MaxLeases
InUse(o) == o \in held \/ Attached(o)

Plus(f, o, n) == [f EXCEPT ![o] = @ + n]

-----------------------------------------------------------------------------
(* References in messages *)

\* spi_leasing_take
Leased(o) == leases' = Plus(leases, o, 1) /\ refs' = Plus(refs, o, 1)

\* Mutant: the lease holds no reference to the object.
LeaseIfNeededNoRef(o) ==
  /\ IF o \in objects
       THEN UNCHANGED leases
       ELSE leases' = Plus(leases, o, 1)
  /\ UNCHANGED refs

\* spi_object_lease_if_needed
LeaseIfNeeded(o) ==
  IF o \in objects THEN UNCHANGED <<leases, refs>> ELSE Leased(o)

(* What one step of a handler does.  "maybe lease" is the end of           *)
(* emit_event for children-changed, which compares a string it has freed.  *)
DoStep(what, o) ==
  \/ /\ what = "path"
     /\ ObjectToPath(o)
     /\ UNCHANGED <<leases, refs, view>>
  \/ /\ what = "reference"
     /\ LeaseIfNeeded(o)
     /\ ObjectToPath(o)
     /\ UNCHANGED view
  \/ /\ what \in {"lease", "maybe lease"}
     /\ LeaseIfNeeded(o)
     /\ UNCHANGED <<regVars, view>>
  \/ /\ what = "maybe lease"
     /\ UNCHANGED <<regVars, leases, refs, view>>
  \/ /\ what = "announced"
     /\ view' = view \cup {<<o, gen[o]>>}
     /\ UNCHANGED <<regVars, leases, refs>>
  \/ /\ what = "unref"
     /\ refs' = Plus(refs, o, -1)
     /\ UNCHANGED <<regVars, leases, view>>

Continue ==
  /\ todo # <<>> /\ Doomed = {}
  /\ DoStep(Head(todo).do, Head(todo).obj)
  /\ todo' = Tail(todo)
  /\ UNCHANGED <<cacheVars, held, leaked>>

\* emit_event for children-changed on p with the child c
ChildrenChanged(p, c) ==
  do("path", p) \o do("reference", c) \o do("maybe lease", p)

\* deregister_object runs for o, and remove_object with it
Noticed(o) == o \in weak /\ dbus_id[o] # 0

\* Mutant: the dead object stays in the cache.
ForgottenByCacheNot(o) == objects

\* the cache once object-deregistered was emitted, if it was
ForgottenByCache(o) == IF Noticed(o) THEN objects \ {o} ELSE objects

\* Mutant: remove_object takes o out before it emits object-removed.
CachedInRemovalAlready(o) == objects \ {o}

\* the cache while object-removed is emitted for o
CachedInRemoval(o) == objects

(* emit_cache_remove names o like any other object: a lease is taken on    *)
(* the dying object unless it still counts as cached.                      *)
LeasedInRemoval(o) ==
  IF Noticed(o) /\ o \in objects /\ o \notin CachedInRemoval(o) THEN 1 ELSE 0

(* o has no references left: deregister_object runs if it was registered,  *)
(* which emits object-deregistered before it removes the entry; the cache, *)
(* if it has o, emits object-removed before it forgets o, and the clients  *)
(* are sent RemoveAccessible.  Nothing else runs in between: the toolkit   *)
(* is not asked about a dying object.  Then it gives up what o owned.      *)
Dies(o) ==
  /\ o \in Doomed
  /\ leases' = Plus(leases, o, LeasedInRemoval(o))
  /\ view' = IF Noticed(o) /\ o \in objects THEN view \ {<<o, gen[o]>>} ELSE view
  /\ objects' = ForgottenByCache(o)
  /\ unwatched' = unwatched \cap objects'
  /\ Destroy(o)
  /\ children' = [children EXCEPT ![o] = <<>>]
  /\ refs' = [c \in Object |->
                IF c \in ToSet(children[o]) THEN refs[c] - 1 ELSE refs[c]]
  /\ UNCHANGED <<add_traversal, to_add, add_pending_idle, cpc, listening,
                 held, leaked, todo>>

-----------------------------------------------------------------------------
(* The toolkit *)

New(o) ==
  /\ MayAct
  /\ Create(o)
  /\ refs' = [refs EXCEPT ![o] = 1]
  /\ held' = held \cup {o}
  /\ UNCHANGED <<cacheVars, leases, leaked, todo, view>>

Drop(o) ==
  /\ MayAct
  /\ o \in held \ {Root}
  /\ held' = held \ {o}
  /\ refs' = Plus(refs, o, -1)
  /\ UNCHANGED <<regVars, cacheVars, leases, leaked, todo, view>>

\* Mutant: the two listeners of the root share one reference.
QueueRefsShared(p, c) == IF p \in objects THEN 1 ELSE 0

\* references the cache's queue takes when p signals c
QueueRefs(p, c) == IF p \in objects THEN Len(Copies(p, c)) ELSE 0

(* References lost when the signal does not name the child: the event      *)
(* listener and child_added_listener each get one of their own.            *)
LostRefs(p) == IF p \in objects THEN 2 ELSE 1

(* p takes c for a child and emits children-changed::add.                  *)
Adopt(p, c, named) ==
  /\ MayAct
  /\ InUse(p) /\ c \in held
  /\ (named /\ c \notin Transient) \/ leaked[c] < MaxLeaks
  /\ Attach(p, c)
  /\ LET lost == IF named THEN 0 ELSE LostRefs(p) IN
       /\ refs' = Plus(refs, c, 1 + QueueRefs(p, c) + lost)
       /\ leaked' = Plus(leaked, c, lost)
  /\ todo' = ChildrenChanged(p, c)
  /\ UNCHANGED <<regVars, held, leases, view>>

\* p gives c up, emits children-changed::remove and drops its reference.
Abandon(p, c, named) ==
  /\ MayAct
  /\ Detach(p, c)
  /\ todo' = IF named THEN ChildrenChanged(p, c) \o do("unref", c)
             ELSE do("path", p) \o do("maybe lease", p) \o do("unref", c)
  /\ UNCHANGED <<regVars, refs, held, leases, leaked, view>>

\* p makes c, signals it, and keeps no reference.
Signal(p, c) ==
  /\ MayAct
  /\ InUse(p)
  /\ Create(c)
  /\ Mention(p, c)
  /\ refs' = [refs EXCEPT ![c] = 1 + QueueRefs(p, c)]
  /\ todo' = ChildrenChanged(p, c) \o do("unref", c)
  /\ UNCHANGED <<held, leases, leaked, view>>

\* Any other event of o: its source is leased if it is not cached.
Emit(o) ==
  /\ MayAct
  /\ InUse(o)
  /\ todo' = do("path", o) \o do("lease", o)
  /\ UNCHANGED <<regVars, cacheVars, refs, held, leases, leaked, view>>

-----------------------------------------------------------------------------
(* The client *)

HasPath(p) == p = Root \/ (p \in alive /\ dbus_id[p] # 0)

\* impl_GetChildAtIndex, of a child that p owns
GetChild(p, c) ==
  /\ MayAct
  /\ HasPath(p) /\ c \in ToSet(children[p])
  /\ todo' = do("reference", c)
  /\ UNCHANGED <<regVars, cacheVars, refs, held, leases, leaked, view>>

\* impl_GetChildAtIndex, of a child that p makes to answer the call
MakeChild(p, c) ==
  /\ MayAct
  /\ HasPath(p) /\ p \in ManagesDescendants /\ <<p, c>> \in MayHold
  /\ Create(c)
  /\ refs' = [refs EXCEPT ![c] = 1]
  /\ todo' = do("reference", c) \o do("unref", c)
  /\ UNCHANGED <<cacheVars, held, leases, leaked, view>>

-----------------------------------------------------------------------------
(* Timeouts and idles *)

\* expiry_func: one element of the queue
LeaseEnds(o) ==
  /\ Loop
  /\ leases[o] > 0
  /\ leases' = Plus(leases, o, -1)
  /\ refs' = Plus(refs, o, -1)
  /\ UNCHANGED <<regVars, cacheVars, held, leaked, todo, view>>

(* The first loop of add_pending_items.  A transient object is dropped     *)
(* from the queue without giving its reference back.                       *)
Walk ==
  /\ Quiet
  /\ DrainHead
  /\ LET current == Head(add_traversal) IN
       IF current \in Transient
         THEN leaked' = Plus(leaked, current, 1) /\ UNCHANGED refs
         ELSE /\ refs' = [c \in Object |->
                            IF c \in ToSet(WalkedChildren(current))
                              THEN refs[c] + 1 ELSE refs[c]]
              /\ UNCHANGED leaked
  /\ UNCHANGED <<regVars, held, leases, todo, view>>

\* append_cache_item: the object, its parent and its children
CacheItem(o) ==
  LET parents == SetToSeq({p \in Object : o \in ToSet(children[p])})
      listed  == IF o \in ManagesDescendants THEN <<>> ELSE children[o]
      related == <<o>> \o parents \o listed
  IN  [i \in DOMAIN related |-> [do |-> "reference", obj |-> related[i]]]

\* Mutant: a reference that append_cache_item did not take is given back.
AddedUnref(o) ==
  IF listening THEN CacheItem(o) \o do("announced", o) \o do("unref", o) ELSE <<>>

\* the steps of object-added for o, once it has a listener
Added(o) == IF listening THEN CacheItem(o) \o do("announced", o) ELSE <<>>

\* The second loop of add_pending_items.
Insert ==
  /\ Quiet
  /\ AddHead
  /\ todo' = Added(Head(to_add))
  /\ UNCHANGED <<regVars, refs, held, leases, leaked, view>>

\* Mutant: the reference the queue held is kept.
ReleasedNot(o) == refs

\* the references once the one that to_add held is given back
Released(o) == Plus(refs, o, -1)

Release ==
  /\ Quiet
  /\ HeadReleased
  /\ refs' = Released(Head(to_add))
  /\ UNCHANGED <<regVars, held, leases, leaked, todo, view>>

Turn ==
  /\ Quiet
  /\ IdleFires \/ DrainDone \/ AddDone
  /\ UNCHANGED <<regVars, ownVars>>

-----------------------------------------------------------------------------
Toolkit ==
  \/ \E o \in Object : New(o) \/ Drop(o) \/ Emit(o)
  \/ \E p, c \in Object :
       \/ \E named \in BOOLEAN : Adopt(p, c, named) \/ Abandon(p, c, named)
       \/ Signal(p, c)

Client == \E p, c \in Object : GetChild(p, c) \/ MakeChild(p, c)

Bridge ==
  \/ Continue
  \/ Walk \/ Insert \/ Release \/ Turn
  \/ \E o \in Object : Dies(o) \/ LeaseEnds(o)

BridgeNext == Toolkit \/ Client \/ Bridge

BridgeSpec == BridgeInit /\ [][BridgeNext]_bridgeVars

(* A handler runs to its end, and the main loop gets round to every source *)
(* that is ready, however often the toolkit and the client keep it busy:   *)
(* hence strong fairness for the sources.                                  *)
FairBridgeSpec ==
  /\ BridgeSpec
  /\ WF_bridgeVars(Continue)
  /\ \A o \in Object : WF_bridgeVars(Dies(o)) /\ SF_bridgeVars(LeaseEnds(o))
  /\ SF_bridgeVars(Walk \/ Insert \/ Release \/ Turn)

-----------------------------------------------------------------------------
(* The references an object has are those that somebody has yet to give    *)
(* back: none is dropped too early and, beyond the leaks on record,        *)
(* none is forgotten, through every queue, lease and handler.              *)
RefsAccounted ==
  \A o \in alive :
    refs[o] = Owners(o) + leases[o] + leaked[o]
              + Occurrences(o, add_traversal) + Occurrences(o, to_add)
              + Occurrences([do |-> "unref", obj |-> o], todo)

(* A cached object exists: however it ends, its place in the cache goes    *)
(* with it (accessible-register.c:42).                                     *)
CachedAreAlive == objects \subseteq alive

(* Nothing the bridge has yet to do is about an object that is gone: not   *)
(* in its queues, not in a lease, not in a handler that is half done.      *)
PendingAreAlive ==
  /\ ToSet(add_traversal) \cup ToSet(to_add) \subseteq alive
  /\ \A o \in Object : leases[o] > 0 => o \in alive
  /\ \A i \in DOMAIN todo : todo[i].obj \in alive

(* Nothing the bridge will ever dereference is gone: neither what it has   *)
(* cached nor what it has yet to do something about.                       *)
NothingDangles == CachedAreAlive /\ PendingAreAlive

(* What was announced and not withdrawn is what is cached, life for life,  *)
(* whenever the main loop runs; the root is never announced.               *)
ViewIsCache ==
  Loop => view = {<<o, gen[o]>> : o \in objects \ {Root}}

(* A leased object has a path, the one that was sent with the lease, and   *)
(* is found under it until the register's counter wraps.                   *)
LeasedResolve ==
  \A o \in Object : leases[o] > 0 /\ todo = <<>> /\ o # Root =>
    /\ dbus_id[o] # 0
    /\ ~Wrapped => PathToObject(RefToPath(dbus_id[o])) = o

(* The cache is used as it supposes: an object is destroyed only when      *)
(* nothing queues or owns it, and its place in the cache goes with it.     *)
ImplementsCache == CacheSpec

Unwanted(o) == o \in alive /\ ~InUse(o) /\ leaked[o] = 0

(* An object that the toolkit has done with, and no leak holds, is freed   *)
(* in the end: no chain of leases, queues and announcements keeps it.      *)
UnwantedAreFreed == \A o \in Object : Unwanted(o) ~> ~Unwanted(o)
=============================================================================
