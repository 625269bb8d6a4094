------------------------------- MODULE Cache --------------------------------
(***************************************************************************)
(* atk-adaptor/accessible-cache.c: the set of objects that are owned by    *)
(* their parent and announced to every client.  A children-changed::add    *)
(* signal only queues the child; an idle callback walks the queue and the  *)
(* trees below it (add_pending_items), first collecting what to add, then  *)
(* adding it.                                                              *)
(*                                                                         *)
(* The callback calls into the toolkit twice: while it walks the queue,    *)
(* for an object's state and its children, and while it announces an       *)
(* object, for everything a client wants to know of it.  Where the toolkit *)
(* answers by building more of its tree (Reentrant) its signals arrive in  *)
(* the middle of the callback.                                             *)
(***************************************************************************)
EXTENDS Integers, Sequences, SequencesExt, AtkObjects

CONSTANTS
  MayHold,             \* <<p, c>> where p can be the parent of c
  Transient,           \* objects with ATK_STATE_TRANSIENT
  ManagesDescendants,  \* objects with ATK_STATE_MANAGES_DESCENDANTS
  StartTrees,          \* what children can be when the bridge is loaded
  Reentrant,           \* the toolkit changes its tree while it is asked
  MaxQueue             \* bound: signals are emitted on a shorter queue only

ASSUME CacheAssumption ==
  /\ Root \in Object
  /\ MayHold \in SUBSET (Object \X (Object \ {Root}))
  /\ Transient \in SUBSET (Object \ {Root})
  /\ ManagesDescendants \in SUBSET Object
  /\ StartTrees \in SUBSET [Object -> Seq(Object)]
  /\ Reentrant \in BOOLEAN
  /\ MaxQueue \in Nat

VARIABLES
  children,          \* the toolkit's: the children an object owns
  objects,           \* SpiCache.objects
  add_traversal,     \* SpiCache.add_traversal
  to_add,            \* the local to_add of add_pending_items
  add_pending_idle,  \* SpiCache.add_pending_idle # 0
  cpc,               \* where add_pending_items is: in neither loop, in one
                     \* of them, or in the second one in object-added
  listening,         \* spi_cache_init is over, its listeners are installed
  unwatched          \* history: cached before object-added had a listener

cacheVars == <<children, objects, add_traversal, to_add, add_pending_idle,
               cpc, listening, unwatched>>

CacheTypeOK ==
  /\ children \in [Object -> Seq(Object)]
  /\ objects \in SUBSET Object
  /\ add_traversal \in Seq(Object)
  /\ to_add \in Seq(Object)
  /\ add_pending_idle \in BOOLEAN
  /\ cpc \in {"main", "drain", "add", "announce"}
  /\ listening \in BOOLEAN
  /\ unwatched \in SUBSET Object

Attached(o) == \E p \in Object : o \in ToSet(children[p])
Queued(o) == o \in ToSet(add_traversal) \cup ToSet(to_add)

(* spi_cache_init: add_subtree queues the root and calls                   *)
(* add_pending_items itself.                                               *)
CacheInit ==
  /\ children \in StartTrees
  /\ objects = {}
  /\ add_traversal = <<Root>>
  /\ to_add = <<>>
  /\ add_pending_idle = FALSE
  /\ cpc = "drain"
  /\ listening = FALSE
  /\ unwatched = {}

-----------------------------------------------------------------------------
(* The toolkit *)

(* The toolkit runs when the main loop does and, if it is Reentrant, when  *)
(* it is asked: for the state and the children of what is in the queue,    *)
(* and about an object that is announced.                                  *)
AppMayRun ==
  \/ cpc = "main"
  \/ /\ Reentrant
     /\ \/ cpc = "drain" /\ add_traversal # <<>>
        \/ cpc = "announce" /\ listening

\* how often a child of p is queued: the root has a listener of its own
Copies(p, c) == IF p = Root THEN <<c, c>> ELSE <<c>>

\* Mutant: the test for a scheduled idle is the wrong way round.
ChildAddedIdleIfQueued(p, c) ==
  IF listening /\ p \in objects
    THEN /\ add_traversal' = add_traversal \o Copies(p, c)
         /\ add_pending_idle' = (add_pending_idle /\ add_traversal # <<>>)
    ELSE UNCHANGED <<add_traversal, add_pending_idle>>

(* children-changed::add on p: child_added_listener runs for every object, *)
(* toplevel_added_listener as well for the root; both queue the child.     *)
ChildAdded(p, c) ==
  IF listening /\ p \in objects
    THEN /\ add_traversal' = add_traversal \o Copies(p, c)
         /\ add_pending_idle' = TRUE
    ELSE UNCHANGED <<add_traversal, add_pending_idle>>

SignalPossible(p, c) ==
  /\ AppMayRun
  /\ <<p, c>> \in MayHold
  /\ ~Attached(c)
  /\ Len(add_traversal) < MaxQueue

\* p takes c as a child it owns.
Attach(p, c) ==
  /\ SignalPossible(p, c)
  /\ p \notin ManagesDescendants
  /\ children' = [children EXCEPT ![p] = Append(@, c)]
  /\ ChildAdded(p, c)
  /\ UNCHANGED <<objects, to_add, cpc, listening, unwatched>>

\* p signals a child that it makes on demand and does not own.
Mention(p, c) ==
  /\ SignalPossible(p, c)
  /\ p \in ManagesDescendants
  /\ ChildAdded(p, c)
  /\ UNCHANGED <<children, objects, to_add, cpc, listening, unwatched>>

\* p gives c up; nothing in the cache listens to that.
Detach(p, c) ==
  /\ AppMayRun
  /\ \E i \in DOMAIN children[p] :
       /\ children[p][i] = c
       /\ children' = [children EXCEPT ![p] = RemoveAt(@, i)]
  /\ UNCHANGED <<objects, add_traversal, to_add, add_pending_idle, cpc,
                 listening, unwatched>>

(* o is destroyed, which nothing that holds a reference to it allows, and  *)
(* object-deregistered runs remove_object.  What was cached with the tree  *)
(* there was at the start is registered only if a message has named it     *)
(* since: if none has, nobody notices.                                     *)
Gone(o) ==
  /\ o # Root /\ ~Attached(o) /\ ~Queued(o)
  /\ \/ objects' = objects \ {o}
     \/ o \in unwatched /\ UNCHANGED objects
  /\ unwatched' = unwatched \cap objects'
  /\ children' = [children EXCEPT ![o] = <<>>]
  /\ UNCHANGED <<add_traversal, to_add, add_pending_idle, cpc, listening>>

-----------------------------------------------------------------------------
(* add_pending_items *)

\* The main loop dispatches the idle source.
IdleFires ==
  /\ cpc = "main" /\ add_pending_idle
  /\ cpc' = "drain"
  /\ UNCHANGED <<children, objects, add_traversal, to_add, add_pending_idle,
                 listening, unwatched>>

\* Mutant: the queued object's own children are not walked.
WalkedChildrenNone(o) == <<>>

\* what append_children queues for o
WalkedChildren(o) ==
  IF o \notin objects \cup ManagesDescendants THEN children[o] ELSE <<>>

\* one round of the first loop
DrainHead ==
  /\ cpc = "drain" /\ add_traversal # <<>>
  /\ LET current == Head(add_traversal) IN
       IF current \in Transient
         THEN /\ add_traversal' = Tail(add_traversal)
              /\ UNCHANGED to_add
         ELSE /\ to_add' = Append(to_add, current)
              /\ add_traversal' = Tail(add_traversal) \o WalkedChildren(current)
  /\ UNCHANGED <<children, objects, add_pending_idle, cpc,
                 listening, unwatched>>

DrainDone ==
  /\ cpc = "drain" /\ add_traversal = <<>>
  /\ cpc' = "add"
  /\ UNCHANGED <<children, objects, add_traversal, to_add, add_pending_idle,
                 listening, unwatched>>

(* One round of the second loop: add_object puts the object in the cache   *)
(* and emits object-added, which the toolkit is asked in; then its         *)
(* reference is given back.  The head is taken off to_add, which nobody    *)
(* else sees, at the end of the round.                                     *)
AddHead ==
  /\ cpc = "add" /\ to_add # <<>>
  /\ objects' = objects \cup {Head(to_add)}
  /\ unwatched' = IF listening THEN unwatched \ {Head(to_add)}
                  ELSE unwatched \cup {Head(to_add)}
  /\ cpc' = "announce"
  /\ UNCHANGED <<children, add_traversal, to_add, add_pending_idle, listening>>

HeadReleased ==
  /\ cpc = "announce" /\ to_add # <<>>
  /\ to_add' = Tail(to_add)
  /\ cpc' = "add"
  /\ UNCHANGED <<children, objects, add_traversal, add_pending_idle,
                 listening, unwatched>>

AddDone ==
  /\ cpc = "add" /\ to_add = <<>>
  /\ cpc' = "main"
  /\ add_pending_idle' = FALSE
  /\ listening' = TRUE
  /\ UNCHANGED <<children, objects, add_traversal, to_add, unwatched>>

AddPendingItems ==
  IdleFires \/ DrainHead \/ DrainDone \/ AddHead \/ HeadReleased \/ AddDone

CacheNext ==
  \/ \E p, c \in Object : Attach(p, c) \/ Mention(p, c) \/ Detach(p, c)
  \/ \E o \in Object : Gone(o)
  \/ AddPendingItems

CacheSpec == CacheInit /\ [][CacheNext]_cacheVars

(* The main loop comes to its idle sources once nothing else is pending,   *)
(* and a callback runs to its end.                                         *)
FairCacheSpec == CacheSpec /\ WF_cacheVars(AddPendingItems)

-----------------------------------------------------------------------------
(* The wakeup is never lost: while the main loop runs, what is queued has  *)
(* an idle callback coming for it (accessible-cache.c:347).                *)
PendingHasIdle == cpc = "main" /\ add_traversal # <<>> => add_pending_idle

Listed(p, c) ==
  /\ p \in objects \ ManagesDescendants
  /\ c \notin Transient
  /\ c \in ToSet(children[p])

(* Whenever nothing is pending, the cache is closed downwards: every child *)
(* that a cached object owns is cached, in whatever order the tree was     *)
(* put together, moved about and taken apart (object.c:51).                *)
SubtreeCached ==
  cpc = "main" /\ add_traversal = <<>> =>
    \A p, c \in Object : Listed(p, c) => c \in objects

\* A child that a cached object owns and keeps is cached in the end.
EventuallyCached ==
  \A p, c \in Object : Listed(p, c) ~> (c \in objects \/ ~Listed(p, c))
=============================================================================
