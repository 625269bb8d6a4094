# at-spi2-atk in TLA+

A verification development for at-spi2-atk: the GTK module that exports a
program's ATK objects over D-Bus to assistive technologies, and cspi, the C
library those clients use. Modules are checked with TLC on small instances and
the core ones are proved about with TLAPS.

## 1. The system

The bridge (`atk-adaptor/`) runs in the thread of the application's main loop.
Nothing in it is concurrent in the sense of threads. What makes it hard is that

- **objects are borrowed**: the bridge and its clients refer to `AtkObject`s the
  toolkit creates and destroys at will, and an address is used again;
- **work is deferred**: cache additions wait for an idle callback, leases for a
  timeout, answers for a reply, and the tree changes in between;
- **calls nest**: dropping a reference runs finalizers, asking the toolkit for a
  name may make it build objects and signal them, an action may run a main loop,
  and waiting for the registry dispatches whatever else has arrived;
- **lists change under their walkers**: in cspi a listener may register and
  remove listeners, and take and drop references, while it is being called;
- **two descriptions of one interface** are kept by hand, the tables of functions
  and the strings that clients introspect.

| component | state | operations | talks to |
|---|---|---|---|
| register (`accessible-register.c`) | `reference_counter`, `ref2ptr`, a datum on every object | object to path, path to object, deregister on destruction | emits `object-deregistered` to the cache and its adaptor |
| cache (`accessible-cache.c`) | `objects`, `add_traversal`, `add_pending_idle` | child-added listeners, idle callback, remove | listens to ATK and the register, emits `object-added` / `object-removed` |
| leasing (`accessible-leasing.c`) | `expiry_queue`, `expiry_func_id` | take, expiry timeout | keeps objects alive that the cache does not hold |
| references (`object.c`) | none | append a reference to a message: lease if not cached, then register | register, cache, leasing |
| cache adaptor (`cache-adaptor.c`) | none | AddAccessible and RemoveAccessible signals, GetItems | listens to the cache |
| events (`event.c`) | listener ids | ATK signals to D-Bus signals, key events with a re-entrant call | references, leasing, registry daemon |
| start and shutdown (`bridge.c`) | `spi_global_app_data`, `inited`, the exit handler | init, register with the registry daemon, exit | all of the above |
| droute (`droute.c`) | methods and properties of a path | dispatch, properties, introspection | register (`get_datum`), adaptors |
| adaptors (`adaptors/*.c`), introspection data | none | one function per D-Bus method or property | ATK, references |
| socket, plug (`socket-adaptor.c`, `bridge.c`) | embedded plug's name and path | embed, embedded | another process's bridge |
| collection (`collection-adaptor.c`) | none | match rules over tree traversals | ATK, references |
| cspi: calls (`spi-main.c`) and wrappers (`spi-*.c`) | one exception | send, wait by dispatching, look at the exception | bridge's adaptors |
| cspi: accessibles (`spi-main.c`, `spi-accessible.c`) | a table per application, counts, `live_refs` | ref, unref, updates, removals, applications that come and go | bridge's cache signals, listeners |
| cspi: events (`spi-event.c`) | `event_listeners` and their callbacks | register, deregister, dispatch | accessibles |
| cspi: devices, registry (`spi-listener.c`, `spi-registry.c`) | `device_listeners` | register, deregister, deliver | registry daemon |
| common, dbind | none | state sets, marshalling | all |

What makes each correct:

- **register**: a path a client holds names the object it was made for or
  nothing, however addresses are reused; the table never names a dead object.
- **cache**: once nothing is pending, every child that a cached object owns is
  cached; nothing dead is; the wakeup for the queue is never lost.
- **leasing**: a lease lasts its minimum, does end, and the next one to end has
  a timeout; the chain of timeouts is never lost.
- **references, announcements, events**: every reference taken is given back
  once; a client's view (announced, not withdrawn) is the cache; what was sent
  with a lease is found under its path; what nobody wants is freed.
- **droute**: one answer to every call, from the object the path was made for;
  a client is told an object does not exist only when it does not.
- **start and shutdown**: nothing is used before it is there or after it is gone;
  a key event gets its own answer and gets it; who exits is not listed any more.
- **adaptors**: the references handed over in a call are each given back once,
  and what a reply names can still be found; what is announced is served.
- **collection**: a walk lists what it should, in order, once, and ends.
- **sockets and plugs**: parent and child agree although two processes hold
  them; nobody waits for ever for somebody who waits.
- **cspi**: a failure is reported to the caller whose failure it is; counts are
  right whatever listeners do; lists survive being changed while walked.

## 2. Modules

| module | models | proofs |
|---|---|---|
| `AtkObjects` | addresses, the root, NULL | |
| `ObjectDirectory` | abstract: names are bound once, to one life, and then retired | |
| `Register` | `accessible-register.c` | `RegisterProofs` |
| `Leasing` | `accessible-leasing.c`, both clocks, GLib's early timeouts | `LeasingProofs` |
| `Cache` | `accessible-cache.c` on a toolkit that changes its tree | `BridgeProofs` |
| `AtkBridge` | `Register` + `Cache` + leases, with `object.c`, `cache-adaptor.c`, `event.c` and a client: who keeps objects alive | `BridgeProofs` |
| `DRoute` | `droute.c` on top of `Register`, with calls inside calls | `DRouteProofs` |
| `AdaptorMethods`, `Announced`, `ClientStubs` | three tables: what the adaptors implement, what introspection announces, what the wrappers of cspi send | |
| `AdaptorCalls` | a call to an adaptor: the answer the tables give it, and what becomes of the objects handed over | `AdaptorProofs` |
| `ToolkitTree` | the tree of objects a walk goes over, and document order | `AdaptorProofs` |
| `MatchRules` | the match functions of `collection-adaptor.c`, and what a rule says | `AdaptorProofs` |
| `Collection` | `collection-adaptor.c`: traversals and methods | `AdaptorProofs` |
| `BridgeLifecycle` | `bridge.c` and the registration of listeners and key events in `event.c`, with the registry daemon | `LifecycleProofs` |
| `Embedding` | sockets and plugs of several applications, a bus, clients that ask | `EmbeddingProofs` |
| `ClientCalls` | cspi's exception and what wrappers return | `ClientProofs` |
| `ClientObjects` | cspi's accessibles of one application | `ClientProofs` |
| `ClientEvents` | cspi's listeners for events and devices | `ClientProofs` |

The `MC*` modules give TLC its constants. `MCAdaptors` puts `AdaptorCalls` and
`Collection` side by side, which share the main loop and no object; `MCClient`
does so for the three parts of cspi, of which each behaviour shows one, as they
share no variable. A definition marked "Mutant" is a deliberately wrong version
of the one after it: each property is known to fail when one of them takes the
place of the original.

**Correspondence.** Variables carry the name of the C field or local they model
(`add_traversal`, `to_add`, `expiry_queue`, `ref2ptr`); actions are named for the
function, or the loop of it, they model.

- *Register.* An object is a *life* `<<o, gen[o]>>` of an address. A path is the
  integer printed in it, with the sign that `%d` gives the upper half of a
  guint. `assign_reference` wraps at `RefModulus` (2^32 in the code).
- *Leasing.* Time is seconds and ticks. The wall clock may be set
  (`SetWallClock`), GLib's clock may not. `Take`, then `Arm`, is
  `spi_leasing_take`; `Fire`, `Expire`*, `ExpireDone`, `Arm` is `expiry_func`,
  with the clock ticking between its steps, since finalizers run in it.
  `next_expiry` is a guint: the difference is taken modulo `GuintModulus`.
- *Cache.* `add_pending_items` is `IdleFires`, `DrainHead`*, `DrainDone`,
  (`AddHead`, `HeadReleased`)*, `AddDone`. `Reentrant` says whether the toolkit
  may change its tree while it is asked something, and `AppMayRun` when that is:
  the first loop asks for states and children as long as the queue has a head, and
  `object-added`, emitted between `AddHead` and `HeadReleased`, asks for all that
  AddAccessible says. Between the loops nobody is asked. At startup the same code
  runs before any listener is there (`listening`), so that nothing is announced;
  `unwatched` is what was cached then, which may be destroyed without the cache
  being told (`Gone`).
- *AtkBridge.* A handler is the list `todo` of the steps it takes (make a path,
  lease, append a reference, announce, unref); nothing but the destruction of an
  object whose count is zero comes between them. `refs` is GObject's count,
  `Owners` what the toolkit owns of it, `leaked` counts the references that the
  code loses, at the three places that do. `Dies` keeps the order of the weak
  notify: `object-deregistered` comes before the register forgets the object, and
  RemoveAccessible names it while it still counts as cached (`CachedInRemoval`),
  without which a lease would be taken on a dying object (`LeasedInRemoval`). The
  toolkit is not asked anything meanwhile, so nothing else runs. Leases end at any
  time here: when is `Leasing`'s subject. `emit_event` compares a freed string
  (`event.c:350`): "maybe lease" takes either outcome.
- *DRoute.* The running functions are a stack; calls are dispatched when it is
  empty or from a main loop that the innermost function runs. The uninitialised
  reply of `handle_properties` is NULL, or takes the process down.
- *Adaptors.* A row of `AdaptorMethods` is a method with the signatures its
  function reads and writes and the way it handles objects: the toolkit hands a
  reference over and it is dropped (`returned`, `listed`, `examined`), one is
  taken because the appending function drops one (`linked`), or none is
  (`borrowed`, `targets`). `Receive` is `handle_other` or `handle_properties` up to
  the function, `Hand` or `Show` the call to ATK, `Refer` and `Drop`
  `spi_object_return_reference` and its relatives, `Reply` the end. A handler is
  interrupted by nothing but ATK.
- *Collection.* A walk is a sequence of steps, one for each turn of a loop, call or
  return of the C, so that an invariant can speak of its middle; nothing else of
  the application runs between them, and the tree stays as it is. `frames` is the
  C stack of `sort_order_canonical`: an activation has `obj`, `index` (the loop's
  `i`, from 1) and `flag`. `Visit` is a turn of its loop with the call in it,
  `Return` the return, at the end or at `pobj`. `RightSubtree` is a turn of
  `inorder`'s loop, `Again` the call after it, `Lost` the loop with no parent, which
  does not end. `Test`, `Step` and `Drill` are the parts of
  `sort_order_rev_canonical`, whose recursion is always its last call. `kount` is
  the length of `matches`. What a walk is to list (`Sought`, `Following`, `Lists`)
  is said with document order (`Precedes`) and no walk.
- *BridgeLifecycle.* `waiting` is the C stack: one entry for each
  `send_and_allow_reentry`, or for `register_application`'s, with the place where
  `set_reply` will put the answer. `KeyPress` inside another wait needs
  `reenter` (`AT_SPI_REENTER_G_MAIN_LOOP`). With `reenter` a key event waits in a
  main loop (`event.c:78`), which watches the connection's timeouts
  (`bridge.c:499`), and its call has libdbus's default one (`event.c:70`):
  `TimesOut` gives it an error, and the answer may still come (`late`). Waiting with
  `dbus_connection_read_write_dispatch`, as the registration and the key events
  without `reenter` do, knows no timeout. What is dereferenced when it is NULL ends
  in `program`.
- *Embedding.* One inbox per application; `waiting[a]` is
  `dbus_connection_send_with_reply_and_block`, during which nothing is
  dispatched. `asksSocket` and `asksPlug` are the functions overridden in the
  ATK classes, which are per class and not per object.
- *cspi.* `ClientCalls`: `exception` is the static of `spi-main.c`, `pending` the
  stack of wrappers inside listeners. `ClientObjects` works on a record of the
  heap, so that the C's order of operations is the order of operators; a turn of
  the loops of `handle_addition` and `unref_object_and_children` is an action,
  `visits` being the stack of calls of the latter, and `mine` what the handler
  refers to meanwhile. `held`, `kept`, `mine` and `stolen` say whose each
  reference is. An event takes a reference to its source, which nobody drops, and
  one to the object that is its value; each entry that hears it drops one to the
  value (`EventArrives`, `EventHeard`). `owed` counts those that were taken for
  values and not dropped, and an entry that drops one more steals it (`overheard`).
  An event with a value of another kind leaves `v_type` as the stack had it
  (`spi-event.c:1185`), so any earlier object may be taken for its value, or memory
  that is none (`EventUnread`). `ClientEvents`:
  `frames` is the stack of walks over `event_listeners` and the callbacks; a
  removal marks the frames whose next link it frees. An entry has no reference to
  its listener, so `ReleaseListener` leaves it behind (`stale`) until it is
  deregistered; deregistration may ask for any name (`Name`), registered or not, as
  the code searches for it with `strcmp`.

## 3. What the runs check

| run | shows |
|---|---|
| `leasing` | `TimeoutScheduled` always; `QueueInExpiryOrder`, `TimeoutCoversHead`, `LeaseIsMinimum` and the liveness property `LeasesEnd` as long as the wall clock has not been set |
| `cache` | `PendingHasIdle`, `SubtreeCached`, and `EventuallyCached` (liveness), from every starting tree, without re-entrance |
| `cache_reentrant` | *violated* `EventuallyCached` with re-entrance: the wakeup is lost |
| `bridge` | `TableAgreesWithData`, `PathsAreStable` and `ImplementsDirectory` of the register as the bridge uses it: it refines `ObjectDirectory`; `BridgeTypeOK`, `RefsAccounted`, `NothingDangles`, `ViewIsCache`, `LeasedResolve`; `ImplementsCache`: the composition refines `Cache` |
| `bridge_managed` | `UnwantedAreFreed` (liveness) with children made on demand, transient objects and lost references; that references are accounted for there as well is `BridgeRefsAccounted`, section 4 |
| `bridge_loaded` | *violated* `CachedAreAlive` with a window that was open before the bridge was loaded |
| `droute` | `OneAnswer`, `RunsOnNamedObject`, `RefusedOnlyIfGone`, with the counter wrapping as well |
| `droute_one` | *violated* `CacheReachable` |
| `adaptors` | `ReferencesAdd`, `NamedObjectsLive`; `DescriptionsHold`, `OfferedIsServed`: what is announced and offered is served, but for the differences they name; `WalksListInOrder`, `RulesMeanWhatTheySay` and `WalkEnds` (liveness) for collections |
| `lifecycle` | `NullOnlyAfterShutdown`, `OwnAnswer`, `LeftListed`, and `KeysReturn` (liveness) |
| `embedding` | `ParentsAgree`, `AbortedByLonePlug`, and `AnsweredButInCircle` (liveness) |
| `cspi` | `FailuresAreOwn`; `ClientCounts`, `NothingUsedIsFreed`; `RunsItsCallbacks`, `ListsSurvive` |

Many of the properties of the last four runs have the form "only then": the code
does go wrong, and the property says exactly when. `NullOnlyAfterShutdown`, `OwnAnswer`,
`AbortedByLonePlug`, `NothingUsedIsFreed`, `ListsSurvive` and `FailuresAreOwn` are
of this kind: the other side of each is a list of what a caller must not do.

`leasing`, `droute*`, `adaptors`, `lifecycle`, `embedding` and `cspi` run without
deadlock checking: the model's clock stops at `MaxSeconds`, a process that has
crashed or exited stops, and clients may have nothing more to ask.

**Findings.** The violated properties are disagreements between what a comment or
a test says and what the code does:

1. `droute_one`: `droute_add_one` gives its data to the introspection callback
   and leaves `user_data` NULL, so a path registered with it, the cache's, answers
   every method with "does not exist" (`droute.c:179`). `GetItems` and `GetRoot`
   therefore never run.
2. `cache_reentrant`: `add_pending_idle` is cleared at the end of the callback
   whatever was queued meanwhile (`accessible-cache.c:295`). In the run the
   callback announces an object to the clients, for which the toolkit is asked for
   its children; it builds one, and the signal queues it without scheduling
   anything, as the callback still counts as pending. Then the callback ends: the
   child waits for another signal, which need not come. (Also, a child of an object
   that is in `to_add` and not yet in `objects` is ignored, `:280`; that no run is
   spent on.)
3. `bridge_loaded`: the tree that is there when the bridge is loaded is cached
   before anything listens to the cache (`accessible-cache.c:126`, run at
   `bridge.c:512`, before `:537`), so its objects have no path and nobody watches
   their end: one that is destroyed before a message has named it stays in
   `objects` as a dangling pointer, though "we need to keep track of object
   destruction" (`accessible-register.c:42`).

**Known limits**, which the models contain or leave out as said, and no run is
spent on:

- *register*: past 2^32 registrations references are given out twice
  (`accessible-register.c:149` has the TODO), which is why the register's
  properties say `~Wrapped`.
- *leasing*: the end of a lease is a wall clock time (`accessible-leasing.c:193`),
  which is why the properties say `ClockNeverSet`. A callback that takes more than
  a second leaves a head that is already over and makes `next_expiry`, a guint,
  wrap (`:160`): the next timeout is 136 years away. `MaxStall` bounds callbacks
  to a second; raise it and `TimeoutCoversHead` fails.
- *cache*: a managing parent that signals a child gets it cached (`:332`),
  contrary to `object.c:51`.
- *lost references*: `accessible-cache.c:276`, `:339` and `event.c:776`; `leaked`
  counts them.
- *droute*: `handle_properties` tests an uninitialised `reply` for a member it
  does not know (`droute.c:388`); `OneAnswer` speaks of a process that lives on.
- *events*: without `AT_SPI_REENTER_G_MAIN_LOOP` a key event waits with
  `read_write_dispatch`, which never runs libdbus's timeouts, so a registry that is
  alive and silent stops an application at it for ever (`event.c:84`). With it the
  key is passed on after libdbus's 25 seconds, and the registry, which goes on
  asking, may say afterwards that it was consumed: `OwnAnswer` says `late`.
- *start*: without a bus `g_error` aborts the program; `inited` is never reset, so a
  bridge that was shut down does not start again.
- *sockets*: the child count of an occupied socket is 1 and its list of children
  is empty; not modelled.
- *cspi*: a listener for `object:state-change:defunct` that returns without
  keeping the source makes the drop of its last reference recurse until the stack
  is full (the state "stack overflow"); the source of an event keeps a reference
  (`spi-event.c:1200`, counted in `kept`), and so does a value that nobody hears
  of; two entries that hear of one value drop a reference that is the table's or
  the client's (`:841`); an application that leaves drops its table's references
  and keeps the table. The bridge sends AddAccessible and
  RemoveAccessible, and cspi listens for updateAccessible and removeAccessible;
  cspi's filter compares 28 characters with a name of 21. cspi is not built:
  `SUBDIRS` in `Makefile.am` leaves it out, and two of its constants are no longer
  defined. It is modelled as it is written.

**Bounds.**

- `leasing`: two leases of one second on quarter-second ticks, five seconds. Two
  leases are head and successor; an early timeout, a truncated second and a stall
  of a whole second all fit; the clock may be set once, back by one second or
  forward by two, which exceeds the lease.
- `cache`: five objects, one transient, one managing its descendants, every
  forest of the given shape at startup, children moved between parents, signals
  while at most one other is queued. An object can be queued twice, in both
  lists, below another that is queued, and be moved or destroyed meanwhile.
- `bridge`: a window and its child, each allocated twice, one lease each and
  signals on an empty queue. Two addresses let one be registered while the other
  dies, and a second life is what an address that is used again needs; the
  counter does not wrap here, which is `droute`'s business. Except in
  `bridge_loaded`, the bridge is loaded before the tree is built: finding 3 is
  what happens otherwise. `bridge_managed` adds a managing parent, a transient
  child and one lost reference.
- `droute`: two calls, one of which may run inside the other, one address with
  four lives on three references.
- `adaptors`: every row of the three tables as a call, get, set or get-all, with
  the arguments announced, wrapped, right and missing, to a window, a text and a
  link, any of which may be the object handed over, with one lease each.
  Collections: two trees of five objects, one broad and one deep, nine rules that
  use every match type, no limit or one of 2 matches, every collection, current
  object, traversal, sort order and signature. Two levels below an object are what
  the recursion needs to leave and re-enter a level. The two parts have 748484
  states between them.
- `cache_reentrant`: a window and its child below the root are what it takes.
- `lifecycle`: two key events, one of which may be inside the other or both of
  which may wait while answers come in either order, or too late, one when the
  other waits; one start, any shutdown (16830 states).
- `embedding`: two applications, a socket in each, three plugs of which two are
  in one class, two embeddings, two queries, which is what a circle of two needs
  (224949 states).
- `cspi`: six wrappers, one of each kind, nested twice. For the objects a root and
  a leaf in four structures, so that both can be made again, one reference of the
  client's to each, which is enough to lose it; a handler that may make
  Accessibles needs two structures nobody has used (`Room`), which is as many as
  one step of it can make. One event at a time per source or value (`MaxEvents`),
  an object event of the root whose value is the leaf and one of the leaf without
  an object; it may be heard until two references have been stolen of an
  Accessible (`MaxStolen`), that is by the one entry it was taken for and two more.
  For the listeners three entries of two listeners: one with a detail, and one
  without that is registered twice; two callbacks (interchangeable), two devices,
  dispatch inside dispatch. After a slip the lists are changed no more
  (`SameLists`): what was freed is run into by walking and dispatching, and more
  slips would show nothing new. Altogether 1254337 states.

**Fairness.** `FairLeaseSpec`: time passes, GLib dispatches a source that is due,
a callback runs to its end. `FairCacheSpec`: the idle source is dispatched once
the main loop has nothing of a higher priority, which a toolkit that stops
signalling gives it; the callback runs to its end. `FairBridgeSpec`: a handler
runs to its end and objects die when their count is zero (weak fairness); the
main loop gets round to every source that is ready, though a handler may disable
it for the moment again and again (strong fairness, for the expiry timeout and
the idle callback). No fairness is assumed of the toolkit or of clients.
`LifeSpec`: a waiting call reads what arrives and returns, the bus delivers, the
registry gets round to what it is sent and answers it or dies (weak fairness; a
step is taken away only by the one that ends the same wait). That calls time out is
not assumed, and could only end waits sooner. Without an answer from the registry
the wait of an application that does not re-enter has no end, as said above.
`EmbedSpec`: main loops run and the millisecond passes; nobody is assumed to wait
out the 25 seconds, which is why a circle is an exception in `AnsweredButInCircle`. `MCSpec` of `MCAdaptors`: a walk goes on, as a
function does that is running (weak fairness of `Walk`); no client is assumed to
ask.

## 4. What is proved

| theorem | hypotheses |
|---|---|
| `RegisterTypeCorrect` | none |
| `RegisterTableAgrees`, `RegisterPathsStable` | none; both properties say `~Wrapped` |
| `RegisterImplementsDirectory` | `[]~Wrapped` |
| `LeaseTypeCorrect`, `LeaseTimeoutScheduled` | none |
| `LeaseQueueOrdered`, `LeaseMinimum` | none; both properties say `ClockNeverSet` |
| `LeaseTimeoutCoversHead` | a callback takes at most a second |
| `CacheTypeCorrect` | none |
| `CachePendingHasIdle`, `CacheCoversTree` | the toolkit does not re-enter the bridge |
| `BridgeTypeCorrect`, `BridgeRefsAccounted`, `BridgePendingAlive` | none |
| `BridgeLeasedResolve` | none; the property says `~Wrapped` where it speaks of the path's object |
| `BridgeImplementsRegister` | none |
| `BridgeImplementsCache` | none |
| `BridgeCoversTree` | the toolkit does not re-enter the bridge |
| `BridgeNothingDangles`, `BridgeViewIsCache` | the bridge was loaded before the tree was built |
| `RouteImplementsRegister`, `RouteTypeCorrect` | none |
| `RouteRunsOnNamedObject`, `RouteRefusedOnlyIfGone` | none; both properties say `~Wrapped` |
| `RouteOneAnswer` | none |
| `AdaptorTypeCorrect`, `AdaptorReferencesAdd`, `AdaptorNamedObjectsLive`, `AdaptorOfferedIsServed`, `AdaptorDescriptionsHold` | none |
| `DocumentOrder`, `CollectionInvariant`, `CollectionTypeCorrect`, `CollectionWalksListInOrder` | none; the last names the exceptions |
| `CollectionRulesMeanWhatTheySay` | none; the property says `WellRead` |
| `EmbeddingTypeCorrect`, `EmbeddingAbortedByLonePlug`, `EmbeddingParentsAgree` | none |
| `LifeTypeCorrect`, `LifeNullOnlyAfterShutdown`, `LifeOwnAnswer`, `LifeLeftListed` | none |
| `EventsRunTheirCallbacks`, `CallsFailuresAreOwn` | none |
| `EventsListsSurvive` | none; the property names the slips |
| `ObjectsClientCounts`, `ObjectsNothingUsedIsFreed` | none; references dropped by who had none are counted, and the second says who drops them |

Beside these, the proofs use the named assumptions on the constants
(`RegisterAssumption`, `LeasingAssumption`, `CacheAssumption`,
`BridgeAssumption`, `RouteAssumption`, `AdaptorAssumption`,
`EmbeddingAssumption`, `LifeAssumption`, `ClientCallsAssumption`,
`EventsAssumption`, `ObjectsAssumption`, `TreesAssumption`, `RulesAssumption`,
`CountsAssumption`), which TLC evaluates. Most only give constants their types
and tell model values apart: an object is not an answer, a callback is not the
absence of one. `BridgeAssumption` also says that what the toolkit has built
before the bridge is loaded is a forest: a child has one parent, as ATK has it.
`TreesAssumption` says the same of the trees that are walked: an object is a child
once at most, and no object is below itself. Without the last,
`sort_order_canonical` would not end.
`ClientCallsAssumption` says that a client uses wrappers of the library.

*Register.* The invariant `RegIndInv` adds to the properties that references
above the counter have never been issued (`FreshAbove`), that every registered
live object is watched by `deregister_object` (`Watched`), that a life has one
reference, and that a table entry is the life it was issued for. Freshness is
what `PathsAreStable` needs when an object is registered, watching is what it
needs when one dies; neither follows from the property.

*Leasing.* `QueueAsTaken` ties `expiry_s` to when the lease was taken, and later
elements to later times, as long as the clock has not been set: order and minimum
follow. For `TimeoutCoversHead` the clock `expiry_func` read (`t`) is at most one
second old and then only early in the second (`ReadRecently`), so that the head
left in the queue is not over when `add_expiry_timeout` runs (`HeadAhead`). This
is where the bound of one second on a callback comes from.

*Cache.* `CacheCoversTree` is not inductive: during the callback a child is
covered if it is cached or queued in either list, its parent is in `to_add`, or
the parent has yet to be walked. The invariant says so for each value of `cpc`.

*AtkBridge.* `BridgeInv` is inductive for any tree there was when the bridge was
loaded. Beside the register's `RegIndInv` and the types it says that the
toolkit's tree is a forest of live objects (`TreeInv`); that whatever gives an
object a reference, the toolkit, a lease, a queue, a handler or a leak, gives it
to one that exists (`HoldersInv`); and that a handler drops references in its last
step only and leases nothing that it has not made a path for (`ScriptInv`).
`RefsAccounted` is an equation between a count and the occurrences of an object in
four places, so most of the proof is about what appending to a sequence, taking
its head off and removing from its middle does to occurrences. That a handler
frees nothing before it is through is what carries the rest: a step of it that
was right when the list was made is right when its turn comes.

`CacheInv` adds that what was cached since the cache has listeners has a path or
is about to be given one (`CachedHavePaths`), without which nobody would notice its
end, and that the client has been told of it or is about to be (`ViewInv`). Of
`unwatched` objects neither is true, which is why `Cache` itself lets them die
unnoticed. From the two invariants every step of the composition is a step of
`Register` or leaves it alone, and a step of `Cache` or leaves it alone, so that
what is proved of the register and the cache alone holds of them in the bridge:
`BridgeCoversTree` is `CacheCoversTree` carried over in this way. That nothing
dangles and that the client's view is the cache needs more: with `LoadedFirst` only
the root was ever cached unwatched (`OnlyRootBefore`), and the root does not die.
The run `bridge_loaded` is the counterexample without it.

*DRoute.* Every step of the router is a step of the register or leaves it alone,
so `RegIndInv` holds under any nesting of calls. A function is pushed on the stack
only when `path_get_datum` found something, and by `EntriesAsIssued` that is the
one life the path was made for; the root is never destroyed. Answers are counted
by message, so `OneAnswer` needs `InOnePlace`: a message is in the inbox or on the
stack, once. `RefusedOnlyIfGone` needs `OneAnswer` in turn: the answer a step adds
is the only one of its message, and only `path_get_datum` can have made it a
refusal; that the table then has nothing for the path means, by
`OneReferencePerLife`, that no life it was issued for goes on.

*AdaptorCalls.* `AdaptorInv` adds to `ReferencesAdd` that what a handler has in
hand exists though it may have no reference to it (`GivenLives`), that nobody has
anything between calls (`HandEmpty`), and that what is in the cache is held by
the toolkit or a lease (`CachedIsHeld`). The last is what `NamedObjectsLive` needs:
an object that is in the cache is not leased again when it is named, so it must
be held by somebody other than the handler that is about to drop it.

`OfferedIsServed` is about the tables, and for any assignment of interfaces to
objects: `AnswerInv` says that the answer is the one that the tables of the call's
own interface make of it, `OfferedServes` that an object passes the tests of the
functions of whatever it offers, with the one exception that the property names.

`DescriptionsHold` compares three tables, row by row and for any assignment of
interfaces to objects. `AnnouncedMethodsAgree` is that what introspection
announces of a method is what its function reads and writes, but for the methods in
`Differences`; `AnnouncedPropertiesAreNone` that of the properties announced only
three exist under that name; `StubsAreStrange` that what a wrapper calls or reads is
no method or property of any adaptor, but for "contains", which is sent other
arguments (`ContainsIsRefused`). The rest is `AnswerInv`
again: the answer is what the tables make of the call.

*Collection.* `CollectionInv` says of a walk in the middle what it has listed and
what it is still to walk. `Going(q, ls, S, A, back)` is the heart of it: ls lists
what matches in S but not in A, in order and before all that is in A, or there are
as many as were asked for. What is left differs from walk to walk. For
`sort_order_canonical` it is `AllAhead`, what all activations have still to do, and
`Stack` is why that is in order: each activation but the first was called for the
child before its caller's index, or for something below it, so that the innermost
has what comes first (`CallersComeLater`) and a turn of the loop takes exactly its
child out (`StackGrows`). A walk of `GetMatchesTo` drops what is at and after the
object it stops at (`Cut`): each activation returns when it meets that object, and
`StopIsCut` says that nothing wanted is lost by it, `ChildIsNotCut` that none can be
met past it. `inorder` has what is right of the object it has climbed to left
(`InorderClimbs`), within the collection if it began in there (`Bounds`); the walk
after the loop is covered by what was true when it began (`AgainInv`). Backwards,
`Behind` is what precedes the object, with it or with all below it while the walk
drills down; `BackSteps` needs `LeftSibling`, that what comes before a child is its
left sibling with all below it and what comes before that. The lemmas on trees are
proved once and for all: `SubtreesNest`, `RightOfChild`, `PrecedesChild` and
`PrecedesOneWay` are most of what the walks use, and `DocumentOrder` sums them up.

`RulesMeanWhatTheySay` follows from the lists (`AllListed`) and `MatchIsMeets`,
criterion by criterion. The attempt to prove it found a mistake in the property,
not in the code: a rule with an invalid type for its attributes matches nothing,
and met them all. The fourth criterion of `Meets` is there for it, and so is the
last rule of `MCAdaptors`.

*Embedding.* `ParentsAgree` is about what will be true when messages have been
read. The invariant says what the messages under way amount to: `Settles(p, n, S)`
is that after the first n - 1 messages the parent of p is one of S. `Current` says
so of the whole inbox and the last embedder, `Ordered` of the messages before a
question and the embedders since the one its client knew of; an embedding sends
its message before the client is told, which is what puts them in this order.
`AbortedByLonePlug` needs only `Hooked`: geometry is asked for in a class of which
one plug has a parent.

*BridgeLifecycle.* `Stages(k)` follows a key event: not pressed, sent, asked of
clients, answered, the answer in its place in the stack, told; at each stage there
is no trace of the later ones and one trace at most of this one (`InTime`). Without
it `OwnAnswer` is not inductive, as two answers to one event could disagree. Once its
call has timed out a key event has nothing but the error in the stack and is not
told anything but "passed" (`Overdue`), whatever the registry still does with it:
no entry waits for the answer that may come. `Started`
says that whatever waits or listens has a bridge, `DesktopOrGone` where the reply
to `Embed` is while there is no desktop. `WillBeOff` makes `LeftListed` inductive:
an application that is listed or about to be is waiting to be embedded, or has
its exit handler and its bridge, or "deregister" is in the inbox after the last
"embed".

*ClientCalls.* `FailuresAreOwn` needs to know of the exception only that it is the
failure of a wrapper that does not clear it. The tables of `ClientStubs` come in
where a wrapper is one that calls or reads, and does one of four things with a
failure.

*ClientEvents.* A walk over a list that changes is right if what it has still to
run is what the list has from here on. `Continues(list, c, due)` says so of the
callback c it is at, `KeepsPace` of a walk whose callback has not been taken out
under it; that adding at the front and removing elsewhere keep it is shown once,
of sequences without repetition (`Single`). `Sound` adds that a walk is on a freed
link or callback only after a slip of the client, and `EventsInv` that every walk of
the stack is sound, so that it does not matter how deep dispatches nest or which listener a
callback changes. Adding at the end, as a reader may expect the library to,
breaks `Continues`: the walk would come to callbacks that were not there when the
event came. That a `stale` entry, a `lost` list and a `released` device are left by a
slip only is all that `FreedOnlyAfterSlip` needs besides; and what compares an
absent detail has found the two names before it, so `NullOnlyOfDetails` is about
one step, but any name may be asked for in it.

*ClientObjects.* `ObjectsInv` is about the heap between any two steps, whether
somebody is in the middle of a loop or not. `Adds` is the equation of
`RefsOfClientAdd`, with the part that is missing from the property: what has no
count has no claims either, but for stolen references, which count against it. That
turns "freed" into a statement about claims, and so `FreedIsOut`: what the table
still has cannot have been freed before something was stolen. `EventRefsInv` is what
events add: a value has at least the references that are `owed` for it, a source
the ones that nobody drops, apart from the desktop's, and whoever has lost a
reference to a listener was `overheard`. `Linked` says that
the table has each Accessible once and, what nobody would think of when reading
the code, that a child which is out of the table has another parent than the one
whose child it is. `cspi_dbus_handle_remove_accessible` takes an object out of the
children of its parent and of nobody else, so this is exactly what it leaves
behind, and exactly what `FreedOnlyWhenStolen` excuses. `HandlersInv` follows
`unref_object_and_children`: every call of it that is under way is for a child of
its caller's object, and all of these are there until the first of the inner calls
returns; from then on something has been stolen. Defunct listeners take part in
every drop, so `ChildUnrefKeeps` carries most of the argument: however the
listener behaves, what a drop takes from the count is what the dropper had.

**Left to TLC.** Liveness (`LeasesEnd`, `EventuallyCached`, `UnwantedAreFreed`,
`KeysReturn`, `AnsweredButInCircle`, `WalkEnds`): TLAPS does not do `ENABLED`, so
neither fairness nor leads-to. Every invariant and every action property that a
passing run checks is stated by a theorem. What a recursive definition computes
for every input is out of reach as well, since the library's induction theorems
take operators as parameters, which the provers cannot instantiate; no module
has such a definition any more, and where a proof needs an induction over a tree
it uses the definition of `Subtree`, the least set that is closed under children.

## 5. Not modelled, and the plan

Next:

1. The names and details of the events that `event.c` builds from ATK's signals,
   and the tables that convert roles, states and relations.

Not modelled:

- *droute's introspection text*, `droute-pairhash.c`, the marshalling helpers of
  `common/`: formatting.
- *dbind*: it walks C structures by alignment and offset; memory layout is
  nothing TLA+ has a view of.
- *relation and streamable content adaptors*: not listed in `adaptors/Makefile.am`.
- *cspi's accessors*: role and state tables, relation targets, the two-level
  search for an interface, event details, desktops and synthesised input, each a
  call or a table and no state.
- *generated headers, tests, examples*: read as documentation.
- *disposal* of the register, the cache and the leasing object: nothing drops the
  global ones.
