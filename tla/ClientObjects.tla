--------------------------- MODULE ClientObjects ----------------------------
(***************************************************************************)
(* cspi/spi-main.c: the client library's copy of an application's objects. *)
(* An Accessible is counted: one reference is for the table of its         *)
(* application, the others are the client's.  Parents and children point   *)
(* at each other without references.  live_refs is what SPI_exit counts    *)
(* as leaked.  Whenever a last reference seems to be dropped the listeners *)
(* for object:state-change:defunct are called, in the middle of the drop.  *)
(* A handler with a loop takes its turns one by one; nothing else of the   *)
(* library or of the client runs between them but those listeners.  An     *)
(* event goes from one entry that hears it to the next, and the callbacks  *)
(* of each may do anything, dispatch messages too.                         *)
(***************************************************************************)
EXTENDS Integers, Sequences

CONSTANTS
  Struct,     \* memory for Accessibles, each used once
  Path,       \* the object paths of the application
  RootPath,   \* that of its root
  Updates,    \* what its cache may say: <<path, parent's path or Nil, children's paths>>
  Events,     \* what its events may be of: <<source's path, value's path or Nil>>
  Nil,        \* no Accessible, no path
  MaxRefs,    \* bound on the client's references to an Accessible
  MaxStolen,  \* bound on the references to one that listeners drop and do not have
  MaxEvents   \* bound on the events of which one is source or value

ASSUME ObjectsAssumption ==
  /\ RootPath \in Path /\ Nil \notin Struct /\ "gone" \notin Struct \cup {Nil}
  /\ Updates \subseteq Path \X (Path \cup {Nil}) \X SUBSET Path
  /\ Events \subseteq Path \X (Path \cup {Nil})
  /\ MaxRefs \in Nat /\ MaxStolen \in Nat /\ MaxEvents \in Nat

VARIABLES
  table,      \* table[p]: app->hash
  rc,         \* rc[s]: ref_count
  memory,     \* memory[s]: "new", "used" or "freed"
  parent, children,
  live,       \* live_refs
  atDesktop,  \* the desktop's child for the application, Nil before and "gone" after
  mine,       \* what a handler in its loop has a reference to, or Nil
  adding,     \* handle_addition: the children it has yet to look up
  visits,     \* unref_object_and_children: <<Accessible, its children left>>, the
              \* innermost call first
  hears,      \* what listens for defunct: "nobody", a listener that "returns", or
              \* one that "keeps" the source by Accessible_ref
  held,       \* history: held[s]: references the client has to give back
  carried,    \* events being heard, or kept by the client: <<source, object value or Nil>>
  kept,       \* history: kept[s]: references the library never gives back, the desktop's,
              \* and those taken for the values of events
  owed,       \* history: owed[s]: how many of these are for values, to be dropped by listeners
  overheard,  \* history: values a listener had when no reference was owed for them
  stolen,     \* history: stolen[s]: references dropped that the dropper did not have
  reported,   \* history: Accessibles said to be defunct
  state       \* "running", "freed", "stray pointer", "stack overflow"

heap == [table |-> table, rc |-> rc, memory |-> memory, parent |-> parent, children |-> children,
         live |-> live, held |-> held, reported |-> reported, state |-> state]
heapVars == <<table, rc, memory, parent, children, live, held, reported, state>>
handlerVars == <<mine, adding, visits>>
eventRefs == <<carried, owed, overheard>>
objectVars == <<heapVars, handlerVars, atDesktop, hears, eventRefs, kept, stolen>>

One(b) == IF b THEN 1 ELSE 0

ObjectsInit ==
  /\ table = [p \in Path |-> Nil] /\ rc = [s \in Struct |-> 0]
  /\ memory = [s \in Struct |-> "new"] /\ parent = [s \in Struct |-> Nil]
  /\ children = [s \in Struct |-> {}] /\ live = {} /\ atDesktop = Nil
  /\ mine = Nil /\ adding = {} /\ visits = <<>>
  /\ hears \in {"nobody", "returns", "keeps"}
  /\ held = [s \in Struct |-> 0] /\ kept = [s \in Struct |-> 0]
  /\ carried = {} /\ owed = [s \in Struct |-> 0] /\ overheard = {}
  /\ stolen = [s \in Struct |-> 0] /\ reported = {} /\ state = "running"

\* the heap after an operation on h
Becomes(h) ==
  /\ table' = h.table /\ rc' = h.rc /\ memory' = h.memory /\ parent' = h.parent
  /\ children' = h.children /\ live' = h.live /\ held' = h.held
  /\ reported' = h.reported /\ state' = h.state

Fine(h, s) == h.state = "running" /\ h.memory[s] = "used"
Broken(h) == [h EXCEPT !.state = IF @ = "running" THEN "freed" ELSE @]
Astray(h) == [h EXCEPT !.state = IF @ = "running" THEN "stray pointer" ELSE @]

-----------------------------------------------------------------------------
(* References *)

\* cspi_object_ref
Ref(h, s) ==
  IF ~Fine(h, s) THEN Broken(h)
  ELSE [h EXCEPT !.rc[s] = @ + 1, !.live = @ \cup {s}]

\* the condition of cspi_object_unref_internal, in which && binds first
Reports(h, s, n, defunct) == n = 0 \/ (n = 1 /\ ~defunct /\ s \in h.live)

(* cspi_object_unref_internal.  A listener's event takes a reference to    *)
(* the source and drops it when the listener returns, for which the last   *)
(* reference is dropped again, and so on; unless the client has one by     *)
(* then, when it has been called as often as it takes to make two.         *)
Unref(h, s, defunct) ==
  LET n == h.rc[s] - 1 IN
  IF ~Fine(h, s) THEN Broken(h)
  ELSE IF ~Reports(h, s, n, defunct) THEN [h EXCEPT !.rc[s] = n]
  ELSE IF hears = "returns" THEN [h EXCEPT !.state = "stack overflow"]
  ELSE LET after == IF hears = "keeps" /\ n <= 1 THEN 2 ELSE n IN
       [h EXCEPT !.rc[s] = after, !.held[s] = @ + after - n, !.live = @ \ {s},
                 !.reported = @ \cup {s},
                 !.memory[s] = IF after = 0 THEN "freed" ELSE @]

New(h) == CHOOSE s \in Struct : h.memory[s] = "new"

\* Mutant: the table's reference is not counted.
RefAccessibleUncounted(h, p) ==
  IF h.table[p] # Nil THEN Ref(h, h.table[p])
  ELSE LET s == New(h) IN
       [h EXCEPT !.table[p] = s, !.memory[s] = "used", !.rc[s] = 1]

(* ref_accessible, which makes what it does not find: one reference for    *)
(* the caller, one for the table, and not in live_refs.                    *)
RefAccessible(h, p) ==
  IF h.table[p] # Nil THEN Ref(h, h.table[p])
  ELSE LET s == New(h) IN
       [h EXCEPT !.table[p] = s, !.memory[s] = "used", !.rc[s] = 2]

\* looked up and not held on to
Touch(h, p) == LET g == RefAccessible(h, p) IN Unref(g, g.table[p], FALSE)

-----------------------------------------------------------------------------
(* What the application sends *)

Room == \E s, t \in Struct : s # t /\ memory[s] = "new" /\ memory[t] = "new"
Idle == state = "running" /\ mine = Nil

(* handle_addition, up to its loop: the Accessible is held on to, its      *)
(* parent looked up, and its children are forgotten.                       *)
UpdateAccessible(u) ==
  /\ Idle /\ Room
  /\ LET g == RefAccessible(heap, u[1])
         a == g.table[u[1]]
         h == IF u[2] = Nil THEN g ELSE Touch(g, u[2])
     IN  /\ Becomes(IF h.state # "running" THEN h
                    ELSE [h EXCEPT !.parent[a] = IF u[2] = Nil THEN Nil ELSE h.table[u[2]],
                                   !.children[a] = {}])
         /\ mine' = a
  /\ adding' = u[3]
  /\ UNCHANGED <<visits, atDesktop, hears, eventRefs, kept, stolen>>

\* a turn of its loop
AddChild(p) ==
  /\ state = "running" /\ p \in adding /\ Room
  /\ LET h == Touch(heap, p) IN
       Becomes(IF h.state # "running" THEN h
               ELSE [h EXCEPT !.children[mine] = @ \cup {h.table[p]}])
  /\ adding' = adding \ {p}
  /\ UNCHANGED <<mine, visits, atDesktop, hears, eventRefs, kept, stolen>>

\* its end
AdditionDone ==
  /\ state = "running" /\ mine # Nil /\ adding = {} /\ visits = <<>>
  /\ Becomes(Unref(heap, mine, FALSE)) /\ mine' = Nil
  /\ UNCHANGED <<adding, visits, atDesktop, hears, eventRefs, kept, stolen>>

\* Mutant: the table is left as it is.
RemoveAccessibleFromParent(p) ==
  /\ Idle /\ Room
  /\ LET h1 == RefAccessible(heap, p) IN
       Becomes(Unref(Unref(h1, h1.table[p], FALSE), h1.table[p], TRUE))
  /\ UNCHANGED <<handlerVars, atDesktop, hears, eventRefs, kept, stolen>>

\* a leaves the children of its parent
Orphan(h, a) ==
  LET up == h.parent[a] IN
  IF up = Nil THEN h
  ELSE IF ~Fine(h, up) THEN Broken(h)
  ELSE [h EXCEPT !.children[up] = @ \ {a}]

(* cspi_dbus_handle_remove_accessible: the table drops its reference, and  *)
(* then the handler drops its own.                                         *)
RemoveAccessible(p) ==
  /\ Idle /\ Room
  /\ LET g == RefAccessible(heap, p)
         a == g.table[p]
         h == Orphan(g, a)
     IN  Becomes(IF h.state # "running" THEN h
                 ELSE Unref(Unref([h EXCEPT !.table[p] = Nil], a, FALSE), a, TRUE))
  /\ UNCHANGED <<handlerVars, atDesktop, hears, eventRefs, kept, stolen>>

-----------------------------------------------------------------------------
(* Events *)

\* An event may come.
Expected ==
  /\ Idle /\ Room
  /\ \A s \in Struct : kept[s] < MaxEvents + One(s = atDesktop)

(* cspi_dbus_handle_event: what it takes for the source is not given back, *)
(* and it takes one reference for a value that is an object's path.        *)
EventArrives(p, q) ==
  /\ Expected
  /\ LET g == RefAccessible(heap, p)
         h == IF q = Nil THEN g ELSE RefAccessible(g, q)
         source == g.table[p]
         value == IF q = Nil THEN Nil ELSE h.table[q]
     IN  /\ Becomes(h)
         /\ kept' = [s \in Struct |-> kept[s] + One(s = source) + One(s = value)]
         /\ owed' = [s \in Struct |-> owed[s] + One(s = value)]
         /\ carried' = carried \cup {<<source, value>>}
  /\ UNCHANGED <<handlerVars, atDesktop, hears, overheard, stolen>>

(* A value of another kind, that of the bridge's own object events among   *)
(* them: v_type and v are what the stack holds, which may be the object of *)
(* an earlier event, or no Accessible at all (s is Nil).                   *)
EventUnread(p, s) ==
  /\ Expected /\ (s # Nil => memory[s] # "new")
  /\ LET h == RefAccessible(heap, p)
         source == h.table[p]
     IN  /\ Becomes(IF s = Nil THEN Astray(h) ELSE h)
         /\ kept' = [t \in Struct |-> kept[t] + One(t = source)]
         /\ carried' = carried \cup {<<source, s>>}
  /\ UNCHANGED <<handlerVars, atDesktop, hears, owed, overheard, stolen>>

(* cspi_event, for an entry that matches.  The listener's copy of event e  *)
(* takes a reference to the source; when its callbacks are through,        *)
(* AccessibleEvent_unref drops it, and one to the value.                   *)
EventHeard(e) ==
  /\ Idle /\ e \in carried
  /\ e[2] # Nil => stolen[e[2]] < MaxStolen
  /\ LET g == Unref(Ref(heap, e[1]), e[1], FALSE)
         v == e[2]
         h == IF v = Nil THEN g ELSE Unref(g, v, FALSE)
         due == One(v # Nil /\ owed[v] > 0)
         theft == v # Nil /\ due = 0
     IN  /\ Becomes(h)
         /\ kept' = [s \in Struct |-> IF s = v THEN kept[s] - due ELSE kept[s]]
         /\ owed' = [s \in Struct |-> IF s = v THEN owed[s] - due ELSE owed[s]]
         /\ overheard' = IF theft THEN overheard \cup {v} ELSE overheard
         /\ stolen' = [s \in Struct |-> stolen[s]
                         + One(s = v /\ theft /\ h.state = "running")]
  /\ UNCHANGED <<handlerVars, atDesktop, hears, carried>>

\* Every entry has heard it, and the client does not keep it.
EventOver(e) ==
  /\ Idle /\ e \in carried /\ carried' = carried \ {e}
  /\ UNCHANGED <<heapVars, handlerVars, atDesktop, hears, owed, overheard, kept, stolen>>

-----------------------------------------------------------------------------
(* The desktop *)

(* registerApplication, once in an application's life: add_app_to_desktop *)
RegisterApplication ==
  /\ Idle /\ Room /\ atDesktop = Nil
  /\ LET h == RefAccessible(heap, RootPath) IN
       /\ Becomes(h) /\ atDesktop' = h.table[RootPath]
       /\ kept' = [kept EXCEPT ![h.table[RootPath]] = @ + 1]
  /\ UNCHANGED <<handlerVars, hears, eventRefs, stolen>>

\* unref_object_and_children is called, and reads the children of s
Visit(s, callers) ==
  IF memory[s] = "used"
  THEN visits' = <<<<s, children[s]>>>> \o callers /\ UNCHANGED heapVars
  ELSE Becomes(Broken(heap)) /\ visits' = callers

(* deregisterApplication: remove_app_from_desktop drops the root's         *)
(* reference, and one of everything below it, which is the table's.        *)
DeregisterApplication ==
  /\ Idle /\ atDesktop \in Struct
  /\ mine' = atDesktop /\ Visit(atDesktop, <<>>)
  /\ kept' = [kept EXCEPT ![atDesktop] = @ - 1]
  /\ atDesktop' = "gone"
  /\ UNCHANGED <<adding, hears, eventRefs, stolen>>

\* unref_object_and_children calls itself
VisitChild(c) ==
  /\ state = "running" /\ visits # <<>> /\ c \in Head(visits)[2]
  /\ Visit(c, <<<<Head(visits)[1], Head(visits)[2] \ {c}>>>> \o Tail(visits))
  /\ UNCHANGED <<mine, adding, atDesktop, hears, eventRefs, kept, stolen>>

\* the end of a call
VisitDone ==
  /\ state = "running" /\ visits # <<>> /\ Head(visits)[2] = {}
  /\ LET s     == Head(visits)[1]
         h     == Unref(heap, s, TRUE)
         outer == Tail(visits) = <<>>
     IN  /\ Becomes(h)
         /\ mine' = IF outer THEN Nil ELSE mine
         /\ stolen' = IF outer \/ h.state # "running" THEN stolen
                      ELSE [stolen EXCEPT ![s] = @ + 1]
  /\ visits' = Tail(visits)
  /\ UNCHANGED <<adding, atDesktop, hears, eventRefs, kept>>

-----------------------------------------------------------------------------
(* What the client does *)

\* what it has a pointer to
Reach ==
  {s \in Struct : held[s] > 0 \/ s = atDesktop \/ \E e \in carried : s = e[1]}

\* the client has one reference more
Taken(h, s) == [h EXCEPT !.held[s] = IF h.state = "running" THEN @ + 1 ELSE @]

(* Accessible_ref, Accessible_getParent, Accessible_getChildAtIndex: from  *)
(* what the client has to what is found there                              *)
ClientTakes(s, t) ==
  /\ Idle /\ s \in Reach /\ memory[s] = "used"
  /\ t \in {s, parent[s]} \cup children[s] /\ t # Nil /\ held[t] < MaxRefs
  /\ Becomes(Taken(Ref(heap, t), t))
  /\ UNCHANGED <<handlerVars, atDesktop, hears, eventRefs, kept, stolen>>

\* AccessibleChildChangedEvent_getChildAccessible and its like
ClientTakesValue(e) ==
  /\ Idle /\ e \in carried /\ e[2] # Nil /\ held[e[2]] < MaxRefs
  /\ Becomes(Taken(Ref(heap, e[2]), e[2]))
  /\ overheard' = IF owed[e[2]] = 0 THEN overheard \cup {e[2]} ELSE overheard
  /\ UNCHANGED <<handlerVars, atDesktop, hears, carried, owed, kept, stolen>>

\* Accessible_unref
ClientDrops(s) ==
  /\ Idle /\ held[s] > 0
  /\ Becomes(Unref([heap EXCEPT !.held[s] = @ - 1], s, FALSE))
  /\ UNCHANGED <<handlerVars, atDesktop, hears, eventRefs, kept, stolen>>

ObjectsNext ==
  \/ \E u \in Updates : UpdateAccessible(u)
  \/ \E p \in Path : AddChild(p) \/ RemoveAccessible(p)
  \/ \E v \in Events : \/ EventArrives(v[1], v[2])
                      \/ \E s \in Struct \cup {Nil} : EventUnread(v[1], s)
  \/ \E e \in carried : EventHeard(e) \/ EventOver(e) \/ ClientTakesValue(e)
  \/ AdditionDone \/ RegisterApplication \/ DeregisterApplication \/ VisitDone
  \/ \E c \in Struct : VisitChild(c)
  \/ \E s, t \in Struct : ClientTakes(s, t)
  \/ \E s \in Struct : ClientDrops(s)

ObjectsSpec == ObjectsInit /\ [][ObjectsNext]_objectVars

-----------------------------------------------------------------------------
InTable(s) == \E p \in Path : table[p] = s
Counted(s) == One(InTable(s)) + held[s] + kept[s] + One(mine = s) - stolen[s]

(* The count of an Accessible is that of its table and of the references   *)
(* that others have to give back, whatever the listeners do meanwhile.     *)
RefsOfClientAdd ==
  state = "running" =>
    \A s \in Struct : memory[s] = "used" => rc[s] = Counted(s) /\ rc[s] > 0

(* What the client holds has not been freed, even after its application    *)
(* has left, unless references that it or the table has were dropped by    *)
(* others: by the desktop, or by listeners that heard of it in an event.   *)
HeldIsThere ==
  state = "running" =>
    \A s \in Struct :
      held[s] > 0 => memory[s] = "used" \/ stolen[s] >= held[s] + One(InTable(s))

(* A reference is dropped by one who has none only when the application    *)
(* leaves the desktop, or when the value of an event is heard by more      *)
(* entries than references were taken for it.  Without that no table has a *)
(* freed Accessible, and freed memory is read only after an object was     *)
(* removed while another points at it as its parent, or as a child whose   *)
(* own parent had not been announced.                                      *)
FreedOnlyWhenStolen ==
  /\ \A s \in Struct : stolen[s] > 0 => atDesktop = "gone" \/ s \in overheard
  /\ \A p \in Path : table[p] # Nil /\ memory[table[p]] = "freed" => stolen[table[p]] > 0
  /\ state = "freed" =>
       \/ \E s \in Struct : stolen[s] > 0 \/ s \in overheard
       \/ \E s, t \in Struct : /\ memory[s] = "used" /\ ~InTable(t)
                               /\ t = parent[s] \/ (t \in children[s] /\ parent[t] # s)

(* SPI_exit counts live_refs.  What a client holds is in there, or the     *)
(* client has been told that it is defunct.                                *)
HeldIsCountedAtExit ==
  state = "running" => \A s \in Struct : held[s] > 0 => s \in live \cup reported

(* An Accessible's own count and the library's count of leaks are right.   *)
ClientCounts == RefsOfClientAdd /\ HeldIsCountedAtExit

(* Nobody reads an Accessible that has been freed but after the thefts and *)
(* through the parents and children named.                                 *)
NothingUsedIsFreed == HeldIsThere /\ FreedOnlyWhenStolen
=============================================================================
