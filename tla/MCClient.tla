------------------------------ MODULE MCClient ------------------------------
(* The parts of the client library, of which a behaviour shows one: calls, *)
(* objects, events, device listeners.                                      *)
EXTENDS ClientCalls, ClientObjects, ClientEvents
CONSTANTS a1, a2, a3, a4, top, leaf, l1, l2, c1, c2, d1, d2

Tree == {<<top, Nil, {leaf}>>, <<leaf, top, {}>>, <<top, Nil, {}>>}

(* an event of an application, whose object value is its child, and one of *)
(* the child without an object                                             *)
ObjectEvents == {<<top, leaf>>, <<leaf, Nil>>}

Wrappers ==
  {RelationSet, Read("nActions", "i"), Call("getExtents", <<"n">>, "(iiii)", "check"),
   Call("getSize", <<>>, "ii", "inverted"), Call("clearSelection", <<>>, "b", "none"),
   Call("doAction", <<"i">>, "b", "ev")}

Entries ==
  {<<l1, "state", "defunct", 1>>, <<l2, "state", Absent, 1>>, <<l2, "state", Absent, 2>>}
Topics == {<<"state", "defunct">>, <<"state", Absent>>}

\* Functions of a client differ only in name.
SameCallbacks == Permutations({c1, c2})

(* Bound: after a slip a client goes on with its lists as they are.  It may *)
(* walk them, have events dispatched, and run into what it freed.          *)
SameLists == UNCHANGED <<entries, callbacks>>

MCInit == CallsInit /\ ObjectsInit /\ EventsInit
MCNext ==
  \/ ObjectsInit /\ EventsInit /\ CallsNext /\ UNCHANGED <<objectVars, eventVars>>
  \/ CallsInit /\ EventsInit /\ ObjectsNext /\ UNCHANGED <<callVars, eventVars>>
  \/ /\ CallsInit /\ ObjectsInit /\ hears = "nobody"
     /\ \/ devices = <<>> /\ ListenersNext /\ (slip /\ fate' = "running" => SameLists)
        \/ entries = <<>> /\ ~lost /\ DevicesNext
     /\ UNCHANGED <<callVars, objectVars>>
=============================================================================
