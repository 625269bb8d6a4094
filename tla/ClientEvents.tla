---------------------------- MODULE ClientEvents ----------------------------
(***************************************************************************)
(* cspi/spi-event.c and cspi/spi-listener.c: the listeners of a client.    *)
(* An event goes to every registered entry that matches it, and from there *)
(* to every callback of the entry's listener.  A callback may register and *)
(* deregister, add and remove callbacks, and use the library, which makes  *)
(* other events be dispatched in between.  Both lists are walked while     *)
(* they change: what counts is which link of a list is freed under a walk. *)
(***************************************************************************)
EXTENDS SequencesExt, Naturals

CONSTANTS
  Entry,      \* what may be registered: <<listener, event, detail or Absent, n>>,
              \* the n-th time that the listener is, for that event and detail
  Topic,      \* events: <<event, detail or Absent>>
  Callback,   \* functions of the client
  Device,     \* listeners for device events
  Absent,     \* no detail, no entry, no callback
  MaxDepth    \* bound on dispatches inside dispatches

Listener == {e[1] : e \in Entry}
None == <<Absent, Absent, Absent, Absent>>
(* what a client may ask to be registered no more for, registered or not   *)
Name == Listener \X {e[2] : e \in Entry} \X ({e[3] : e \in Entry} \cup {Absent})

ASSUME EventsAssumption ==
  /\ \A e \in Entry : e = <<e[1], e[2], e[3], e[4]>>
  /\ \A t \in Topic : t = <<t[1], t[2]>>
  /\ None \notin Entry
  /\ Absent \notin Callback
  /\ MaxDepth \in Nat

VARIABLES
  entries,    \* event_listeners, the newest first
  lost,       \* event_listeners points at a link that was freed
  stale,      \* entries whose listener was finalized: they hold no reference
  callbacks,  \* callbacks[l]: those of a listener, the newest first
  frames,     \* walks, the innermost last: records, see Dispatch
  devices,    \* device_listeners, the oldest first
  watched,    \* device listeners that the registry has events for
  released,   \* device listeners that were finalized
  slip,       \* history: the client did what the lists do not survive
  asked,      \* history: the name whose absent detail, or another's, was read
  fate        \* "running", or what it read: "freed", "null"

eventVars == <<entries, lost, stale, callbacks, frames, devices, watched, released,
               slip, asked, fate>>
entryVars == <<entries, lost, stale>>
deviceVars == <<devices, watched, released>>

EventsInit ==
  /\ entries = <<>> /\ lost = FALSE /\ stale = {}
  /\ callbacks = [l \in Listener |-> <<>>] /\ frames = <<>>
  /\ devices = <<>> /\ watched = {} /\ released = {}
  /\ slip = FALSE /\ asked = None /\ fate = "running"

Frame == frames[Len(frames)]
\* The client runs: at rest, or in a callback.
ClientRuns == fate = "running" /\ (frames # <<>> => Frame.cb # Absent)
Top(f) == [frames EXCEPT ![Len(frames)] = f]
Fails(how) ==
  fate' = how /\ UNCHANGED <<entryVars, callbacks, frames, deviceVars, slip, asked>>

-----------------------------------------------------------------------------
(* Dispatch *)

(* cspi_dispatch_event, from a message or from a reference that is dropped. *)
(* Of a listener that has got the event, due is what it has still to run    *)
(* of the callbacks that it had then, and stranger that another one ran.    *)
Dispatch(t) ==
  /\ ClientRuns /\ Len(frames) < MaxDepth
  /\ IF lost THEN Fails("freed")
     ELSE /\ frames' = Append(frames, [topic |-> t, at |-> None, atFreed |-> FALSE,
                                       cb |-> Absent, cbFreed |-> FALSE,
                                       due |-> {}, stranger |-> FALSE])
          /\ UNCHANGED <<entryVars, callbacks, deviceVars, slip, asked, fate>>

Place(x, list) == CHOOSE i \in DOMAIN list : list[i] = x

(* The entries that a walk will stop at, after the one where it is: those  *)
(* that match, and those for which an absent detail is compared.           *)
Stops(f) ==
  {e \in Entry :
     /\ e \in ToSet(entries)
     /\ f.at # None => Place(f.at, entries) < Place(e, entries)
     /\ e[2] = f.topic[1]
     /\ e[3] = Absent \/ f.topic[2] \in {Absent, e[3]}}

ComesTo(e) ==
  /\ e \in Stops(Frame)
  /\ \A s \in Stops(Frame) : Place(e, entries) <= Place(s, entries)
  /\ IF e[3] # Absent /\ Frame.topic[2] = Absent THEN Fails("null")
     ELSE IF e \in stale THEN Fails("freed")
     ELSE /\ LET heard == callbacks[e[1]] IN
               frames' = Top([Frame EXCEPT !.at = e, !.cbFreed = FALSE,
                                !.cb = IF heard = <<>> THEN Absent ELSE Head(heard),
                                !.due = ToSet(heard)])
          /\ UNCHANGED <<entryVars, callbacks, deviceVars, slip, asked, fate>>

Walk ==
  /\ fate = "running" /\ frames # <<>> /\ Frame.cb = Absent
  /\ IF Frame.atFreed THEN Fails("freed")
     ELSE IF Stops(Frame) = {} THEN
       /\ frames' = Front(frames)
       /\ UNCHANGED <<entryVars, callbacks, deviceVars, slip, asked, fate>>
     ELSE \E e \in Entry : ComesTo(e)

\* A callback returns, and cspi_event goes on to the next.
Return ==
  /\ fate = "running" /\ frames # <<>> /\ Frame.cb # Absent
  /\ IF Frame.cbFreed THEN Fails("freed")
     ELSE LET list == callbacks[Frame.at[1]]
              i == Place(Frame.cb, list)
              next == IF i = Len(list) THEN Absent ELSE list[i + 1]
          IN  /\ frames' = Top([Frame EXCEPT !.cb = next, !.due = @ \ {Frame.cb},
                                  !.stranger = @ \/ next \notin Frame.due \cup {Absent}])
              /\ UNCHANGED <<entryVars, callbacks, deviceVars, slip, asked, fate>>

-----------------------------------------------------------------------------
(* Callbacks *)

(* Nothing uses a listener that was freed, but the entries it has left.  A *)
(* listener that had none may be created again at the address it had.      *)
Freed(l) == \E e \in stale : e[1] = l

\* Mutant: a callback is added at the end.
AddCallbackLast(l, c) ==
  /\ ClientRuns /\ ~Freed(l) /\ c \notin ToSet(callbacks[l])
  /\ callbacks' = [callbacks EXCEPT ![l] = Append(@, c)]
  /\ UNCHANGED <<entryVars, frames, deviceVars, slip, asked, fate>>

\* cspi_event_listener_add_cb
AddCallback(l, c) ==
  /\ ClientRuns /\ ~Freed(l) /\ c \notin ToSet(callbacks[l])
  /\ callbacks' = [callbacks EXCEPT ![l] = <<c>> \o @]
  /\ UNCHANGED <<entryVars, frames, deviceVars, slip, asked, fate>>

Runs(f, l, c) == f.cb = c /\ f.at[1] = l

\* Mutant: the list is copied, and the copied links freed.
RemoveCallbackCopied(l, c) ==
  /\ ClientRuns /\ c \in ToSet(callbacks[l])
  /\ callbacks' = [callbacks EXCEPT ![l] = SelectSeq(@, LAMBDA d : d # c)]
  /\ frames' = [i \in DOMAIN frames |->
                  IF frames[i].at[1] = l THEN [frames[i] EXCEPT !.cbFreed = TRUE] ELSE frames[i]]
  /\ slip' = (slip \/ \E i \in DOMAIN frames : Runs(frames[i], l, c))
  /\ UNCHANGED <<entryVars, deviceVars, asked, fate>>

\* cspi_event_listener_remove_cb
RemoveCallback(l, c) ==
  /\ ClientRuns /\ c \in ToSet(callbacks[l])
  /\ callbacks' = [callbacks EXCEPT ![l] = RemoveAt(@, Place(c, @))]
  /\ frames' = [i \in DOMAIN frames |->
                  IF frames[i].cb = Absent \/ frames[i].at[1] # l THEN frames[i]
                  ELSE [frames[i] EXCEPT !.due = @ \ {c}, !.cbFreed = @ \/ frames[i].cb = c]]
  /\ slip' = (slip \/ \E i \in DOMAIN frames : Runs(frames[i], l, c))
  /\ UNCHANGED <<entryVars, deviceVars, asked, fate>>

(* AccessibleEventListener_unref of the last reference.  The finalizer     *)
(* frees the callbacks, also those of a walk.                              *)
ReleaseListener(l) ==
  /\ ClientRuns /\ ~Freed(l)
  /\ LET left == {e \in ToSet(entries) : e[1] = l}
         walks(i) == frames[i].cb # Absent /\ frames[i].at[1] = l
     IN  /\ stale' = stale \cup left
         /\ callbacks' = [callbacks EXCEPT ![l] = <<>>]
         /\ frames' = [i \in DOMAIN frames |->
                         [frames[i] EXCEPT !.cbFreed = @ \/ walks(i)]]
         /\ slip' = (slip \/ left # {} \/ \E i \in DOMAIN frames : walks(i))
  /\ UNCHANGED <<entries, lost, deviceVars, asked, fate>>

-----------------------------------------------------------------------------
(* Entries *)

\* SPI_registerGlobalEventListener
Register(e) ==
  /\ ClientRuns /\ ~Freed(e[1]) /\ e \notin ToSet(entries)
  /\ IF lost THEN Fails("freed")
     ELSE /\ entries' = <<e>> \o entries
          /\ UNCHANGED <<lost, stale, callbacks, frames, deviceVars, slip, asked, fate>>

(* g_list_remove from the link itself on, whose result replaces that link  *)
(* and not event_listeners: the first link is freed and still pointed at.  *)
Newest(gone) == entries # <<>> /\ entries[1] \in gone

Unlinked(gone) ==
  /\ entries' = SelectSeq(entries, LAMBDA e : e \notin gone)
  /\ lost' = Newest(gone) /\ stale' = stale \ gone
  /\ frames' = [i \in DOMAIN frames |->
                  [frames[i] EXCEPT !.atFreed = @ \/ frames[i].at \in gone]]
  /\ slip' = (slip \/ Newest(gone) \/ \E i \in DOMAIN frames : frames[i].at \in gone)
  /\ UNCHANGED <<callbacks, deviceVars, asked, fate>>

(* What is compared with strcmp although one of the two details is absent. *)
Unlike(e, n) ==
  e[1] = n[1] /\ e[2] = n[2] /\ e[3] # n[3] /\ Absent \in {e[3], n[3]}

(* SPI_deregisterGlobalEventListener, of any event.  It compares the detail*)
(* with that of each entry that the listener has for the event.            *)
Deregister(n) ==
  /\ ClientRuns
  /\ IF lost THEN Fails("freed")
     ELSE IF \E e \in ToSet(entries) : Unlike(e, n)
       THEN /\ asked' = n /\ fate' = "null"
            /\ UNCHANGED <<entryVars, callbacks, frames, deviceVars, slip>>
       ELSE Unlinked({e \in ToSet(entries) : <<e[1], e[2], e[3]>> = n})

\* SPI_deregisterGlobalEventListenerAll
DeregisterAll(l) ==
  /\ ClientRuns
  /\ IF lost THEN Fails("freed") ELSE Unlinked({e \in ToSet(entries) : e[1] = l})

-----------------------------------------------------------------------------
(* Device events *)

(* cspi_device_listener_init looks through device_listeners for its id.    *)
NewDevice(d) ==
  /\ ClientRuns /\ d \notin ToSet(devices)
  /\ IF ToSet(devices) \cap released # {} THEN Fails("freed")
     ELSE /\ devices' = Append(devices, d)
          /\ UNCHANGED <<entryVars, callbacks, frames, watched, released, slip, asked, fate>>

\* SPI_registerDeviceEventListener
Watch(d) ==
  /\ ClientRuns /\ d \in ToSet(devices) \ (watched \cup released)
  /\ watched' = watched \cup {d}
  /\ UNCHANGED <<entryVars, callbacks, frames, devices, released, slip, asked, fate>>

(* SPI_deregisterDeviceEventListener, and the deregistration of keystrokes:*)
(* TRUE is returned whatever the registry says.                            *)
Unwatch(d) ==
  /\ ClientRuns /\ d \in watched \ released
  /\ \E done \in BOOLEAN : watched' = IF done THEN watched \ {d} ELSE watched
  /\ UNCHANGED <<entryVars, callbacks, frames, devices, released, slip, asked, fate>>

\* Nothing takes a listener out of device_listeners.
Release(d) ==
  /\ ClientRuns /\ d \in ToSet(devices) \ released
  /\ released' = released \cup {d} /\ slip' = TRUE
  /\ UNCHANGED <<entryVars, callbacks, frames, devices, watched, asked, fate>>

(* cspi_dbus_handle_deviceEvent, which looks for the id; callbacks of      *)
(* device listeners are run as those of others, and answer.                *)
DeviceEvent(d) ==
  /\ ClientRuns /\ d \in watched
  /\ \E i \in DOMAIN devices :
       /\ devices[i] = d
       /\ \E j \in 1 .. i : devices[j] \in released
  /\ Fails("freed")

ListenersNext ==
  \/ \E t \in Topic : Dispatch(t)
  \/ Walk \/ Return
  \/ \E l \in Listener, c \in Callback : AddCallback(l, c) \/ RemoveCallback(l, c)
  \/ \E e \in Entry : Register(e)
  \/ \E n \in Name : Deregister(n)
  \/ \E l \in Listener : DeregisterAll(l) \/ ReleaseListener(l)

DevicesNext ==
  \E d \in Device : NewDevice(d) \/ Watch(d) \/ Unwatch(d) \/ Release(d) \/ DeviceEvent(d)

EventsNext == ListenersNext \/ DevicesNext

EventsSpec == EventsInit /\ [][EventsNext]_eventVars

-----------------------------------------------------------------------------
(* A listener that is through with an event has run those callbacks that   *)
(* it had when the event came to it: all but those removed meanwhile, and  *)
(* none that was added, however events nest.                               *)
RunsItsCallbacks ==
  \A i \in DOMAIN frames :
    ~frames[i].stranger /\ (frames[i].cb = Absent => frames[i].due = {})

(* Freed memory is read only by a client that deregistered its newest      *)
(* entry, removed a callback while it ran or deregistered an entry while   *)
(* it was served, or released a listener that was registered or running,   *)
(* or a device listener.  All else may be registered and removed at any    *)
(* time, in callbacks too.                                                 *)
FreedOnlyAfterSlip == fate = "freed" => slip

(* An absent detail is compared only where a listener is registered for an *)
(* event with a detail and the event comes without, or where a listener is *)
(* to be deregistered for an event with a detail and is registered for it  *)
(* without, or the other way round.                                        *)
NullOnlyOfDetails ==
  fate = "null" =>
    \E e \in ToSet(entries) :
      \/ Unlike(e, asked)
      \/ /\ e[3] # Absent
         /\ \E i \in DOMAIN frames : frames[i].topic = <<e[2], Absent>>

(* What the lists of listeners do not survive while they are walked.       *)
ListsSurvive == FreedOnlyAfterSlip /\ NullOnlyOfDetails
=============================================================================
