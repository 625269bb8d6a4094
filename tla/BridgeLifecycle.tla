--------------------------- MODULE BridgeLifecycle ---------------------------
(***************************************************************************)
(* bridge.c and event.c around the registry daemon: the bridge is loaded,  *)
(* makes the application known to the registry, asks the registry about    *)
(* every key event, and is shut down, or the program exits.  A call to the *)
(* registry is waited for by dispatching other messages, or, when the      *)
(* environment has AT_SPI_REENTER_G_MAIN_LOOP, whatever else the main loop *)
(* has to do: calls of clients, and other key events, come in between.     *)
(***************************************************************************)
EXTENDS Naturals, Sequences, FiniteSets

CONSTANT Key   \* the key events there will be

(* The root is an application that registers, a plug, which does not, or   *)
(* an application started with --atspi-no-register.                        *)
RootKind == {"application", "plug", "unregistered"}
Listener == {"focus", "event", "key", "children", "cache"}
Embed == "embed"

\* A key event is neither of the other things that the registry is sent.
ASSUME LifeAssumption == Key \cap {Embed, "deregister"} = {}

Waited == Key \cup {Embed}

VARIABLES
  root,        \* the kind of spi_global_app_data->root
  reenter,     \* AT_SPI_CLIENT or AT_SPI_REENTER_G_MAIN_LOOP is set
  inited,      \* the static of adaptor_init
  app,         \* spi_global_app_data: "none", "there", or "freed" and NULL again
  listeners,   \* what is installed in ATK; "event" is all of listener_ids
  routed,      \* droute has the adaptors, the cache adaptor listens
  at_exit,     \* exit_func is an exit handler
  desktop,     \* desktop_name and desktop_path are set
  waiting,     \* calls to the registry, the innermost last: <<what, reply>>
  pressed,     \* key events there have been
  late,        \* history: key events that were waited for as long as libdbus lets a call wait
  told,        \* told[k]: whether ATK was told that k was consumed, or "nothing"
  program,     \* "running", "exited", or what it dereferenced that is NULL
  up,          \* the registry daemon runs
  inbox,       \* what the registry has been sent
  asked,       \* calls that the registry has received and not answered
  replies,     \* answers on their way
  said,        \* history: said[k]: the answer given to k
  listed       \* the registry has the application

bridgeSide == <<root, reenter, inited, app, listeners, routed, at_exit,
                desktop, waiting, pressed, late, told, program>>
registrySide == <<up, inbox, asked, replies, said, listed>>
started == <<root, reenter, inited, app, listeners, routed>>
lifeVars == <<root, reenter, inited, app, listeners, routed, at_exit, desktop,
              waiting, pressed, late, told, program, up, inbox, asked, replies, said, listed>>

LifeInit ==
  /\ root \in RootKind /\ reenter \in BOOLEAN /\ up \in BOOLEAN
  /\ inited = FALSE /\ app = "none" /\ listeners = {} /\ routed = FALSE
  /\ at_exit = FALSE /\ desktop = FALSE /\ waiting = <<>> /\ pressed = {} /\ late = {}
  /\ told = [k \in Key |-> "nothing"] /\ said = [k \in Key |-> "nothing"]
  /\ program = "running" /\ inbox = <<>> /\ asked = {} /\ replies = {} /\ listed = FALSE

Running == program = "running"
AtRest == Running /\ waiting = <<>>
Top == waiting[Len(waiting)]

-----------------------------------------------------------------------------
(* Start *)

(* adaptor_init, once ever, as inited stays: the objects, the cache's      *)
(* listeners, droute with all adaptors, the event listeners; then the      *)
(* registry is asked to embed the application, and only then is exit_func  *)
(* made an exit handler.                                                   *)
ModuleInit ==
  /\ AtRest /\ ~inited
  /\ inited' = TRUE /\ app' = "there" /\ listeners' = Listener /\ routed' = TRUE
  /\ IF root = "application"
       THEN /\ waiting' = <<<<Embed, "none">>>> /\ inbox' = Append(inbox, Embed)
            /\ UNCHANGED at_exit
       ELSE at_exit' = TRUE /\ UNCHANGED <<waiting, inbox>>
  /\ UNCHANGED <<root, reenter, desktop, pressed, late, told, program,
                 up, asked, replies, said, listed>>

\* Mutant: what has been allocated is freed, as when there is no bus.
ModuleInitFreed ==
  /\ AtRest /\ ~inited
  /\ inited' = TRUE /\ app' = "freed" /\ listeners' = {"cache", "focus"}
  /\ UNCHANGED <<root, reenter, routed, at_exit, desktop, waiting, pressed, late, told,
                 program, registrySide>>

\* The path of the cache is taken: adaptor_init leaves as it is.
ModuleInitTaken ==
  /\ AtRest /\ ~inited
  /\ inited' = TRUE /\ app' = "there" /\ listeners' = {"cache"}
  /\ UNCHANGED <<root, reenter, routed, at_exit, desktop, waiting, pressed, late, told,
                 program, registrySide>>

-----------------------------------------------------------------------------
(* Waiting for the registry *)

\* Mutant: replies have one place, and the innermost call takes it.
DeliverToTop(r) ==
  /\ Running /\ r \in replies /\ waiting # <<>>
  /\ replies' = replies \ {r}
  /\ waiting' = [waiting EXCEPT ![Len(waiting)] = <<Top[1], r[2]>>]
  /\ UNCHANGED <<started, at_exit, desktop, pressed, late, told, program,
                 up, inbox, asked, said, listed>>

(* set_reply puts a reply where the call it answers will look for it, which *)
(* may be below the innermost one.  A reply to a call that has timed out is *)
(* no longer looked for by anybody, and is dropped.                         *)
Deliver(r) ==
  /\ Running /\ r \in replies
  /\ replies' = replies \ {r}
  /\ waiting' = [i \in DOMAIN waiting |->
                   IF waiting[i] = <<r[1], "none">> THEN r ELSE waiting[i]]
  /\ UNCHANGED <<started, at_exit, desktop, pressed, late, told, program,
                 up, inbox, asked, said, listed>>

(* The default timeout of a call, which only a main loop watches: libdbus   *)
(* itself makes the reply, an error, of the innermost call or of one below. *)
(* dbus_connection_read_write_dispatch, with which the registration waits,  *)
(* and the key events without AT_SPI_REENTER_G_MAIN_LOOP, knows no timeout. *)
TimesOut(k) ==
  /\ Running /\ reenter
  /\ \E i \in DOMAIN waiting :
       waiting[i] = <<k, "none">> /\ waiting' = [waiting EXCEPT ![i] = <<k, "error">>]
  /\ late' = late \cup {k}
  /\ UNCHANGED <<started, at_exit, desktop, pressed, told, program, registrySide>>

\* the end of send_and_allow_reentry
Returns == Running /\ waiting # <<>> /\ Top[2] # "none"
Popped == SubSeq(waiting, 1, Len(waiting) - 1)

\* register_application: an error has another signature than (so).
Embedded ==
  /\ Returns /\ Top[1] = Embed
  /\ desktop' = (Top[2] = "desktop") /\ at_exit' = TRUE /\ waiting' = Popped
  /\ UNCHANGED <<started, pressed, late, told, program, registrySide>>

\* Mutant: only an answer to the question ends the wait.
KeyReturnsAnswered ==
  /\ Returns /\ Top[1] \in Key /\ Top[2] \in {"consumed", "passed"}
  /\ told' = [told EXCEPT ![Top[1]] = Top[2]]
  /\ waiting' = Popped
  /\ UNCHANGED <<started, at_exit, desktop, pressed, late, program, registrySide>>

\* NotifyListenersSync: an error leaves consumed as it was.
KeyReturns ==
  /\ Returns /\ Top[1] \in Key
  /\ told' = [told EXCEPT ![Top[1]] = IF Top[2] = "consumed" THEN "consumed" ELSE "passed"]
  /\ waiting' = Popped
  /\ UNCHANGED <<started, at_exit, desktop, pressed, late, program, registrySide>>

(* spi_atk_bridge_key_listener.  While a key event waits the toolkit has   *)
(* no other, unless the main loop runs.                                    *)
KeyPress(k) ==
  /\ Running /\ "key" \in listeners /\ k \notin pressed
  /\ waiting # <<>> => reenter /\ Top[1] \in Key
  /\ pressed' = pressed \cup {k}
  /\ IF app = "there"
       THEN /\ waiting' = Append(waiting, <<k, "none">>) /\ inbox' = Append(inbox, k)
            /\ UNCHANGED program
       ELSE program' = "no bridge" /\ UNCHANGED <<waiting, inbox>>
  /\ UNCHANGED <<started, at_exit, desktop, late, told, up, asked, replies, said, listed>>

-----------------------------------------------------------------------------
(* What else happens, at rest or in between *)

(* A signal of ATK for which a listener is installed makes it send one.    *)
(* That of the cache is only sent by its adaptor.                          *)
Emits(l) ==
  /\ Running /\ l \in listeners \ {"key"}
  /\ program' = IF app # "there" /\ (l = "cache" => routed) THEN "no bridge" ELSE program
  /\ UNCHANGED <<started, at_exit, desktop, waiting, pressed, late, told, registrySide>>

\* A call of a client to an adaptor, which appends a reference to the reply.
ClientCall ==
  /\ Running /\ routed
  /\ program' = IF app # "there" THEN "no bridge" ELSE program
  /\ UNCHANGED <<started, at_exit, desktop, waiting, pressed, late, told, registrySide>>

(* The parent of the root, spi_object_append_desktop_reference: a plug has *)
(* another one.                                                            *)
ClientAsksForDesktop ==
  /\ Running /\ routed /\ app = "there" /\ root # "plug"
  /\ program' = IF desktop THEN program ELSE "no desktop"
  /\ UNCHANGED <<started, at_exit, desktop, waiting, pressed, late, told, registrySide>>

-----------------------------------------------------------------------------
(* The end *)

(* spi_atk_deregister_event_listeners: what it has no id for stays, the    *)
(* children-changed listener and those of the cache.                       *)
Deregistered == {"focus", "event", "key"}

\* Mutant: the registry is not told.
ExitFuncSilent ==
  IF app = "there"
    THEN app' = "freed" /\ listeners' = listeners \ Deregistered /\ UNCHANGED inbox
    ELSE UNCHANGED <<app, listeners, inbox>>

\* exit_func, which returns when there is no bridge
ExitFunc ==
  IF app = "there"
    THEN /\ app' = "freed" /\ listeners' = listeners \ Deregistered
         /\ inbox' = Append(inbox, "deregister")
    ELSE UNCHANGED <<app, listeners, inbox>>

(* gnome_accessibility_module_shutdown, of which the first half is done    *)
(* again by exit_func; the program may go on.                              *)
ModuleShutdown ==
  /\ AtRest /\ ExitFunc
  /\ UNCHANGED <<root, reenter, inited, routed, at_exit, desktop, waiting, pressed,
                 late, told, program, up, asked, replies, said, listed>>

\* exit, from the main loop or from what a client has called
Exit ==
  /\ Running /\ program' = "exited"
  /\ IF at_exit THEN ExitFunc ELSE UNCHANGED <<app, listeners, inbox>>
  /\ UNCHANGED <<root, reenter, inited, routed, at_exit, desktop, waiting, pressed,
                 late, told, up, asked, replies, said, listed>>

-----------------------------------------------------------------------------
(* The registry daemon.  The bus answers for it when it is gone. *)

RegistryTakes ==
  /\ up /\ inbox # <<>>
  /\ inbox' = Tail(inbox)
  /\ CASE Head(inbox) = Embed ->
            /\ listed' = TRUE /\ replies' = replies \cup {<<Embed, "desktop">>}
            /\ UNCHANGED asked
       [] Head(inbox) = "deregister" -> listed' = FALSE /\ UNCHANGED <<replies, asked>>
       [] OTHER -> asked' = asked \cup {Head(inbox)} /\ UNCHANGED <<replies, listed>>
  /\ UNCHANGED <<bridgeSide, up, said>>

\* It has asked its clients; it may do so for several events at once.
RegistryAnswers(k) ==
  /\ up /\ k \in asked
  /\ asked' = asked \ {k}
  /\ \E answer \in {"consumed", "passed"} :
       replies' = replies \cup {<<k, answer>>} /\ said' = [said EXCEPT ![k] = answer]
  /\ UNCHANGED <<bridgeSide, up, inbox, listed>>

RegistryDies ==
  /\ up /\ up' = FALSE /\ asked' = {} /\ listed' = FALSE
  /\ replies' = replies \cup {<<k, "error">> : k \in asked}
  /\ UNCHANGED <<bridgeSide, inbox, said>>

BusAnswers ==
  /\ ~up /\ inbox # <<>>
  /\ inbox' = Tail(inbox)
  /\ replies' = replies \cup ({<<Head(inbox), "error">>} \ {<<"deregister", "error">>})
  /\ UNCHANGED <<bridgeSide, up, asked, said, listed>>

LifeNext ==
  \/ ModuleInit \/ ModuleInitTaken
  \/ \E r \in replies : Deliver(r)
  \/ Embedded \/ KeyReturns
  \/ \E k \in Key : KeyPress(k) \/ TimesOut(k) \/ RegistryAnswers(k)
  \/ \E l \in Listener : Emits(l)
  \/ ClientCall \/ ClientAsksForDesktop
  \/ ModuleShutdown \/ Exit
  \/ RegistryTakes \/ RegistryDies \/ BusAnswers

(* A waiting call reads what arrives and returns; the bus delivers; the    *)
(* registry gets round to what it is sent and answers it, or dies.         *)
LifeSpec ==
  /\ LifeInit /\ [][LifeNext]_lifeVars
  /\ WF_lifeVars(\E r \in replies : Deliver(r)) /\ WF_lifeVars(Embedded \/ KeyReturns)
  /\ WF_lifeVars(RegistryTakes) /\ WF_lifeVars(BusAnswers)
  /\ \A k \in Key : WF_lifeVars(RegistryAnswers(k))

-----------------------------------------------------------------------------
LifeTypeOK ==
  /\ root \in RootKind /\ app \in {"none", "there", "freed"}
  /\ listeners \subseteq Listener /\ late \subseteq pressed /\ pressed \subseteq Key /\ asked \subseteq Key
  /\ \A i \in DOMAIN waiting :
       waiting[i][1] = Embed => i = 1 /\ Len(waiting) = 1 /\ pressed = {}
  /\ told \in [Key -> {"nothing", "consumed", "passed"}]
  /\ program \in {"running", "exited", "no bridge", "no desktop"}

(* The bridge's data are used after they are gone only once the bridge has *)
(* been shut down in a program that goes on, not when it has only started  *)
(* in part or calls come in before the registry has answered.  And the     *)
(* desktop is used when there is none only where the application has not   *)
(* been embedded: not yet, though its adaptors answer, or never.           *)
NullOnlyAfterShutdown ==
  /\ program = "no bridge" => app = "freed" /\ listeners \cap Deregistered = {}
  /\ program = "no desktop" =>
       \/ root = "unregistered"
       \/ waiting # <<>> /\ waiting[1][1] = Embed
       \/ at_exit /\ ~up

(* A key event is reported consumed only if the registry said so of that   *)
(* event, and passed on though the registry said, or will say, that it was *)
(* consumed only if that event itself was waited for in vain until its     *)
(* call timed out: however the waits nest, in whatever order answers come, *)
(* and though the answer to a call that timed out may still arrive while   *)
(* others are waited for.  Without the main loop no call times out.        *)
OwnAnswer ==
  /\ \A k \in Key :
       /\ told[k] = "consumed" => said[k] = "consumed" /\ k \notin late
       /\ told[k] = "passed" /\ said[k] = "consumed" => k \in late
  /\ late # {} => reenter

(* A program that has exited is still listed, when the registry has read   *)
(* all it sent, only if it exited while it waited to be embedded: that is  *)
(* before its exit handler was there.                                      *)
LeftListed ==
  program = "exited" /\ inbox = <<>> /\ listed =>
    waiting # <<>> /\ waiting[1][1] = Embed

(* A key event that is waited for is told to the toolkit in the end, those *)
(* inside it first, unless the program ends.                               *)
KeysReturn ==
  \A k \in Key : k \in pressed ~> (told[k] # "nothing" \/ ~Running)
=============================================================================
