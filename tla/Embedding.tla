----------------------------- MODULE Embedding ------------------------------
(***************************************************************************)
(* Sockets and plugs: an application shows a window of another one inside  *)
(* its own.  The socket's bridge tells the plug's bridge, which from then  *)
(* on asks the socket where it is on the screen, and the socket asks the   *)
(* plug for its states.  Both do so in the middle of a client's call, and  *)
(* while they wait they read nothing but the answer.  Bridges and clients  *)
(* talk through one bus daemon, which keeps the order of what it is sent.  *)
(***************************************************************************)
EXTENDS Naturals, Sequences, FiniteSets

CONSTANTS
  Proc,        \* applications
  Socket, Plug,
  Owner,       \* the application of each socket and plug; the plugs of an
               \* application are of one class, and so are its sockets
  Query,       \* calls that clients will make, numbered in that order
  Nothing,     \* no object, no call
  MaxEmbeds    \* bound on the embeddings

\* what an application answers without another's help, and what it does instead
Plain == {"own", "asked", "garbage", "empty", "null", "no answer"}

ASSUME EmbeddingAssumption ==
  /\ Query \subseteq Nat /\ Socket \cap Plug = {} /\ Owner \in [Socket \cup Plug -> Proc]
  /\ Nothing \notin Socket \cup Plug \cup Plain /\ Nothing \notin Query /\ MaxEmbeds \in Nat
  /\ Plain \cap (Socket \cup Plug) = {}

VARIABLES
  embedded,    \* embedded[s]: ATK's embedded_plug_id of a socket
  parentOf,    \* parentOf[p]: the "dbus-plug-parent" of a plug
  asksSocket,  \* applications in whose plug class geometry is asked for
  asksPlug,    \* applications in whose socket class states are asked for
  inbox,       \* inbox[a]: messages for a: <<"Embedded", s, p>>, <<"ask", q>>
               \* from a client, or <<"call", q>> from the bridge that answers q
  waiting,     \* waiting[a]: the query for which a waits, or Nothing
  alive,       \* applications that have not been aborted
  query,       \* query[q]: <<member, object>>, or <<>> when not made yet
  called,      \* called[q]: the object that is asked on behalf of q, or Nothing
  heard,       \* queries for which the answer to the call has come
  answer,      \* answer[q]: what the client was told, or Nothing
  embeds,      \* history: the embeddings, first to last
  since        \* history: since[q]: what was answered when q was made

embedVars == <<embedded, parentOf, asksSocket, asksPlug, inbox, waiting, alive,
               query, called, heard, answer, embeds, since>>
links == <<embedded, parentOf, asksSocket, asksPlug, embeds>>
asking == <<query, since>>

Member == {"Extents", "State", "Parent", "Child"}
\* The states of a plug and the geometry of a socket are the toolkit's.
Takes(m) == IF m \in {"Parent", "Extents"} THEN Plug ELSE Socket

\* Mutant: the override is made with the other hooks.
EmbedInitHooked ==
  /\ embedded = [s \in Socket |-> Nothing] /\ parentOf = [p \in Plug |-> Nothing]
  /\ asksSocket = Proc /\ asksPlug = {}
  /\ inbox = [a \in Proc |-> <<>>] /\ waiting = [a \in Proc |-> Nothing] /\ alive = Proc
  /\ query = [q \in Query |-> <<>>] /\ called = [q \in Query |-> Nothing] /\ heard = {}
  /\ answer = [q \in Query |-> Nothing] /\ embeds = <<>>
  /\ since = [q \in Query |-> {}]

EmbedInit ==
  /\ embedded = [s \in Socket |-> Nothing] /\ parentOf = [p \in Plug |-> Nothing]
  /\ asksSocket = {} /\ asksPlug = {}
  /\ inbox = [a \in Proc |-> <<>>] /\ waiting = [a \in Proc |-> Nothing] /\ alive = Proc
  /\ query = [q \in Query |-> <<>>] /\ called = [q \in Query |-> Nothing] /\ heard = {}
  /\ answer = [q \in Query |-> Nothing] /\ embeds = <<>>
  /\ since = [q \in Query |-> {}]

Dispatches(a) == a \in alive /\ waiting[a] = Nothing
Next1(a) == Head(inbox[a])

\* The bus drops what is for an application that is gone.
Sent(box, a, msg) == IF a \in alive THEN [box EXCEPT ![a] = Append(@, msg)] ELSE box

-----------------------------------------------------------------------------
(* Embedding *)

\* Mutant: the plug is only told by what the socket answers later.
EmbedUntold(s, p) ==
  /\ Dispatches(Owner[s]) /\ Len(embeds) < MaxEmbeds
  /\ embedded' = [embedded EXCEPT ![s] = p]
  /\ asksPlug' = asksPlug \cup {Owner[s]}
  /\ embeds' = Append(embeds, <<s, p>>)
  /\ UNCHANGED <<parentOf, asksSocket, inbox, waiting, alive, asking, called, heard, answer>>

(* atk_socket_embed and socket_embed_hook: a program has the plug's id from *)
(* get_plug_id.  Neither the plug's former socket nor the socket's former   *)
(* plug hears of it.                                                        *)
Embed(s, p) ==
  /\ Dispatches(Owner[s]) /\ Len(embeds) < MaxEmbeds
  /\ embedded' = [embedded EXCEPT ![s] = p]
  /\ inbox' = Sent(inbox, Owner[p], <<"Embedded", s, p>>)
  /\ asksPlug' = asksPlug \cup {Owner[s]}
  /\ embeds' = Append(embeds, <<s, p>>)
  /\ UNCHANGED <<parentOf, asksSocket, waiting, alive, asking, called, heard, answer>>

\* impl_Embedded: the parent is the plug's, the override is its class's.
Embedded(a) ==
  /\ Dispatches(a) /\ inbox[a] # <<>> /\ Next1(a)[1] = "Embedded"
  /\ parentOf' = [parentOf EXCEPT ![Next1(a)[3]] = Next1(a)[2]]
  /\ asksSocket' = asksSocket \cup {a}
  /\ inbox' = [inbox EXCEPT ![a] = Tail(@)]
  /\ UNCHANGED <<embedded, asksPlug, waiting, alive, asking, called, heard, answer, embeds>>

-----------------------------------------------------------------------------
(* A query of a client *)

Answered == {q \in Query : answer[q] # Nothing}

Ask(q, m, o) ==
  /\ query[q] = <<>> /\ o \in Takes(m) /\ \A r \in 1 .. q - 1 : query[r] # <<>>
  /\ query' = [query EXCEPT ![q] = <<m, o>>]
  /\ since' = [since EXCEPT ![q] = Answered]
  /\ IF Owner[o] \in alive
       THEN inbox' = Sent(inbox, Owner[o], <<"ask", q>>) /\ UNCHANGED answer
       ELSE answer' = [answer EXCEPT ![q] = "no answer"] /\ UNCHANGED inbox
  /\ UNCHANGED <<links, waiting, alive, called, heard>>

Asked(a) == Dispatches(a) /\ inbox[a] # <<>> /\ Next1(a)[1] = "ask"
Of(a) == query[Next1(a)[2]]

\* where a query is passed on to, in socket_ref_state_set and new_socket_call_message
Other(a) ==
  CASE Of(a)[1] = "Extents" /\ a \in asksSocket -> parentOf[Of(a)[2]]
    [] Of(a)[1] = "State" /\ a \in asksPlug -> embedded[Of(a)[2]]
    [] OTHER -> Nothing
\* The class asks for the geometry, and this plug has nobody to ask.
Lost(a) == Of(a)[1] = "Extents" /\ a \in asksSocket /\ Other(a) = Nothing

OrNull(o) == IF o = Nothing THEN "null" ELSE o

(* impl_get_Parent, impl_GetChildAtIndex, and the toolkit's own states and *)
(* geometry.  A socket that has been given nothing has no states in a      *)
(* class that asks.                                                        *)
Direct(a) ==
  /\ Asked(a) /\ Other(a) = Nothing /\ ~Lost(a)
  /\ answer' = [answer EXCEPT ![Next1(a)[2]] =
                  CASE Of(a)[1] = "Parent" -> OrNull(parentOf[Of(a)[2]])
                    [] Of(a)[1] = "Child"  -> OrNull(embedded[Of(a)[2]])
                    [] Of(a)[1] = "State" /\ a \in asksPlug -> "empty"
                    [] OTHER -> "own"]
  /\ inbox' = [inbox EXCEPT ![a] = Tail(@)]
  /\ UNCHANGED <<links, waiting, alive, asking, called, heard>>

\* dbus_connection_send_with_reply_and_block, on behalf of the query
PassOn(a) ==
  /\ Asked(a) /\ Other(a) # Nothing
  /\ LET q == Next1(a)[2] IN
       /\ waiting' = [waiting EXCEPT ![a] = q]
       /\ called' = [called EXCEPT ![q] = Other(a)]
       /\ inbox' = Sent([inbox EXCEPT ![a] = Tail(@)], Owner[Other(a)], <<"call", q>>)
       /\ heard' = IF Owner[Other(a)] \in alive THEN heard ELSE heard \cup {q}
  /\ UNCHANGED <<links, alive, asking, answer>>

(* The other side answers at once, from its own toolkit: a socket is no    *)
(* plug and a plug no socket.                                              *)
Serve(a) ==
  /\ Dispatches(a) /\ inbox[a] # <<>> /\ Next1(a)[1] = "call"
  /\ heard' = heard \cup {Next1(a)[2]}
  /\ inbox' = [inbox EXCEPT ![a] = Tail(@)]
  /\ UNCHANGED <<links, waiting, alive, asking, called, answer>>

(* GetExtents then reads its uninitialised numbers, and states are empty.  *)
Without(q) == IF query[q][1] = "Extents" THEN "garbage" ELSE "empty"
Resumes(a, said) ==
  /\ answer' = [answer EXCEPT ![waiting[a]] = said]
  /\ waiting' = [waiting EXCEPT ![a] = Nothing]
  /\ UNCHANGED <<links, inbox, alive, asking, called, heard>>

\* An error, sent by the bus for one that is gone, is no reply either.
Resume(a) ==
  /\ a \in alive /\ waiting[a] \in heard
  /\ \/ Resumes(a, "asked")
     \/ Owner[called[waiting[a]]] \notin alive /\ Resumes(a, Without(waiting[a]))

\* Mutant: the states are waited for as long as anything.
ShortTimeoutNever(a) == FALSE /\ Resumes(a, "empty")

\* after 1 ms, and after 25 s; what is answered then is dropped
ShortTimeout(a) ==
  /\ a \in alive /\ waiting[a] # Nothing /\ query[waiting[a]][1] = "State"
  /\ Resumes(a, "empty")
LongTimeout(a) ==
  /\ a \in alive /\ waiting[a] # Nothing /\ query[waiting[a]][1] = "Extents"
  /\ Resumes(a, "garbage")

(* new_socket_call_message returns NULL, which libdbus aborts on.  The bus *)
(* answers what has been sent to the application.                          *)
Abort(a) ==
  /\ Asked(a) /\ Lost(a)
  /\ alive' = alive \ {a}
  /\ LET sent == {inbox[a][i] : i \in DOMAIN inbox[a]} IN
       /\ answer' = [q \in Query |-> IF <<"ask", q>> \in sent THEN "no answer" ELSE answer[q]]
       /\ heard' = heard \cup {q \in Query : <<"call", q>> \in sent}
  /\ inbox' = [inbox EXCEPT ![a] = <<>>]
  /\ UNCHANGED <<links, waiting, asking, called>>

EmbedNext ==
  \/ \E s \in Socket, p \in Plug : Embed(s, p)
  \/ \E q \in Query, m \in Member, o \in Socket \cup Plug : Ask(q, m, o)
  \/ \E a \in Proc : Embedded(a) \/ Direct(a) \/ PassOn(a) \/ Serve(a) \/ Resume(a)
                     \/ ShortTimeout(a) \/ LongTimeout(a) \/ Abort(a)

(* The main loops run and the millisecond passes.  Nobody is assumed to    *)
(* wait for 25 seconds.                                                    *)
EmbedSpec ==
  /\ EmbedInit /\ [][EmbedNext]_embedVars
  /\ \A a \in Proc :
       /\ WF_embedVars(Embedded(a) \/ Direct(a) \/ PassOn(a) \/ Serve(a) \/ Abort(a))
       /\ WF_embedVars(Resume(a)) /\ WF_embedVars(ShortTimeout(a))

-----------------------------------------------------------------------------
EmbeddingTypeOK ==
  /\ embedded \in [Socket -> Plug \cup {Nothing}] /\ parentOf \in [Plug -> Socket \cup {Nothing}]
  /\ asksSocket \subseteq Proc /\ asksPlug \subseteq Proc /\ alive \subseteq Proc
  /\ waiting \in [Proc -> Query \cup {Nothing}] /\ heard \subseteq Query
  /\ answer \in [Query -> Plain \cup Socket \cup Plug \cup {Nothing}]

InFlight(p) == {i \in DOMAIN inbox[Owner[p]] : inbox[Owner[p]][i][1] = "Embedded"
                                               /\ inbox[Owner[p]][i][3] = p}
By(p) == {i \in DOMAIN embeds : embeds[i][2] = p}

(* Once its messages are read, the parent of a plug is the socket that     *)
(* embedded it last, though that socket may have another plug by then.     *)
LastEmbedderIsParent ==
  \A p \in Plug :
    Owner[p] \in alive /\ InFlight(p) = {} =>
      IF By(p) = {} THEN parentOf[p] = Nothing
      ELSE \E i \in By(p) : (\A j \in By(p) : j <= i) /\ parentOf[p] = embeds[i][1]

(* A client that was told of a plug as the child of a socket and asks the  *)
(* plug for its parent is told that socket, or one which embedded the plug *)
(* afterwards: never nothing, though the two applications know of the      *)
(* embedding at different times.                                           *)
ParentAfterChild ==
  \A q, r \in Query :
    /\ query[r] # <<>> /\ query[r][1] = "Parent" /\ answer[r] \notin {Nothing, "no answer"}
    /\ q \in since[r] /\ query[q][1] = "Child" /\ answer[q] = query[r][2]
    => \E i \in By(query[r][2]) :
         /\ answer[r] = embeds[i][1]
         /\ \E j \in By(query[r][2]) : j <= i /\ embeds[j][1] = query[q][2]

(* Whatever the two applications are told and in whatever order, plugs and *)
(* clients end up with the parent that embedded last, or with a newer one  *)
(* than they have heard of.                                                *)
ParentsAgree == LastEmbedderIsParent /\ ParentAfterChild

(* An application is aborted only between its first plug's embedding and   *)
(* its last's: by asking the geometry of a plug that is not embedded yet   *)
(* of one that is alone in its class nothing can happen.                   *)
AbortedByLonePlug ==
  \A a \in Proc \ alive :
    \E p, other \in Plug :
      /\ Owner[p] = a /\ Owner[other] = a
      /\ parentOf[p] = Nothing /\ parentOf[other] # Nothing

\* The applications of a circle each wait 25 s for the next.
Circle ==
  \E S \in SUBSET alive \ {{}} :
    \A a \in S : /\ waiting[a] # Nothing /\ waiting[a] \notin heard
                 /\ query[waiting[a]][1] = "Extents" /\ Owner[called[waiting[a]]] \in S

(* The applications of a circle have each a plug in the next, or in        *)
(* themselves: where sockets and plugs are in different applications a     *)
(* socket that waits for its plug's states while the plug waits for the    *)
(* socket gives up first.  Without a circle every query is answered, no    *)
(* matter that nobody waits for 25 s.                                      *)
AnsweredButInCircle ==
  \A q \in Query : (query[q] # <<>>) ~> (answer[q] # Nothing \/ Circle)
=============================================================================
