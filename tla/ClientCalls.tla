---------------------------- MODULE ClientCalls -----------------------------
(***************************************************************************)
(* cspi/spi-main.c: how a wrapper of the client library (ClientStubs)      *)
(* learns of a failure.  There is one exception for the whole library.     *)
(* While a call waits for its reply events are dispatched, and a listener  *)
(* may use other wrappers.                                                 *)
(***************************************************************************)
EXTENDS Naturals, Sequences, ClientStubs

CONSTANTS
  Wrapper,      \* the wrappers the client uses
  MaxNested     \* bound on calls inside calls

RelationSet == Call("getAttributes", <<>>, "a(uao)", "ev")
AllStubs == UNION {Stubs[interface] : interface \in DOMAIN Stubs}
ASSUME ClientCallsAssumption == Wrapper \subseteq AllStubs /\ MaxNested \in Nat

NoCall == <<"none", "", <<>>, "", "ev">>
Way(w) == w[1]        \* a method is called, a property read
After(w) == w[5]      \* what becomes of a failure

VARIABLES
  exception,  \* the wrapper whose error is in the exception, or NoCall
  pending,    \* wrappers in the middle of a call, the innermost last
  told,       \* what the last wrapper gave: <<wrapper, its own outcome, result, blamed>>
  client      \* "running", or "aborted" by an assertion

callVars == <<exception, pending, told, client>>

CallsInit ==
  /\ exception = NoCall /\ pending = <<>> /\ client = "running"
  /\ told = <<NoCall, "ok", "value", NoCall>>

(* dbind's reentrant call; a property is read with a call that blocks.     *)
Begin(w) ==
  /\ client = "running" /\ Len(pending) < MaxNested
  /\ pending # <<>> => Way(pending[Len(pending)]) = "call"
  /\ IF w = RelationSet /\ exception # NoCall
       THEN /\ client' = "aborted" /\ told' = <<w, "ok", "abort", exception>>
            /\ exception' = NoCall /\ UNCHANGED pending
       ELSE pending' = Append(pending, w) /\ UNCHANGED <<exception, told, client>>

(* cspi_dbus_call moves its error into the exception unless there is one;  *)
(* cspi_dbus_get_property drops it.                                        *)
Thrown(w, outcome) ==
  IF Way(w) = "call" /\ outcome = "error" /\ exception = NoCall THEN w ELSE exception

\* Mutant: the exception is looked at and kept.
LeftKept(w, thrown) == thrown

\* cspi_exception frees what it finds, cspi_check_ev does not.
Left(w, thrown) == IF After(w) = "ev" THEN NoCall ELSE thrown

(* What the caller gets: the reply's value, the value documented for a     *)
(* failure, or memory that nobody wrote.                                   *)
Result(w, outcome, thrown) ==
  LET read == IF outcome = "ok" THEN "value" ELSE "wild" IN
  CASE After(w) \in {"ev", "check"} -> IF thrown # NoCall THEN "failure" ELSE read
    [] After(w) = "inverted"        -> IF thrown # NoCall THEN read ELSE "failure"
    [] After(w) = "none"            -> read

Finish(outcome) ==
  /\ client = "running" /\ pending # <<>>
  /\ LET w == pending[Len(pending)]
         thrown == Thrown(w, outcome)
     IN  /\ told' = <<w, outcome, Result(w, outcome, thrown), thrown>>
         /\ exception' = Left(w, thrown)
  /\ pending' = SubSeq(pending, 1, Len(pending) - 1)
  /\ UNCHANGED client

CallsNext ==
  \/ \E w \in Wrapper : Begin(w)
  \/ \E outcome \in {"ok", "error"} : Finish(outcome)

CallsSpec == CallsInit /\ [][CallsNext]_callVars

-----------------------------------------------------------------------------
CallsTypeOK ==
  /\ exception \in Wrapper \cup {NoCall} /\ client \in {"running", "aborted"}
  /\ pending \in Seq(Wrapper) /\ Len(pending) <= MaxNested
  /\ \A i \in 1 .. Len(pending) - 1 : Way(pending[i]) = "call"

(* A failed call is returned as a failure and never as what is in memory   *)
(* by chance, except where a property is read, which no test can notice,   *)
(* or by the few wrappers that do not test, or test the wrong way round.   *)
OwnFailureReported ==
  told[2] = "error" =>
    \/ told[3] = "failure"
    \/ Way(told[1]) = "get" \/ After(told[1]) \in {"none", "inverted"}

(* A call that went well is returned as a failure, or a client aborted for *)
(* a leftover, only because of an earlier failure of a wrapper that leaves *)
(* the exception set, be it one that a listener used in the meantime.      *)
OthersBlamedRightly ==
  told[2] = "ok" /\ told[3] \in {"failure", "abort"} =>
    \/ After(told[1]) = "inverted" /\ told[4] = NoCall
    \/ After(told[4]) # "ev"

(* With one exception for all calls, a failure is the caller's own or is   *)
(* somebody's who is known to leave it, and does not get lost on the way.  *)
FailuresAreOwn == OwnFailureReported /\ OthersBlamedRightly
=============================================================================
