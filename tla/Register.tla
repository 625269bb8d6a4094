------------------------------ MODULE Register ------------------------------
(***************************************************************************)
(* atk-adaptor/accessible-register.c: the register that gives every        *)
(* AtkObject (or AtkHyperlink) handed to a D-Bus client a path, and        *)
(* forgets the path when the object is destroyed.                          *)
(*                                                                         *)
(* A life of an object is the pair <<o, gen[o]>> of its address and how    *)
(* often that address was allocated.  A path is abstracted to the integer  *)
(* printed in it.  The counter is a guint and wraps; 0 is "no reference".  *)
(***************************************************************************)
EXTENDS Integers, AtkObjects

CONSTANTS
  RefModulus,    \* 2^32 in the code: the number of values of a guint
  MaxLives       \* bound: how often one address is allocated

ASSUME RegisterAssumption ==
  /\ Root \in Object
  /\ Null \notin Object /\ Null \notin Object \X (0 .. MaxLives)
  /\ RefModulus \in Nat /\ RefModulus > 1
  /\ MaxLives \in Nat \ {0}

VARIABLES
  reference_counter,  \* SpiRegister.reference_counter
  ref2ptr,            \* SpiRegister.ref2ptr, Null where there is no entry
  dbus_id,            \* the "spi-dbus-id" datum of each object, 0 if unset
  weak,               \* objects deregister_object is a weak notify of
  alive,              \* addresses that hold an object
  gen,                \* which life of the address this is
  issued,             \* history: issued[r] is the lives r was given out for
  registrations       \* history: how many references were assigned

regVars == <<reference_counter, ref2ptr, dbus_id, weak, alive, gen,
             issued, registrations>>

Ref == 1 .. (RefModulus - 1)
Life == Object \X (0 .. MaxLives)

RegTypeOK ==
  /\ reference_counter \in 0 .. (RefModulus - 1)
  /\ ref2ptr \in [Ref -> Object \cup {Null}]
  /\ dbus_id \in [Object -> 0 .. (RefModulus - 1)]
  /\ weak \in SUBSET Object
  /\ alive \in SUBSET Object
  /\ gen \in [Object -> 0 .. MaxLives]
  /\ issued \in [Ref -> SUBSET Life]
  /\ registrations \in Nat

RegInit ==
  /\ reference_counter = 0
  /\ ref2ptr = [r \in Ref |-> Null]
  /\ dbus_id = [o \in Object |-> 0]
  /\ weak = {}
  /\ alive \in {S \in SUBSET Object : Root \in S}
  /\ gen = [o \in Object |-> 0]
  /\ issued = [r \in Ref |-> {}]
  /\ registrations = 0

-----------------------------------------------------------------------------
\* assign_reference: count up, skipping 0 when the guint wraps
NextReference(c) ==
  IF (c + 1) % RefModulus = 0 THEN 1 ELSE c + 1

\* Mutant: the object's datum is not set, so it is registered at every use.
RegisterObjectNoDatum(o) ==
  LET ref == NextReference(reference_counter) IN
  /\ reference_counter' = ref
  /\ ref2ptr' = [ref2ptr EXCEPT ![ref] = o]
  /\ weak' = weak \cup {o}
  /\ issued' = [issued EXCEPT ![ref] = @ \cup {<<o, gen[o]>>}]
  /\ registrations' = registrations + 1
  /\ UNCHANGED dbus_id

\* Mutant: the object is not watched, so its entry outlives it.
RegisterObjectNoWeakRef(o) ==
  LET ref == NextReference(reference_counter) IN
  /\ reference_counter' = ref
  /\ ref2ptr' = [ref2ptr EXCEPT ![ref] = o]
  /\ dbus_id' = [dbus_id EXCEPT ![o] = ref]
  /\ issued' = [issued EXCEPT ![ref] = @ \cup {<<o, gen[o]>>}]
  /\ registrations' = registrations + 1
  /\ UNCHANGED weak

\* register_object
RegisterObject(o) ==
  LET ref == NextReference(reference_counter) IN
  /\ reference_counter' = ref
  /\ ref2ptr' = [ref2ptr EXCEPT ![ref] = o]
  /\ dbus_id' = [dbus_id EXCEPT ![o] = ref]
  /\ weak' = weak \cup {o}
  /\ issued' = [issued EXCEPT ![ref] = @ \cup {<<o, gen[o]>>}]
  /\ registrations' = registrations + 1

(* spi_register_object_to_path: the root has a path of its own and is      *)
(* never registered; any other object is registered the first time.        *)
ObjectToPath(o) ==
  /\ o \in alive
  /\ IF o # Root /\ dbus_id[o] = 0
       THEN RegisterObject(o)
       ELSE UNCHANGED <<reference_counter, ref2ptr, dbus_id, weak,
                        issued, registrations>>
  /\ UNCHANGED <<alive, gen>>

\* ref_to_path prints the guint with %d: the upper half comes out negative
RefToPath(ref) == IF 2 * ref < RefModulus THEN ref ELSE ref - RefModulus

\* Mutant: the number is looked up with the sign it was printed with.
PathToObjectSigned(path) == IF path \in Ref THEN ref2ptr[path] ELSE Null

\* spi_register_path_to_object: atoi, back to a guint, and the table
PathToObject(path) ==
  LET index == IF path < 0 THEN path + RefModulus ELSE path
  IN  IF index \in Ref THEN ref2ptr[index] ELSE Null

\* Mutant: the entry of a destroyed object stays in the table.
ForgottenKeepsEntry(o) == ref2ptr

\* the table once deregister_object has run for o
Forgotten(o) ==
  IF o \in weak /\ dbus_id[o] # 0
    THEN [ref2ptr EXCEPT ![dbus_id[o]] = Null]
    ELSE ref2ptr

-----------------------------------------------------------------------------
\* The toolkit allocates an object: its data list is empty.
Create(o) ==
  /\ o \notin alive
  /\ gen[o] < MaxLives
  /\ alive' = alive \cup {o}
  /\ gen' = [gen EXCEPT ![o] = @ + 1]
  /\ dbus_id' = [dbus_id EXCEPT ![o] = 0]
  /\ UNCHANGED <<reference_counter, ref2ptr, weak, issued, registrations>>

\* The last reference to o is dropped: its weak notifies run.
Destroy(o) ==
  /\ o \in alive \ {Root}
  /\ ref2ptr' = Forgotten(o)
  /\ weak' = weak \ {o}
  /\ alive' = alive \ {o}
  /\ UNCHANGED <<reference_counter, dbus_id, gen, issued, registrations>>

RegNext ==
  \E o \in Object : Create(o) \/ ObjectToPath(o) \/ Destroy(o)

RegSpec == RegInit /\ [][RegNext]_regVars

-----------------------------------------------------------------------------
(* The register has counted through every reference at least once.  The    *)
(* code has no defence from here on ("TODO: Make this reference a little   *)
(* more unique, this is shoddy").                                          *)
Wrapped == registrations >= RefModulus

(* As long as the counter has not wrapped, the table and the objects' data *)
(* agree: an entry names a live object that knows itself by that entry,    *)
(* and a live object that has a reference is found under it.               *)
TableAgreesWithData ==
  ~Wrapped =>
    /\ \A r \in Ref : ref2ptr[r] # Null =>
         ref2ptr[r] \in alive /\ dbus_id[ref2ptr[r]] = r
    /\ \A o \in alive : dbus_id[o] # 0 => ref2ptr[dbus_id[o]] = o

(* A path a client was given for a life of an object, however long ago,    *)
(* resolves to that life or to nothing: never to another object, and never *)
(* to a later object at the same address.                                  *)
ResolvesToWhatWasIssued ==
  \A r \in Ref :
    LET found == PathToObject(RefToPath(r))
    IN  found # Null => issued[r] = {<<found, gen[found]>>}

PathsAreStable == ~Wrapped => ResolvesToWhatWasIssued

(* The object directory the register implements until the counter wraps.   *)
Directory == INSTANCE ObjectDirectory WITH
  Name <- Ref,
  Incarnation <- Life,
  Nobody <- Null,
  used <- issued,
  bound <- [r \in Ref |->
              IF ref2ptr[r] = Null THEN Null
              ELSE <<ref2ptr[r], gen[ref2ptr[r]]>>]

ImplementsDirectory == Directory!DirSpec
=============================================================================
