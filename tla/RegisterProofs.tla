--------------------------- MODULE RegisterProofs ---------------------------
(***************************************************************************)
(* What holds of the register for every set of addresses, every width of   *)
(* the counter and every number of lives of an address.                    *)
(***************************************************************************)
EXTENDS Register, TLAPS

(* Until the counter wraps it is the number of registrations, so the       *)
(* references above it are fresh: in no table, in nobody's hands.          *)
FreshAbove ==
  ~Wrapped =>
    /\ reference_counter = registrations
    /\ \A r \in Ref : r > reference_counter =>
         ref2ptr[r] = Null /\ issued[r] = {}

\* A live object that has a reference is watched, so its end is noticed.
Watched == \A o \in alive : dbus_id[o] # 0 => o \in weak

(* A reference in somebody's hands stands for one life, past or present;   *)
(* the present life of an object was given no other reference than the one *)
(* in its datum.                                                           *)
OneReferencePerLife ==
  ~Wrapped =>
    \A r \in Ref, o \in Object, g \in 0 .. MaxLives :
      <<o, g>> \in issued[r] =>
        /\ g <= gen[o]
        /\ (o \in alive /\ g = gen[o]) => dbus_id[o] = r

EntriesAsIssued ==
  ~Wrapped =>
    \A r \in Ref : ref2ptr[r] # Null =>
      issued[r] = {<<ref2ptr[r], gen[ref2ptr[r]]>>}

RegIndInv ==
  /\ RegTypeOK
  /\ FreshAbove
  /\ Watched
  /\ OneReferencePerLife
  /\ EntriesAsIssued
  /\ TableAgreesWithData

-----------------------------------------------------------------------------
(* assign_reference never hands out 0, stays within a guint, and counts by *)
(* one below the top.                                                      *)
LEMMA NextReferenceRange ==
  ASSUME NEW c \in 0 .. (RefModulus - 1)
  PROVE  /\ NextReference(c) \in Ref
         /\ c + 1 < RefModulus => NextReference(c) = c + 1
<1>1. CASE c + 1 = RefModulus
  <2>1. (c + 1) % RefModulus = 0
    BY <1>1, RegisterAssumption
  <2>2. QED
    BY <1>1, <2>1, RegisterAssumption DEF NextReference, Ref
<1>2. CASE c + 1 < RefModulus
  <2>1. (c + 1) % RefModulus = c + 1
    BY <1>2, RegisterAssumption
  <2>2. QED
    BY <1>2, <2>1, RegisterAssumption DEF NextReference, Ref
<1>3. QED
  BY <1>1, <1>2, RegisterAssumption

\* Printing a reference as a signed number and reading it back is lossless.
LEMMA PathRoundTrip ==
  ASSUME NEW r \in Ref
  PROVE  PathToObject(RefToPath(r)) = ref2ptr[r]
BY RegisterAssumption DEF Ref, RefToPath, PathToObject

LEMMA RegInitIndInv == RegInit => RegIndInv
<1> SUFFICES ASSUME RegInit PROVE RegIndInv
  OBVIOUS
<1>1. RegTypeOK
  BY RegisterAssumption DEF RegInit, RegTypeOK, Ref, Life
<1>2. FreshAbove /\ Watched /\ OneReferencePerLife /\ EntriesAsIssued
  BY RegisterAssumption DEF RegInit, FreshAbove, Watched, OneReferencePerLife,
     EntriesAsIssued, Ref
<1>3. TableAgreesWithData
  BY RegisterAssumption DEF RegInit, TableAgreesWithData, Ref
<1>4. QED
  BY <1>1, <1>2, <1>3 DEF RegIndInv

-----------------------------------------------------------------------------
LEMMA CreateIndInv ==
  ASSUME RegIndInv, NEW o \in Object, Create(o)
  PROVE  RegIndInv'
<1> USE RegisterAssumption DEF RegIndInv
<1>1. RegTypeOK'
  BY DEF RegTypeOK, Create
<1>2. FreshAbove'
  BY DEF FreshAbove, Create, Wrapped
<1>3. Watched'
  BY DEF Watched, Create, RegTypeOK
<1>4. OneReferencePerLife'
  BY DEF OneReferencePerLife, Create, Wrapped, RegTypeOK
<1>5. EntriesAsIssued'
  <2> SUFFICES ASSUME ~Wrapped, NEW r \in Ref, ref2ptr[r] # Null
               PROVE  issued[r] = {<<ref2ptr[r], gen'[ref2ptr[r]]>>}
    BY DEF EntriesAsIssued, Create, Wrapped
  <2>1. ref2ptr[r] \in alive
    BY DEF TableAgreesWithData
  <2>2. ref2ptr[r] # o
    BY <2>1 DEF Create
  <2>3. gen'[ref2ptr[r]] = gen[ref2ptr[r]]
    BY <2>2 DEF Create, RegTypeOK
  <2>4. QED
    BY <2>3 DEF EntriesAsIssued
<1>6. TableAgreesWithData'
  BY DEF TableAgreesWithData, Create, Wrapped, RegTypeOK
<1>7. QED
  BY <1>1, <1>2, <1>3, <1>4, <1>5, <1>6

LEMMA DestroyIndInv ==
  ASSUME RegIndInv, NEW o \in Object, Destroy(o)
  PROVE  RegIndInv'
<1> USE RegisterAssumption DEF RegIndInv
<1>1. ref2ptr' \in [Ref -> Object \cup {Null}]
  BY DEF RegTypeOK, Destroy, Forgotten
<1>2. \A r \in Ref : ref2ptr'[r] # Null => ref2ptr'[r] = ref2ptr[r]
  BY DEF RegTypeOK, Destroy, Forgotten
<1>3. ~Wrapped => \A r \in Ref : ref2ptr'[r] # Null => ref2ptr'[r] # o
  <2> SUFFICES ASSUME ~Wrapped, NEW r \in Ref, ref2ptr'[r] # Null, ref2ptr'[r] = o
               PROVE  FALSE
    OBVIOUS
  <2>1. ref2ptr[r] = o
    BY <1>2
  <2>2. o \in alive /\ dbus_id[o] = r
    BY <2>1 DEF TableAgreesWithData, RegTypeOK
  <2>3. r # 0
    BY DEF Ref
  <2>4. o \in weak
    BY <2>2, <2>3 DEF Watched
  <2>5. ref2ptr' = [ref2ptr EXCEPT ![r] = Null]
    BY <2>2, <2>3, <2>4 DEF Destroy, Forgotten
  <2>6. ref2ptr'[r] = Null
    BY <2>5 DEF RegTypeOK
  <2>7. QED
    BY <2>6
<1>4. RegTypeOK'
  BY <1>1 DEF RegTypeOK, Destroy
<1>5. FreshAbove'
  BY <1>2 DEF FreshAbove, Destroy, Wrapped
<1>6. Watched'
  BY DEF Watched, Destroy
<1>7. OneReferencePerLife'
  BY DEF OneReferencePerLife, Destroy, Wrapped
<1>8. EntriesAsIssued'
  BY <1>2 DEF EntriesAsIssued, Destroy, Wrapped
<1>9. TableAgreesWithData'
  <2>1. ~Wrapped => \A r \in Ref : ref2ptr'[r] # Null =>
          ref2ptr'[r] \in alive' /\ dbus_id'[ref2ptr'[r]] = r
    BY <1>2, <1>3 DEF TableAgreesWithData, Destroy, RegTypeOK
  <2>2. ASSUME ~Wrapped, NEW p \in alive', dbus_id'[p] # 0
        PROVE  ref2ptr'[dbus_id'[p]] = p
    <3>1. p \in alive /\ p # o /\ p \in Object /\ dbus_id'[p] = dbus_id[p]
      BY <2>2 DEF Destroy, RegTypeOK
    <3>2. ref2ptr[dbus_id[p]] = p
      BY <2>2, <3>1 DEF TableAgreesWithData
    <3>3. dbus_id[p] \in Ref
      BY <2>2, <3>1 DEF RegTypeOK, Ref
    <3>4. CASE o \in weak /\ dbus_id[o] # 0
      <4>1. ref2ptr[dbus_id[o]] = o
        BY <2>2, <3>4 DEF TableAgreesWithData, Destroy
      <4>2. dbus_id[o] # dbus_id[p]
        BY <3>1, <3>2, <4>1
      <4>3. QED
        BY <3>1, <3>2, <3>3, <3>4, <4>2 DEF Destroy, Forgotten, RegTypeOK
    <3>5. CASE ~(o \in weak /\ dbus_id[o] # 0)
      BY <3>1, <3>2, <3>5 DEF Destroy, Forgotten
    <3>6. QED
      BY <3>4, <3>5
  <2>3. QED
    BY <2>1, <2>2 DEF TableAgreesWithData, Wrapped, Destroy
<1>10. QED
  BY <1>4, <1>5, <1>6, <1>7, <1>8, <1>9

-----------------------------------------------------------------------------
(* While it does not wrap the counter, a registration takes a reference    *)
(* nobody ever had.                                                        *)
LEMMA RegisterTakesFresh ==
  ASSUME RegIndInv, NEW o \in Object, RegisterObject(o), ~Wrapped'
  PROVE  LET ref == NextReference(reference_counter) IN
         /\ ~Wrapped
         /\ ref \in Ref
         /\ ref = reference_counter + 1
         /\ ref2ptr[ref] = Null
         /\ issued[ref] = {}
<1> DEFINE ref == NextReference(reference_counter)
<1>1. registrations' = registrations + 1 /\ registrations \in Nat
  BY DEF RegisterObject, RegIndInv, RegTypeOK
<1>2. ~Wrapped /\ registrations + 1 < RefModulus
  BY <1>1, RegisterAssumption DEF Wrapped
<1>3. reference_counter = registrations
  BY <1>2 DEF RegIndInv, FreshAbove
<1>4. ref \in Ref /\ ref = reference_counter + 1
  BY <1>2, <1>3, NextReferenceRange DEF RegIndInv, RegTypeOK
<1>5. ref2ptr[ref] = Null /\ issued[ref] = {}
  BY <1>2, <1>4, RegisterAssumption DEF RegIndInv, FreshAbove, RegTypeOK
<1>6. QED
  BY <1>2, <1>4, <1>5

LEMMA RegisterIndInv ==
  ASSUME RegIndInv, NEW o \in Object, ObjectToPath(o), o # Root, dbus_id[o] = 0
  PROVE  RegIndInv'
<1> USE RegisterAssumption
<1> DEFINE ref == NextReference(reference_counter)
<1>0. RegisterObject(o) /\ o \in alive /\ alive' = alive /\ gen' = gen
  BY DEF ObjectToPath
<1>1. ref \in Ref
  BY NextReferenceRange DEF RegIndInv, RegTypeOK
<1>2. /\ reference_counter' = ref
      /\ ref2ptr' = [ref2ptr EXCEPT ![ref] = o]
      /\ dbus_id' = [dbus_id EXCEPT ![o] = ref]
      /\ weak' = weak \cup {o}
      /\ issued' = [issued EXCEPT ![ref] = @ \cup {<<o, gen[o]>>}]
      /\ registrations' = registrations + 1
  BY <1>0 DEF RegisterObject
<1> HIDE DEF ref
<1>3. RegTypeOK'
  <2>1. <<o, gen[o]>> \in Life
    BY DEF RegIndInv, RegTypeOK, Life
  <2>2. ref \in 0 .. (RefModulus - 1)
    BY <1>1 DEF Ref
  <2>3. ref2ptr' \in [Ref -> Object \cup {Null}] /\ issued' \in [Ref -> SUBSET Life]
    BY <1>1, <1>2, <2>1 DEF RegIndInv, RegTypeOK
  <2>4. dbus_id' \in [Object -> 0 .. (RefModulus - 1)]
    BY <1>2, <2>2 DEF RegIndInv, RegTypeOK
  <2>5. QED
    BY <1>0, <1>2, <2>2, <2>3, <2>4 DEF RegIndInv, RegTypeOK
<1>4. Watched'
  BY <1>0, <1>2 DEF RegIndInv, RegTypeOK, Watched
<1>5. CASE Wrapped'
  BY <1>3, <1>4, <1>5 DEF RegIndInv, FreshAbove, OneReferencePerLife,
     EntriesAsIssued, TableAgreesWithData
<1>6. CASE ~Wrapped'
  <2>1. ~Wrapped /\ ref = reference_counter + 1 /\ ref2ptr[ref] = Null /\ issued[ref] = {}
    BY <1>0, <1>6, RegisterTakesFresh DEF ref
  <2>2. issued'[ref] = {<<o, gen[o]>>} /\ ref2ptr'[ref] = o
    BY <1>1, <1>2, <2>1 DEF RegIndInv, RegTypeOK
  <2>3. \A r \in Ref : r # ref => issued'[r] = issued[r] /\ ref2ptr'[r] = ref2ptr[r]
    BY <1>1, <1>2 DEF RegIndInv, RegTypeOK
  <2>4. \A p \in Object : p # o => dbus_id'[p] = dbus_id[p]
    BY <1>2 DEF RegIndInv, RegTypeOK
  <2>5. dbus_id'[o] = ref
    BY <1>2 DEF RegIndInv, RegTypeOK
  <2>6. FreshAbove'
    <3>1. reference_counter' = registrations'
      BY <1>2, <2>1 DEF RegIndInv, FreshAbove
    <3>2. ASSUME NEW r \in Ref, r > reference_counter'
          PROVE  ref2ptr'[r] = Null /\ issued'[r] = {}
      BY <1>2, <2>1, <2>3, <3>2 DEF RegIndInv, FreshAbove, RegTypeOK, Ref
    <3>3. QED
      BY <3>1, <3>2 DEF FreshAbove
  <2>7. OneReferencePerLife'
    <3> SUFFICES ASSUME NEW r \in Ref, NEW p \in Object, NEW g \in 0 .. MaxLives,
                        <<p, g>> \in issued'[r]
                 PROVE  /\ g <= gen[p]
                        /\ (p \in alive /\ g = gen[p]) => dbus_id'[p] = r
      BY <1>0 DEF OneReferencePerLife
    <3>1. CASE r = ref
      BY <2>2, <2>5, <3>1 DEF RegIndInv, RegTypeOK
    <3>2. CASE r # ref
      <4>1. g <= gen[p] /\ ((p \in alive /\ g = gen[p]) => dbus_id[p] = r)
        BY <2>1, <2>3, <3>2 DEF RegIndInv, OneReferencePerLife
      <4>2. r # 0
        BY DEF Ref
      <4>3. QED
        BY <2>4, <4>1, <4>2
    <3>3. QED
      BY <3>1, <3>2
  <2>8. EntriesAsIssued'
    <3> SUFFICES ASSUME NEW r \in Ref, ref2ptr'[r] # Null
                 PROVE  issued'[r] = {<<ref2ptr'[r], gen[ref2ptr'[r]]>>}
      BY <1>0 DEF EntriesAsIssued
    <3>1. CASE r = ref
      BY <2>2, <3>1
    <3>2. CASE r # ref
      BY <2>1, <2>3, <3>2 DEF RegIndInv, EntriesAsIssued
    <3>3. QED
      BY <3>1, <3>2
  <2>9. TableAgreesWithData'
    <3>1. ASSUME NEW r \in Ref, ref2ptr'[r] # Null
          PROVE  ref2ptr'[r] \in alive /\ dbus_id'[ref2ptr'[r]] = r
      <4>1. CASE r = ref
        BY <1>0, <2>2, <2>5, <4>1
      <4>2. CASE r # ref
        <5>1. ref2ptr[r] \in alive /\ dbus_id[ref2ptr[r]] = r /\ r # 0
          BY <2>1, <2>3, <3>1, <4>2 DEF RegIndInv, TableAgreesWithData, Ref
        <5>2. ref2ptr[r] # o /\ ref2ptr[r] \in Object
          BY <5>1 DEF RegIndInv, RegTypeOK
        <5>3. QED
          BY <2>3, <2>4, <4>2, <5>1, <5>2
      <4>3. QED
        BY <4>1, <4>2
    <3>2. ASSUME NEW p \in alive, dbus_id'[p] # 0
          PROVE  ref2ptr'[dbus_id'[p]] = p
      <4>1. CASE p = o
        BY <2>2, <2>5, <4>1
      <4>2. CASE p # o
        <5>1. p \in Object /\ dbus_id'[p] = dbus_id[p] /\ ref2ptr[dbus_id[p]] = p
          BY <2>1, <2>4, <3>2, <4>2 DEF RegIndInv, RegTypeOK, TableAgreesWithData
        <5>2. dbus_id[p] \in Ref /\ p # Null
          BY <3>2, <5>1 DEF RegIndInv, RegTypeOK, Ref
        <5>3. dbus_id[p] # ref
          BY <2>1, <5>1, <5>2
        <5>4. QED
          BY <2>3, <5>1, <5>2, <5>3
      <4>3. QED
        BY <4>1, <4>2
    <3>3. QED
      BY <1>0, <3>1, <3>2 DEF TableAgreesWithData
  <2>10. QED
    BY <1>3, <1>4, <2>6, <2>7, <2>8, <2>9 DEF RegIndInv
<1>7. QED
  BY <1>5, <1>6

LEMMA StutterIndInv ==
  ASSUME RegIndInv, UNCHANGED regVars
  PROVE  RegIndInv'
BY DEF RegIndInv, RegTypeOK, FreshAbove, Watched, OneReferencePerLife,
   EntriesAsIssued, TableAgreesWithData, Wrapped, regVars

LEMMA RegStepIndInv ==
  ASSUME RegIndInv, [RegNext]_regVars
  PROVE  RegIndInv'
<1>1. ASSUME NEW o \in Object, Create(o) PROVE RegIndInv'
  BY <1>1, CreateIndInv
<1>2. ASSUME NEW o \in Object, ObjectToPath(o) PROVE RegIndInv'
  <2>1. CASE o # Root /\ dbus_id[o] = 0
    BY <1>2, <2>1, RegisterIndInv
  <2>2. CASE ~(o # Root /\ dbus_id[o] = 0)
    BY <1>2, <2>2, StutterIndInv DEF ObjectToPath, regVars
  <2>3. QED
    BY <2>1, <2>2
<1>3. ASSUME NEW o \in Object, Destroy(o) PROVE RegIndInv'
  BY <1>3, DestroyIndInv
<1>4. CASE UNCHANGED regVars
  BY <1>4, StutterIndInv
<1>5. QED
  BY <1>1, <1>2, <1>3, <1>4 DEF RegNext

-----------------------------------------------------------------------------
\* The inductive invariant holds of every behaviour of the register.
THEOREM RegisterInvariant == RegSpec => []RegIndInv
<1>1. RegInit => RegIndInv
  BY RegInitIndInv
<1>2. RegIndInv /\ [RegNext]_regVars => RegIndInv'
  BY RegStepIndInv
<1>3. QED
  BY <1>1, <1>2, PTL DEF RegSpec

(* The variables keep their types; in particular the counter stays a guint *)
(* (accessible-register.c:151).                                            *)
THEOREM RegisterTypeCorrect == RegSpec => []RegTypeOK
<1>1. RegIndInv => RegTypeOK
  BY DEF RegIndInv
<1>2. QED
  BY <1>1, RegisterInvariant, PTL

(* Table and objects agree until the counter wraps: deregister_object      *)
(* (accessible-register.c:189) leaves no entry behind for a dead object.   *)
THEOREM RegisterTableAgrees == RegSpec => []TableAgreesWithData
<1>1. RegIndInv => TableAgreesWithData
  BY DEF RegIndInv
<1>2. QED
  BY <1>1, RegisterInvariant, PTL

(* A path resolves to the object it was issued for or to nothing           *)
(* (accessible-register.c:236), until the counter wraps.                   *)
THEOREM RegisterPathsStable == RegSpec => []PathsAreStable
<1>1. RegIndInv => PathsAreStable
  <2> SUFFICES ASSUME RegIndInv, ~Wrapped, NEW r \in Ref,
                      PathToObject(RefToPath(r)) # Null
               PROVE  issued[r] = {<<PathToObject(RefToPath(r)),
                                     gen[PathToObject(RefToPath(r))]>>}
    BY DEF PathsAreStable, ResolvesToWhatWasIssued
  <2>1. QED
    BY PathRoundTrip DEF RegIndInv, EntriesAsIssued
<1>2. QED
  BY <1>1, RegisterInvariant, PTL

-----------------------------------------------------------------------------
(* Refinement: until the counter wraps, every step of the register is a    *)
(* step of the object directory or leaves it unchanged.                    *)
LEMMA DirectoryInit == RegInit => Directory!DirInit
BY DEF RegInit, Directory!DirInit

LEMMA DirectoryStep ==
  ASSUME RegIndInv, RegIndInv', ~Wrapped', [RegNext]_regVars
  PROVE  [Directory!DirNext]_(Directory!dirVars)
<1> USE RegisterAssumption
<1> DEFINE Bound == [r \in Ref |-> IF ref2ptr[r] = Null THEN Null
                                   ELSE <<ref2ptr[r], gen[ref2ptr[r]]>>]
<1>0. ~Wrapped
  BY DEF RegNext, Create, ObjectToPath, RegisterObject, Destroy, regVars,
     Wrapped, RegIndInv, RegTypeOK
<1>1. ASSUME NEW o \in Object, Create(o)
      PROVE  UNCHANGED Directory!dirVars
  <2>1. \A r \in Ref : ref2ptr[r] # Null => gen'[ref2ptr[r]] = gen[ref2ptr[r]]
    BY <1>0, <1>1 DEF Create, RegIndInv, RegTypeOK, TableAgreesWithData
  <2>2. QED
    BY <1>1, <2>1 DEF Directory!dirVars, Create
<1>2. ASSUME NEW o \in Object, ObjectToPath(o), o # Root, dbus_id[o] = 0
      PROVE  Directory!DirNext
  <2> DEFINE ref  == NextReference(reference_counter)
             life == <<o, gen[o]>>
  <2>1. RegisterObject(o) /\ o \in alive /\ gen' = gen
    BY <1>2 DEF ObjectToPath
  <2>2. ref \in Ref /\ ref2ptr[ref] = Null /\ issued[ref] = {}
    BY <2>1, RegisterTakesFresh
  <2>3. /\ ref2ptr' = [ref2ptr EXCEPT ![ref] = o]
        /\ issued' = [issued EXCEPT ![ref] = @ \cup {life}]
    BY <2>1 DEF RegisterObject
  <2>4. life \in Life
    BY DEF RegIndInv, RegTypeOK, Life
  <2> HIDE DEF ref
  <2>5. issued' = [issued EXCEPT ![ref] = {life}]
    BY <2>2, <2>3 DEF RegIndInv, RegTypeOK
  <2>6. \A m \in Ref : life \notin issued[m]
    <3> SUFFICES ASSUME NEW m \in Ref, life \in issued[m] PROVE FALSE
      OBVIOUS
    <3>1. gen[o] \in 0 .. MaxLives
      BY DEF RegIndInv, RegTypeOK
    <3>2. dbus_id[o] = m
      BY <1>0, <2>1, <3>1 DEF RegIndInv, OneReferencePerLife
    <3>3. QED
      BY <1>2, <3>2 DEF Ref
  <2>7. Bound' = [Bound EXCEPT ![ref] = life]
    BY <1>2, <2>1, <2>2, <2>3 DEF RegIndInv, RegTypeOK
  <2>8. QED
    BY <2>2, <2>4, <2>5, <2>6, <2>7 DEF Directory!DirNext, Directory!Publish
<1>3. ASSUME NEW o \in Object, ObjectToPath(o), ~(o # Root /\ dbus_id[o] = 0)
      PROVE  UNCHANGED Directory!dirVars
  BY <1>3 DEF ObjectToPath, Directory!dirVars
<1>4. ASSUME NEW o \in Object, Destroy(o)
      PROVE  [Directory!DirNext]_(Directory!dirVars)
  <2> DEFINE ref == dbus_id[o]
  <2>1. gen' = gen /\ issued' = issued /\ ref2ptr' = Forgotten(o)
    BY <1>4 DEF Destroy
  <2>2. CASE o \in weak /\ ref # 0
    <3>1. ref \in Ref /\ ref2ptr[ref] = o /\ o # Null
      BY <1>0, <1>4, <2>2 DEF RegIndInv, RegTypeOK, Ref, TableAgreesWithData, Destroy
    <3>2. ref2ptr' = [ref2ptr EXCEPT ![ref] = Null]
      BY <2>1, <2>2 DEF Forgotten
    <3>3. Bound' = [Bound EXCEPT ![ref] = Null]
      BY <2>1, <3>1, <3>2 DEF RegIndInv, RegTypeOK
    <3>4. Bound[ref] # Null
      BY <3>1 DEF RegIndInv, RegTypeOK, Life
    <3>5. QED
      BY <2>1, <3>1, <3>3, <3>4 DEF Directory!DirNext, Directory!Retire
  <2>3. CASE ~(o \in weak /\ ref # 0)
    <3>1. ref2ptr' = ref2ptr
      BY <2>1, <2>3 DEF Forgotten
    <3>2. QED
      BY <2>1, <3>1 DEF Directory!dirVars
  <2>4. QED
    BY <2>2, <2>3
<1>5. CASE UNCHANGED regVars
  BY <1>5 DEF regVars, Directory!dirVars
<1>6. QED
  BY <1>1, <1>2, <1>3, <1>4, <1>5 DEF RegNext

(* A behaviour in which the counter never wraps implements the directory:  *)
(* every path is published once, for one life of one object.               *)
THEOREM RegisterImplementsDirectory ==
  RegSpec /\ []~Wrapped => ImplementsDirectory
<1>1. RegInit => Directory!DirInit
  BY DirectoryInit
<1>2. RegIndInv /\ RegIndInv' /\ ~Wrapped' /\ [RegNext]_regVars
        => [Directory!DirNext]_(Directory!dirVars)
  BY DirectoryStep
<1>3. QED
  BY <1>1, <1>2, RegisterInvariant, PTL
     DEF RegSpec, ImplementsDirectory, Directory!DirSpec
=============================================================================
