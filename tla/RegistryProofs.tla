--------------------------- MODULE RegistryProofs ---------------------------
(***************************************************************************)
(* RegistryFile for any number of spools, crashes and errors: on platforms *)
(* where rename replaces the state file, nothing that was saved is lost.   *)
(***************************************************************************)
EXTENDS RegistryFile, TLAPS

\* The state file is the last saved state or a newer one, the rename that is
\* about to happen brings a complete state, and without a state file nothing
\* has been saved yet.
FileInv ==
  platform = "other" =>
    /\ pc # "remove"
    /\ torn = 0 =>
         /\ file # Torn
         /\ file = NoFile => saved = 0
         /\ file # NoFile => file >= saved
         /\ pc = "rename" => newFile = state
         /\ NeverForgets

IndInv == TypeOK /\ FileInv

LEMMA InitInd == Init => IndInv
  <1> SUFFICES ASSUME Init PROVE IndInv
    OBVIOUS
  <1>1. loading \in BOOLEAN
    BY Zenon DEF Init
  <1>2. TypeOK
    BY <1>1 DEF Init, TypeOK, Contents, NoFile, Torn
  <1>3. FileInv
    BY DEF Init, FileInv, NeverForgets, NoFile, Torn
  <1> QED  BY <1>2, <1>3 DEF IndInv

LEMMA TypeStep == TypeOK /\ [Next]_vars => TypeOK'
  <1> SUFFICES ASSUME TypeOK, [Next]_vars PROVE TypeOK'
    OBVIOUS
  <1> USE DEF TypeOK, Contents, NoFile, Torn
  <1>1. CASE LoadPrevious
    <2>1. Source \in Contents
      BY DEF Source
    <2>2. state' \in Nat
      BY <1>1, <2>1 DEF LoadPrevious, Decoded
    <2>3. pc' \in {"run", "create"}
      BY <1>1, Zenon DEF LoadPrevious
    <2>4. loading' \in BOOLEAN
      BY <1>1, Zenon DEF LoadPrevious
    <2>5. UNCHANGED <<platform, file, newFile, saved, crashes, errors, torn>>
      BY <1>1 DEF LoadPrevious
    <2> QED  BY <2>2, <2>3, <2>4, <2>5
  <1>2. CASE ProcessSpool
    <2>1. loading' \in BOOLEAN
      BY <1>2, Zenon DEF ProcessSpool
    <2> QED  BY <1>2, <2>1 DEF ProcessSpool
  <1>3. CASE Exit
    BY <1>3 DEF Exit
  <1>4. CASE Create
    BY <1>4 DEF Create, WriteFails
  <1>5. CASE Encode
    BY <1>5 DEF Encode
  <1>6. CASE Remove
    BY <1>6 DEF Remove
  <1>7. CASE Rename
    BY <1>7 DEF Rename, WriteFails
  <1>8. CASE Crash
    BY <1>8 DEF Crash
  <1>9. CASE UNCHANGED vars
    BY <1>9 DEF vars
  <1> QED  BY <1>1, <1>2, <1>3, <1>4, <1>5, <1>6, <1>7, <1>8, <1>9 DEF Next

LEMMA FileStep == IndInv /\ [Next]_vars => FileInv'
  <1> SUFFICES ASSUME IndInv, [Next]_vars PROVE FileInv'
    OBVIOUS
  <1> USE DEF IndInv, TypeOK, FileInv, NeverForgets, Contents, NoFile, Torn
  <1>1. CASE LoadPrevious
    <2>1. platform = "other" /\ torn = 0 => (IF Source = NoFile THEN 0 ELSE Decoded(Source)) >= saved
      BY DEF Source, Decoded
    <2> QED  BY <1>1, <2>1 DEF LoadPrevious
  <1>2. CASE ProcessSpool
    BY <1>2 DEF ProcessSpool
  <1>3. CASE Exit
    BY <1>3 DEF Exit
  <1>4. CASE Create
    BY <1>4 DEF Create, WriteFails
  <1>5. CASE Encode
    BY <1>5 DEF Encode
  <1>6. CASE Remove
    BY <1>6 DEF Remove
  <1>7. CASE Rename
    BY <1>7 DEF Rename, WriteFails
  <1>8. CASE Crash
    BY <1>8 DEF Crash
  <1>9. CASE UNCHANGED vars
    BY <1>9 DEF vars
  <1> QED  BY <1>1, <1>2, <1>3, <1>4, <1>5, <1>6, <1>7, <1>8, <1>9 DEF Next

\* registrar_other.go, writeRegistry, with registrar.go, LoadPrevious: any number
\* of crashes at any point, and of failing create and rename calls, never makes
\* the registrar resume behind a state that it had saved.
THEOREM SavedStateSurvives == Spec => []SurvivesCrashes
  <1>1. IndInv => SurvivesCrashes
    BY DEF IndInv, FileInv, SurvivesCrashes
  <1>2. IndInv /\ [Next]_vars => IndInv'
    BY TypeStep, FileStep DEF IndInv
  <1> QED  BY InitInd, <1>1, <1>2, PTL DEF Spec

-----------------------------------------------------------------------------
(* Both platforms, up to the first fault. *)

\* Until a second fault: the rename that is about to happen brings the complete
\* state; a state file that exists is no older than what was saved; and while it
\* is away, after Remove, the state is in the .new file, or still in memory with
\* the one fault used up.
FaultInv ==
  torn = 0 /\ crashes + errors <= 1 =>
    /\ file # Torn
    /\ file # NoFile => file >= saved
    /\ NeverForgets
    /\ pc \in {"remove", "rename"} => newFile = state
    /\ file = NoFile /\ saved # 0 =>
         /\ pc = "load" => newFile \in Nat /\ newFile >= saved
         /\ pc = "rename" \/ crashes + errors = 1

FaultIndInv == TypeOK /\ FaultInv

LEMMA FaultInit == Init => FaultIndInv
  <1> SUFFICES ASSUME Init PROVE FaultInv
    BY InitInd DEF IndInv, FaultIndInv
  <1> QED  BY DEF Init, FaultInv, NeverForgets, NoFile, Torn

LEMMA FaultStep == FaultIndInv /\ [Next]_vars => FaultInv'
  <1> SUFFICES ASSUME FaultIndInv, [Next]_vars PROVE FaultInv'
    OBVIOUS
  <1> USE DEF FaultIndInv, TypeOK, FaultInv, NeverForgets, Contents, NoFile, Torn
  <1>1. CASE LoadPrevious
    <2>1. torn = 0 /\ crashes + errors <= 1 =>
            (IF Source = NoFile THEN 0 ELSE Decoded(Source)) >= saved
      BY <1>1 DEF LoadPrevious, Source, Decoded
    <2> QED  BY <1>1, <2>1 DEF LoadPrevious
  <1>2. CASE ProcessSpool
    BY <1>2 DEF ProcessSpool
  <1>3. CASE Exit
    BY <1>3 DEF Exit
  <1>4. CASE Create
    BY <1>4 DEF Create, WriteFails
  <1>5. CASE Encode
    BY <1>5 DEF Encode
  <1>6. CASE Remove
    BY <1>6 DEF Remove
  <1>7. CASE Rename
    BY <1>7 DEF Rename, WriteFails
  <1>8. CASE Crash
    BY <1>8 DEF Crash
  <1>9. CASE UNCHANGED vars
    BY <1>9 DEF vars
  <1> QED  BY <1>1, <1>2, <1>3, <1>4, <1>5, <1>6, <1>7, <1>8, <1>9 DEF Next

\* registrar_windows.go, writeRegistry, with LoadPrevious: although the state file
\* is removed before the new one is moved, the first crash or the first failing
\* call, wherever it comes, loses nothing that was saved.
THEOREM OneFaultSurvived == Spec => []SurvivesOneFault
  <1>1. FaultIndInv => SurvivesOneFault
    BY DEF FaultIndInv, FaultInv, SurvivesOneFault
  <1>2. FaultIndInv /\ [Next]_vars => FaultIndInv'
    BY TypeStep, FaultStep DEF FaultIndInv
  <1> QED  BY FaultInit, <1>1, <1>2, PTL DEF Spec
=============================================================================
