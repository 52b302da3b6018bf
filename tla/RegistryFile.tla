---------------------------- MODULE RegistryFile ----------------------------
(***************************************************************************)
(* The state file of lc-lib/registrar: Run saves the state after every     *)
(* spool of events, LoadPrevious reads it at start and saves it at once.   *)
(* The process may die between any two file operations of writeRegistry.   *)
(*                                                                         *)
(* The state is abstracted to its version: how many spools of the history  *)
(* it reflects.  Version 0 is the empty state.  A file operation that has  *)
(* returned is not undone by the death of the process.                     *)
(***************************************************************************)
EXTENDS Integers

CONSTANTS Platforms,   \* "other": registrar_other.go; "windows": registrar_windows.go
          MaxSpools,   \* bound: spools of registrar events
          MaxCrashes,  \* bound: crashes
          MaxErrors,   \* bound: failing create, remove and rename calls
          MaxTorn      \* bound: failing writes by the JSON encoder

ASSUME RegistryAssumption ==
    /\ Platforms \subseteq {"other", "windows"}
    /\ MaxSpools \in Nat /\ MaxCrashes \in Nat /\ MaxErrors \in Nat /\ MaxTorn \in Nat

VARIABLES
    platform,   \* which writeRegistry was built
    pc,         \* "load", "run", "exited", or the next call of writeRegistry
    loading,    \* writeRegistry was called by LoadPrevious
    state,      \* version of the state in memory
    file,       \* content of .log-courier
    newFile,    \* content of .log-courier.new
    saved,      \* last version that writeRegistry saved without an error
    crashes, errors, torn

vars == <<platform, pc, loading, state, file, newFile, saved, crashes, errors, torn>>

NoFile == -2
Torn   == -1    \* exists, and does not hold a complete JSON value
Contents == Nat \cup {NoFile, Torn}

TypeOK ==
    /\ platform \in Platforms
    /\ pc \in {"load", "run", "create", "encode", "remove", "rename", "exited"}
    /\ loading \in BOOLEAN
    /\ state \in Nat
    /\ file \in Contents /\ newFile \in Contents
    /\ saved \in Nat
    /\ crashes \in Nat /\ errors \in Nat /\ torn \in Nat

-----------------------------------------------------------------------------
\* Mutant of Source: does not look for the file that was about to be moved.
SourceOnly == file

\* The content LoadPrevious opens: .log-courier.new only without .log-courier.
Source == IF file # NoFile THEN file ELSE newFile

\* Errors of the decoder are ignored, and the state stays empty.
Decoded(content) == IF content = Torn THEN 0 ELSE content

\* LoadPrevious: without a file there is nothing to load; otherwise the state
\* is loaded, and saved to see that it can be.
LoadPrevious ==
    /\ pc = "load"
    /\ state' = IF Source = NoFile THEN 0 ELSE Decoded(Source)
    /\ pc' = IF Source = NoFile THEN "run" ELSE "create"
    /\ loading' = (Source # NoFile)
    /\ UNCHANGED <<platform, file, newFile, saved, crashes, errors, torn>>

\* Run: process one spool and save.
ProcessSpool ==
    /\ pc = "run"
    /\ state < MaxSpools
    /\ state' = state + 1
    /\ pc' = "create"
    /\ loading' = FALSE
    /\ UNCHANGED <<platform, file, newFile, saved, crashes, errors, torn>>

\* The channel is closed and empty.
Exit ==
    /\ pc = "run"
    /\ pc' = "exited"
    /\ UNCHANGED <<platform, loading, state, file, newFile, saved, crashes, errors, torn>>

\* writeRegistry returns an error: Run reports it and goes on, but a process
\* whose LoadPrevious fails ends, and starts again.
WriteFails ==
    /\ errors < MaxErrors
    /\ errors' = errors + 1
    /\ pc' = IF loading THEN "load" ELSE "run"

\* Mutant of Create: writes the state file in place.
CreateInPlace ==
    /\ pc = "create"
    /\ pc' = "encode" /\ file' = Torn /\ newFile' = Torn /\ UNCHANGED errors
    /\ UNCHANGED <<platform, loading, state, saved, crashes, torn>>

\* os.Create empties what a crash has left of .log-courier.new.
Create ==
    /\ pc = "create"
    /\ \/ pc' = "encode" /\ newFile' = Torn /\ UNCHANGED errors
       \/ WriteFails /\ UNCHANGED newFile
    /\ UNCHANGED <<platform, loading, state, file, saved, crashes, torn>>

\* The encoder's error is not looked at.
Encode ==
    /\ pc = "encode"
    /\ pc' = IF platform = "windows" THEN "remove" ELSE "rename"
    /\ \/ newFile' = state /\ UNCHANGED torn
       \/ torn < MaxTorn /\ torn' = torn + 1 /\ UNCHANGED newFile
    /\ UNCHANGED <<platform, loading, state, file, saved, crashes, errors>>

\* Windows only; an error is kept for the message, and Rename is tried.
Remove ==
    /\ pc = "remove"
    /\ pc' = "rename"
    /\ \/ file' = NoFile /\ UNCHANGED errors
       \/ errors < MaxErrors /\ errors' = errors + 1 /\ UNCHANGED file
    /\ UNCHANGED <<platform, loading, state, newFile, saved, crashes, torn>>

Rename ==
    /\ pc = "rename"
    /\ \/ pc' = "run" /\ file' = newFile /\ newFile' = NoFile /\ saved' = state /\ UNCHANGED errors
       \/ WriteFails /\ UNCHANGED <<file, newFile, saved>>
    /\ UNCHANGED <<platform, loading, state, crashes, torn>>

\* The process dies anywhere and is started again.
Crash ==
    /\ crashes < MaxCrashes
    /\ crashes' = crashes + 1
    /\ pc' = "load"
    /\ UNCHANGED <<platform, loading, state, file, newFile, saved, errors, torn>>

Init ==
    /\ platform \in Platforms
    /\ pc = "load" /\ loading = FALSE /\ state = 0
    /\ file = NoFile /\ newFile = NoFile /\ saved = 0
    /\ crashes = 0 /\ errors = 0 /\ torn = 0

Next ==
    \/ LoadPrevious
    \/ ProcessSpool
    \/ Exit
    \/ Create
    \/ Encode
    \/ Remove
    \/ Rename
    \/ Crash

Spec == Init /\ [][Next]_vars

-----------------------------------------------------------------------------
(* Properties. *)

\* What is in memory is at least what writeRegistry last saved without an error.
NeverForgets == pc # "load" => state >= saved

\* Where rename replaces the file (registrar_other.go), however often the process
\* dies, and wherever in writeRegistry or LoadPrevious, and whatever create and
\* rename calls fail, a state that was saved is loaded again, as long as the
\* encoder has not failed.
SurvivesCrashes == platform = "other" /\ torn = 0 => NeverForgets

\* On Windows the state file is removed before the new one takes its place: the
\* state survives the first crash or the first failing call.
SurvivesOneFault == torn = 0 /\ crashes + errors <= 1 => NeverForgets

\* What LoadPrevious promises with "Try the .new file - maybe we failed mid-move"
\* (registrar.go:78): a saved state is found again whenever no file operation
\* has failed.
CrashesForgetNothing == torn = 0 /\ errors = 0 => NeverForgets
=============================================================================
