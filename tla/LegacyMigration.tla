---------------------------- MODULE LegacyMigration ----------------------------
(***************************************************************************)
(* `relay state migrate`: the import of the JSON state of an older Relay into *)
(* the ledger (importLegacyOnce of packages/storage-sqlite), behind a         *)
(* directory lock that names its owner.                                     *)
(*                                                                         *)
(* Several commands may run at once, whatever the command line found when it  *)
(* looked for a daemon and a lease; they die anywhere, and an old Relay may   *)
(* still be writing.  The state of all records is one version, the time of   *)
(* its last update.                                                         *)
(***************************************************************************)
EXTENDS Integers

CONSTANTS
  Terminal,      (* processes that run commands                             *)
  Nobody,        (* no owner                                               *)
  MaxWrites,     (* bound: writes of this Relay and the old one             *)
  MaxCrashes     (* bound: processes that die                               *)

ASSUME MigrationAssumption ==
  Nobody \notin Terminal /\ MaxWrites \in Nat /\ MaxCrashes \in Nat

VARIABLES
  legacy,     (* state.json                                                 *)
  ledger,     (* the ledger's copy, and whether this Relay has touched it   *)
  imported,   (* ledger_metadata: legacy-json-imported                      *)
  lock,       (* state.json.lock and the process its owner.json names       *)
  import,     (* terminal -> the step of the import, and the hash it read   *)
  clock, crashes  (* history                                              *)

migrationVars == <<legacy, ledger, imported, lock, import, clock, crashes>>

Unlocked == [held |-> FALSE, owner |-> Nobody]
Unmarked == [held |-> TRUE, owner |-> Nobody]
NoImport == [pc |-> "idle", hash |-> 0]

MigrationInit ==
  /\ legacy = 1 /\ ledger = [at |-> 0, ours |-> FALSE] /\ imported = FALSE
  /\ lock = Unlocked
  /\ import = [t \in Terminal |-> NoImport]
  /\ clock = 1 /\ crashes = 0

Importing(t, pc) == import[t].pc = pc
ImportGoto(t, pc) == import' = [import EXCEPT ![t].pc = pc]
ImportOver(t) == import' = [import EXCEPT ![t] = NoImport]

(* What this Relay writes; it refuses to open the ledger before the import.  *)
RelayWrites ==
  /\ imported /\ clock <= MaxWrites
  /\ clock' = clock + 1
  /\ ledger' = [at |-> clock', ours |-> TRUE]
  /\ UNCHANGED <<legacy, imported, lock, import, crashes>>

(* The older Relay, which nothing stops, before or after the import.          *)
OldRelayWrites ==
  /\ clock <= MaxWrites
  /\ clock' = clock + 1 /\ legacy' = clock'
  /\ UNCHANGED <<ledger, imported, lock, import, crashes>>
-----------------------------------------------------------------------------
OpenForImport(t) ==
  /\ Importing(t, "idle") /\ ~imported
  /\ ImportGoto(t, "lock")
  /\ UNCHANGED <<legacy, ledger, imported, lock, clock, crashes>>

(* acquireMigrationLock: mkdir, then owner.json.                            *)
MakeLock(t) ==
  /\ Importing(t, "lock")
  /\ IF lock.held THEN ImportGoto(t, "inspect") /\ UNCHANGED lock
     ELSE ImportGoto(t, "mark") /\ lock' = Unmarked
  /\ UNCHANGED <<legacy, ledger, imported, clock, crashes>>

(* Mutant: whoever finds the lock respects it.                              *)
NeverStale == FALSE

(* isStaleMigrationLock: its owner is known and dead.  One that cannot be     *)
(* attributed counts as live.                                               *)
StaleLock == lock.held /\ lock.owner # Nobody /\ import[lock.owner].pc \in {"idle", "dead"}

InspectLock(t) ==
  /\ Importing(t, "inspect")
  /\ IF StaleLock THEN ImportGoto(t, "clear") ELSE ImportOver(t)
  /\ UNCHANGED <<legacy, ledger, imported, lock, clock, crashes>>

ClearLock(t) ==
  /\ Importing(t, "clear")
  /\ lock' = Unlocked
  /\ ImportGoto(t, "relock")
  /\ UNCHANGED <<legacy, ledger, imported, clock, crashes>>

MakeLockAgain(t) ==
  /\ Importing(t, "relock")
  /\ IF lock.held THEN ImportOver(t) /\ UNCHANGED lock
     ELSE ImportGoto(t, "mark") /\ lock' = Unmarked
  /\ UNCHANGED <<legacy, ledger, imported, clock, crashes>>

(* Without the directory, which somebody else may have cleared, it throws.   *)
MarkLock(t) ==
  /\ Importing(t, "mark")
  /\ IF lock.held THEN ImportGoto(t, "read") /\ lock' = [lock EXCEPT !.owner = t]
     ELSE ImportOver(t) /\ UNCHANGED lock
  /\ UNCHANGED <<legacy, ledger, imported, clock, crashes>>

ReadLegacy(t) ==
  /\ Importing(t, "read")
  /\ import' = [import EXCEPT ![t] = [pc |-> "commit", hash |-> legacy]]
  /\ UNCHANGED <<legacy, ledger, imported, lock, clock, crashes>>

(* Mutant: what is in the ledger is replaced.                               *)
ImportReplaces(version) == [at |-> version, ours |-> FALSE]

(* saveRun, saveAction and saveWorkflow with `preserve`.                     *)
Preserved(version) == IF ledger.at >= version THEN ledger ELSE [at |-> version, ours |-> FALSE]

(* The transaction: it fails if state.json has changed since it was read.    *)
CommitImport(t) ==
  /\ Importing(t, "commit")
  /\ IF legacy = import[t].hash
     THEN ledger' = Preserved(import[t].hash) /\ imported' = TRUE
     ELSE UNCHANGED <<ledger, imported>>
  /\ ImportGoto(t, "unlock")
  /\ UNCHANGED <<legacy, lock, clock, crashes>>

Unlock(t) ==
  /\ Importing(t, "unlock")
  /\ lock' = Unlocked
  /\ ImportOver(t)
  /\ UNCHANGED <<legacy, ledger, imported, clock, crashes>>

(* Its pid is not seen again.                                               *)
ImportDies(t) ==
  /\ import[t].pc \notin {"idle", "dead"}
  /\ crashes < MaxCrashes /\ crashes' = crashes + 1
  /\ ImportGoto(t, "dead")
  /\ UNCHANGED <<legacy, ledger, imported, lock, clock>>

ImportStep(t) ==
  \/ MakeLock(t) \/ InspectLock(t) \/ ClearLock(t) \/ MakeLockAgain(t)
  \/ MarkLock(t) \/ ReadLegacy(t) \/ CommitImport(t) \/ Unlock(t)

MigrationNext ==
  \/ RelayWrites \/ OldRelayWrites
  \/ \E t \in Terminal : OpenForImport(t) \/ ImportStep(t) \/ ImportDies(t)

MigrationSpec == MigrationInit /\ [][MigrationNext]_migrationVars

(* The command is typed until it has imported, and runs until it dies.       *)
FairMigration ==
  /\ MigrationSpec
  /\ \A t \in Terminal : WF_migrationVars(OpenForImport(t)) /\ WF_migrationVars(ImportStep(t))
-----------------------------------------------------------------------------
(***************************************************************************)
(* PROPERTIES.                                                              *)
(***************************************************************************)
(* An import takes back what this Relay has written only if the old one wrote  *)
(* after it, and nothing newer still is in state.json: also when a second       *)
(* command got past the check of the metadata before the first was through, and  *)
(* read the state before this Relay's write.                                 *)
ImportKeepsOurs ==
  [][ledger.ours /\ ~ledger'.ours => legacy > ledger.at /\ ledger'.at = legacy]_migrationVars

(* A migration that died does not keep the next one from importing, unless it *)
(* died between making its lock and writing its name in.                     *)
ImportResumes == <>(imported \/ [](lock = Unmarked))
=============================================================================
