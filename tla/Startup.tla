------------------------------ MODULE Startup ------------------------------
(***************************************************************************)
(* Starting the service: the catalogue is assembled at import, the         *)
(* configuration is read, the file is opened, migrated, and the policy is  *)
(* applied, in this order; any of them may refuse the start.  Processes    *)
(* share the file, so a start may overlap with another, or with a process  *)
(* that still serves; each may die at any point.  Meanwhile the operator   *)
(* installs another build, environment or policy file.                     *)
(*                                                                         *)
(* Of the settings tables there is what migrations move: the choices of    *)
(* one account.  One action stands for every request that writes; who may  *)
(* write, and the history of the writes, are in SettingsService.           *)
(***************************************************************************)
EXTENDS Configuration, FiniteSetsExt

CONSTANTS
    Processes,
    Nobody,
    Profiles,
    ACCOUNT_PROFILE,   \* "*"
    NoColumn,          \* the profile of a row of the first layout, which has none
    Installations,     \* builds, environments and policy files the operator installs
    Disks,             \* the files a first start may find
    Candidates         \* the JSON values people and policies name

Versions == 1..2       \* discover(): the numbers of the shipped scripts

Keys == UNION {{Qualified(e) : e \in EveryEntry(i.build)} : i \in Installations}
Row == [profile : Profiles \cup {ACCOUNT_PROFILE, NoColumn}, key : Keys, value : Value]
Disk == [versioned : BOOLEAN, applied : SUBSET Versions, layout : 0..2, rows : SUBSET Row]

ASSUME StartupAssumption ==
    /\ Nobody \notin Processes
    /\ ACCOUNT_PROFILE \notin Profiles
    /\ NoColumn \notin Profiles \cup {ACCOUNT_PROFILE}
    /\ Candidates \subseteq Value
    /\ \A i \in Installations :
           /\ i.build \in Seq(Module)
           /\ \A q \in DOMAIN i.policy.clauses : ClausesAreJson(i.policy.clauses[q])

(* A file of this service: fresh, of the first release, or up to date.     *)
WellFormedDisk(d) ==
    /\ d \in Disk
    /\ d.applied = 1..d.layout
    /\ d.applied # {} => d.versioned
    /\ \A r \in d.rows : (r.profile = NoColumn) <=> d.layout = 1
    /\ d.layout = 0 => d.rows = {}
    /\ \A r, s \in d.rows : r.profile = s.profile /\ r.key = s.key => r = s

ASSUME DisksAssumption == \A d \in Disks : WellFormedDisk(d)

VARIABLES
    installed,   \* what the operator has in place
    disk,        \* the committed contents of the file
    process,     \* process -> where its start is and what it has loaded
    lock,        \* the process inside a BEGIN IMMEDIATE, or Nobody
    staged       \* the tables as that transaction has them

vars == <<installed, disk, process, lock, staged>>

Phases == {"down", "imported", "configured", "open", "versioned", "migrating",
           "recording", "unwinding", "serving"}

Down == [phase |-> "down", build |-> None, environment |-> None, policy |-> None, pending |-> {}]

Phase(p) == process[p].phase
Enter(p, phase) == process' = [process EXCEPT ![p].phase = phase]
Die(p) == process' = [process EXCEPT ![p] = Down]

NothingStaged == [layout |-> 0, rows |-> {}]
-----------------------------------------------------------------------------
Install(i) ==
    /\ installed # i
    /\ installed' = i
    /\ UNCHANGED <<disk, process, lock, staged>>

(* Importing the application assembles the catalogue of whatever is        *)
(* installed at that moment.                                               *)
Import(p) ==
    /\ Phase(p) = "down"
    /\ Assembles(installed.build)
    /\ process' = [process EXCEPT ![p].phase = "imported", ![p].build = installed.build]
    /\ UNCHANGED <<installed, disk, lock, staged>>

LoadSettings(p) ==
    /\ Phase(p) = "imported"
    /\ IF LoadsSettings(process[p].build, installed.environment)
       THEN process' = [process EXCEPT ![p].phase = "configured",
                                       ![p].environment = installed.environment]
       ELSE Die(p)
    /\ UNCHANGED <<installed, disk, lock, staged>>

(* Database.__init__: a connection that fails its own checks is closed and *)
(* its thread given back before the refusal is passed on.                  *)
Open(p) ==
    /\ Phase(p) = "configured"
    /\ Enter(p, "open") \/ Die(p)
    /\ UNCHANGED <<installed, disk, lock, staged>>
-----------------------------------------------------------------------------
(* migrate, one call of the worker thread at a time.                       *)

EnsureVersionTable(p) ==
    /\ Phase(p) = "open"
    /\ disk.versioned \/ lock = Nobody
    /\ disk' = [disk EXCEPT !.versioned = TRUE]
    /\ Enter(p, "versioned")
    /\ UNCHANGED <<installed, lock, staged>>

ReadApplied(p) ==
    /\ Phase(p) = "versioned"
    /\ process' = [process EXCEPT ![p].phase = "migrating",
                                  ![p].pending = Versions \ disk.applied]
    /\ UNCHANGED <<installed, disk, lock, staged>>

NextVersion(p) == Min(process[p].pending)

(* 0001 creates the tables; 0002 copies every row under "*" into a table   *)
(* with profiles, where two rows may not have one key, and takes its name. *)
ScriptRuns(version) ==
    IF version = 1 THEN disk.layout = 0
    ELSE disk.layout > 0 /\ \A r, s \in disk.rows : r.key = s.key => r = s

AfterScript(version) ==
    IF version = 1 THEN [layout |-> 1, rows |-> {}]
    ELSE [layout |-> 2, rows |-> {[r EXCEPT !.profile = ACCOUNT_PROFILE] : r \in disk.rows}]

(* Mutant of RunScript: executescript commits the script by itself.        *)
RunScript_Committed(p) ==
    /\ Phase(p) = "migrating" /\ process[p].pending # {}
    /\ lock = Nobody
    /\ IF ScriptRuns(NextVersion(p))
       THEN /\ lock' = p
            /\ staged' = AfterScript(NextVersion(p))
            /\ disk' = [disk EXCEPT !.layout = AfterScript(NextVersion(p)).layout,
                                    !.rows = AfterScript(NextVersion(p)).rows]
            /\ Enter(p, "recording")
       ELSE Enter(p, "unwinding") /\ UNCHANGED <<disk, lock, staged>>
    /\ UNCHANGED installed

(* _apply up to the script: the transaction is open and holds the lock, or *)
(* the script failed and was rolled back.                                  *)
RunScript(p) ==
    /\ Phase(p) = "migrating" /\ process[p].pending # {}
    /\ lock = Nobody
    /\ IF ScriptRuns(NextVersion(p))
       THEN /\ lock' = p
            /\ staged' = AfterScript(NextVersion(p))
            /\ Enter(p, "recording")
       ELSE Enter(p, "unwinding") /\ UNCHANGED <<lock, staged>>
    /\ UNCHANGED <<installed, disk>>

(* Mutant of RecordVersion: a version already recorded is recorded again.  *)
RecordVersion_Again(p) ==
    /\ Phase(p) = "recording"
    /\ disk' = [disk EXCEPT !.applied = @ \cup {NextVersion(p)},
                            !.layout = staged.layout, !.rows = staged.rows]
    /\ process' = [process EXCEPT ![p].phase = "migrating", ![p].pending = @ \ {NextVersion(p)}]
    /\ lock' = Nobody /\ staged' = NothingStaged
    /\ UNCHANGED installed

(* Mutant of RecordVersion: a refused version row is not rolled back.      *)
RecordVersion_Open(p) ==
    /\ Phase(p) = "recording"
    /\ IF NextVersion(p) \in disk.applied
       THEN Enter(p, "unwinding") /\ UNCHANGED <<disk, lock, staged>>
       ELSE /\ disk' = [disk EXCEPT !.applied = @ \cup {NextVersion(p)},
                                    !.layout = staged.layout, !.rows = staged.rows]
            /\ process' = [process EXCEPT ![p].phase = "migrating",
                                          ![p].pending = @ \ {NextVersion(p)}]
            /\ lock' = Nobody /\ staged' = NothingStaged
    /\ UNCHANGED installed

(* The version row is the transaction's last statement.  A version another *)
(* start recorded in the meantime takes the script back with it.           *)
RecordVersion(p) ==
    /\ Phase(p) = "recording"
    /\ IF NextVersion(p) \in disk.applied
       THEN Enter(p, "unwinding") /\ UNCHANGED disk
       ELSE /\ disk' = [disk EXCEPT !.applied = @ \cup {NextVersion(p)},
                                    !.layout = staged.layout, !.rows = staged.rows]
            /\ process' = [process EXCEPT ![p].phase = "migrating",
                                          ![p].pending = @ \ {NextVersion(p)}]
    /\ lock' = Nobody /\ staged' = NothingStaged
    /\ UNCHANGED installed

(* Mutant of GiveUpWaiting: only the first statement has a timeout.        *)
GiveUpWaiting_Patient(p) ==
    /\ lock \notin {p, Nobody}
    /\ Phase(p) = "open" /\ ~ disk.versioned
    /\ Enter(p, "unwinding")
    /\ UNCHANGED <<installed, disk, lock, staged>>

(* The busy timeout: five seconds of another's transaction.                *)
GiveUpWaiting(p) ==
    /\ lock \notin {p, Nobody}
    /\ \/ Phase(p) = "open" /\ ~ disk.versioned
       \/ Phase(p) = "migrating" /\ process[p].pending # {}
    /\ Enter(p, "unwinding")
    /\ UNCHANGED <<installed, disk, lock, staged>>
-----------------------------------------------------------------------------
(* Container.build after migrate, and what a refusal leaves behind.        *)

(* Mutant of LoadPolicy: the scripts that are pending are not waited for.  *)
LoadPolicy_Early(p) ==
    /\ Phase(p) = "migrating"
    /\ IF Loads(process[p].build, installed.policy)
       THEN process' = [process EXCEPT ![p].phase = "serving", ![p].policy = installed.policy]
       ELSE Enter(p, "unwinding")
    /\ UNCHANGED <<installed, disk, lock, staged>>

LoadPolicy(p) ==
    /\ Phase(p) = "migrating" /\ process[p].pending = {}
    /\ IF Loads(process[p].build, installed.policy)
       THEN process' = [process EXCEPT ![p].phase = "serving", ![p].policy = installed.policy]
       ELSE Enter(p, "unwinding")
    /\ UNCHANGED <<installed, disk, lock, staged>>

Unwind(p) ==
    /\ Phase(p) = "unwinding"
    /\ Die(p)
    /\ UNCHANGED <<installed, disk, lock, staged>>

Stop(p) ==
    /\ Phase(p) = "serving"
    /\ Die(p)
    /\ UNCHANGED <<installed, disk, lock, staged>>

(* At any point.  An open transaction dies with its process.               *)
Crash(p) ==
    /\ Phase(p) # "down"
    /\ Die(p)
    /\ IF lock = p THEN lock' = Nobody /\ staged' = NothingStaged
                   ELSE UNCHANGED <<lock, staged>>
    /\ UNCHANGED <<installed, disk>>

(* A request that stores a choice.                                         *)
Write(p, e, profile, value) ==
    LET loaded == process[p]
        row == [profile |-> profile, key |-> Qualified(e), value |-> value]
    IN  /\ IF e.scope = "account" THEN profile = ACCOUNT_PROFILE ELSE profile \in Profiles
        /\ ~ IsPinned(loaded.policy, e)
        /\ ValidateWrite(DefinitionOf(loaded.policy, e), value)
        /\ disk' = [disk EXCEPT !.rows =
               {r \in @ : <<r.profile, r.key>> # <<profile, row.key>>} \cup {row}]
        /\ UNCHANGED <<installed, process, lock, staged>>

(* A request that resets one, or the sweep of a retired one.               *)
Remove(p, row) ==
    /\ disk' = [disk EXCEPT !.rows = @ \ {row}]
    /\ UNCHANGED <<installed, process, lock, staged>>
-----------------------------------------------------------------------------
Init ==
    /\ installed \in Installations
    /\ disk \in Disks
    /\ process = [p \in Processes |-> Down]
    /\ lock = Nobody
    /\ staged = NothingStaged

StartStep(p) ==
    \/ LoadSettings(p)
    \/ Open(p)
    \/ EnsureVersionTable(p)
    \/ ReadApplied(p)
    \/ RunScript(p)
    \/ RecordVersion(p)
    \/ GiveUpWaiting(p)
    \/ LoadPolicy(p)
    \/ Unwind(p)

Request(p) ==
    /\ Phase(p) = "serving" /\ lock = Nobody
    /\ \/ \E e \in LiveEntries(process[p].build),
             profile \in Profiles \cup {ACCOUNT_PROFILE}, value \in Candidates :
              Write(p, e, profile, value)
       \/ \E row \in disk.rows : Remove(p, row)

Next ==
    \/ \E i \in Installations : Install(i)
    \/ \E p \in Processes : Import(p) \/ StartStep(p) \/ Request(p) \/ Stop(p) \/ Crash(p)

Spec == Init /\ [][Next]_vars

(* A start that is under way goes on; nobody has to begin one.             *)
FairSpec == Spec /\ \A p \in Processes : WF_vars(StartStep(p))
-----------------------------------------------------------------------------
(* What the file says of choices, whichever layout holds them.             *)
StoredChoices == {[r EXCEPT !.profile = IF @ = NoColumn THEN ACCOUNT_PROFILE ELSE @] : r \in disk.rows}

Process ==
    [phase : Phases, pending : SUBSET Versions,
     build : {None} \cup {i.build : i \in Installations},
     environment : {None} \cup {i.environment : i \in Installations},
     policy : {None} \cup {i.policy : i \in Installations}]

(* Every process is somewhere in its start, with what it has loaded by     *)
(* then, and the lock is held by the one that is recording a version.      *)
StartupTypeOK ==
    /\ installed \in Installations
    /\ disk \in Disk
    /\ process \in [Processes -> Process]
    /\ lock \in Processes \cup {Nobody}
    /\ staged \in [layout : 0..2, rows : SUBSET Row]
    /\ \A p \in Processes : lock = p <=> Phase(p) = "recording"

(* The recorded versions are those whose script the tables have been       *)
(* through, in order and once each, with no script half run, after any     *)
(* crash and whatever starts overlap (_apply's one transaction).           *)
TablesMatchVersions == WellFormedDisk(disk)

(* No start changes what anybody has chosen: only a request of a serving   *)
(* process does, although every start may run scripts that rebuild the     *)
(* settings table, even on rows written since it read the versions.        *)
StartingKeepsChoices == [][StoredChoices' = StoredChoices \/ \E p \in Processes : Request(p)]_vars

Choice == [profile : Profiles \cup {ACCOUNT_PROFILE}, key : Keys, value : Value]

Abstract == INSTANCE AtomicMigration
                WITH Latest <- 2, Choosable <- Choice,
                     layout <- disk.layout, recorded <- disk.applied, choices <- StoredChoices,
                     serving <- {p \in Processes : Phase(p) = "serving"}

(* However starts overlap, fail, wait for one another and are killed, a    *)
(* file is seen to move from version to version whole, with its choices,   *)
(* and to be written only by those who found the last version in place:    *)
(* what AtomicMigration says.                                              *)
MigrationsAreAtomic == Abstract!Spec

(* Whatever was installed in the middle of its start, a process serves a   *)
(* policy that its own build accepts: every entry admits no value that the *)
(* catalogue refuses, and what the policy sets or pins is admitted.        *)
ServesWithinTheCatalogue ==
    \A p \in Processes : Phase(p) = "serving" =>
        \A e \in LiveEntries(process[p].build) :
            LET file == process[p].policy
                served == DefinitionOf(file, e)
            IN  /\ \A v \in Candidates : Validate(served, v) => Validate(e, v)
                /\ IsPinned(file, e) => Validate(served, PinOn(file, e))
                /\ served.default # e.default => Validate(served, served.default)
                /\ e.namespace = COMMON => served.scope = "account"

(* A start that begins serves, is refused or is killed; it is never stuck  *)
(* behind another start's transaction or half unwound.                     *)
StartsEnd ==
    \A p \in Processes : Phase(p) # "down" ~> Phase(p) \in {"serving", "down"}
=============================================================================
