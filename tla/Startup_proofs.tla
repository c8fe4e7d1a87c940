--------------------------- MODULE Startup_proofs ---------------------------
(***************************************************************************)
(* Starting is safe for any number of processes over one file, any         *)
(* installations and any policies: the tables are what the recorded        *)
(* versions say, no start changes a choice, and a process serves only what *)
(* its own build accepts.                                                  *)
(*                                                                         *)
(* The invariant says what a process may rely on at each phase.  Versions  *)
(* it does not have pending are recorded, which stays true since versions  *)
(* are only added; while it records, the script of its next version fitted *)
(* the tables as they are, because nobody else commits meanwhile; and when *)
(* it serves, every version is recorded, so that nothing is left for       *)
(* another start to do to the tables it writes to.                         *)
(***************************************************************************)
EXTENDS Startup, Policy_proofs, TLAPS

Builds == {i.build : i \in Installations}
Policies == {i.policy : i \in Installations}

ReliesOn(w) ==
    /\ w.phase # "down" => w.build \in Builds /\ Assembles(w.build)
    /\ w.phase \in {"versioned", "migrating", "recording"} => disk.versioned
    /\ w.phase \in {"migrating", "recording"} => Versions \ w.pending \subseteq disk.applied
    /\ w.phase = "recording" =>
           /\ w.pending # {}
           /\ ScriptRuns(Min(w.pending))
           /\ staged = AfterScript(Min(w.pending))
    /\ w.phase = "serving" =>
           /\ Versions \subseteq disk.applied
           /\ w.policy \in Policies
           /\ Loads(w.build, w.policy)

StartInv ==
    /\ StartupTypeOK
    /\ TablesMatchVersions
    /\ \A p \in Processes : ReliesOn(process[p])

LEMMA FirstPending ==
    ASSUME NEW S \in SUBSET Versions, S # {}
    PROVE  Min(S) \in S /\ Min(S) \in Versions /\ \A v \in S : Min(S) <= v
<1>1. \E x \in S : \A y \in S : x <= y
  <2>1. CASE 1 \in S
    BY <2>1 DEF Versions
  <2>2. CASE 1 \notin S
    <3>1. \A y \in S : y = 2
      BY <2>2 DEF Versions
    <3> QED
      BY <3>1
  <2> QED
    BY <2>1, <2>2
<1>2. Min(S) \in S /\ \A v \in S : Min(S) <= v
  BY <1>1 DEF Min
<1> QED
  BY <1>2

LEMMA DownIsProcess == Down \in Process /\ Down.phase = "down"
BY DEF Down, Process, Phases, Versions

LEMMA InitStarts == Init => StartInv
<1> SUFFICES ASSUME Init
             PROVE  StartInv
  OBVIOUS
<1>1. WellFormedDisk(disk)
  BY DisksAssumption DEF Init
<1>2. process \in [Processes -> Process] /\ \A p \in Processes : process[p] = Down
  BY DownIsProcess DEF Init
<1>3. staged \in [layout : 0..2, rows : SUBSET Row]
  BY DEF Init, NothingStaged
<1>4. StartupTypeOK
  BY <1>1, <1>2, <1>3, DownIsProcess, StartupAssumption
  DEF Init, StartupTypeOK, WellFormedDisk, Phase
<1>5. \A p \in Processes : ReliesOn(process[p])
  BY <1>2, DownIsProcess DEF ReliesOn
<1> QED
  BY <1>1, <1>4, <1>5 DEF StartInv, TablesMatchVersions
-----------------------------------------------------------------------------
(* A process that moves on without touching file or lock.                  *)
LEMMA OneMoves ==
    ASSUME StartInv, NEW p \in Processes, NEW w \in Process,
           process' = [process EXCEPT ![p] = w],
           installed' = installed, disk' = disk, lock' = lock, staged' = staged,
           Phase(p) # "recording", w.phase # "recording", ReliesOn(w)
    PROVE  StartInv'
<1>1. process' \in [Processes -> Process]
  BY DEF StartInv, StartupTypeOK
<1>2. process'[p] = w /\ \A q \in Processes : q # p => process'[q] = process[q]
  BY DEF StartInv, StartupTypeOK
<1>3. StartupTypeOK'
  <2>1. \A q \in Processes : lock' = q <=> process'[q].phase = "recording"
    BY <1>2 DEF StartInv, StartupTypeOK, Phase
  <2> QED
    BY <1>1, <2>1 DEF StartInv, StartupTypeOK, Phase
<1>4. TablesMatchVersions'
  BY DEF StartInv, TablesMatchVersions
<1>5. \A q \in Processes : ReliesOn(process[q])'
  BY <1>2 DEF StartInv, ReliesOn, ScriptRuns, AfterScript
<1> QED
  BY <1>3, <1>4, <1>5 DEF StartInv

LEMMA MovesToPhase ==
    ASSUME StartInv, NEW p \in Processes, NEW phase \in Phases, Enter(p, phase)
    PROVE  LET w == [process[p] EXCEPT !.phase = phase]
           IN  /\ w \in Process
               /\ process' = [process EXCEPT ![p] = w]
               /\ w.phase = phase /\ w.build = process[p].build /\ w.policy = process[p].policy
               /\ w.pending = process[p].pending
BY DEF StartInv, StartupTypeOK, Process, Enter

LEMMA DyingIsSafe ==
    ASSUME StartInv, NEW p \in Processes, Die(p), Phase(p) # "recording",
           UNCHANGED <<installed, disk, lock, staged>>
    PROVE  StartInv'
BY OneMoves, DownIsProcess DEF Die, ReliesOn

LEMMA ImportStep ==
    ASSUME StartInv, NEW p \in Processes, Import(p)
    PROVE  StartInv'
<1> DEFINE w == [process[p] EXCEPT !.phase = "imported", !.build = installed.build]
<1>1. process[p] \in Process /\ installed \in Installations
  BY DEF StartInv, StartupTypeOK
<1>2. w \in Process /\ w.phase = "imported" /\ w.build = installed.build
  BY <1>1 DEF Process, Phases
<1>3. process' = [process EXCEPT ![p] = w]
  BY DEF Import, StartInv, StartupTypeOK
<1>4. ReliesOn(w)
  BY <1>1, <1>2 DEF ReliesOn, Import, Builds
<1>5. Phase(p) # "recording"
  BY DEF Import
<1> HIDE DEF w
<1> QED
  BY <1>2, <1>3, <1>4, <1>5, OneMoves DEF Import

LEMMA LoadSettingsStep ==
    ASSUME StartInv, NEW p \in Processes, LoadSettings(p)
    PROVE  StartInv'
<1> DEFINE w == [process[p] EXCEPT !.phase = "configured", !.environment = installed.environment]
<1>1. process[p] \in Process /\ installed \in Installations /\ ReliesOn(process[p])
  BY DEF StartInv, StartupTypeOK
<1>2. w \in Process /\ w.phase = "configured" /\ w.build = process[p].build
  BY <1>1 DEF Process, Phases
<1>3. ReliesOn(w)
  BY <1>1, <1>2 DEF ReliesOn, LoadSettings, Phase
<1>4. Phase(p) # "recording"
  BY DEF LoadSettings
<1>5. CASE Die(p)
  BY <1>4, <1>5, DyingIsSafe DEF LoadSettings
<1>6. CASE process' = [process EXCEPT ![p].phase = "configured",
                                      ![p].environment = installed.environment]
  <2>1. process' = [process EXCEPT ![p] = w]
    BY <1>6 DEF StartInv, StartupTypeOK
  <2> HIDE DEF w
  <2> QED
    BY <1>2, <1>3, <1>4, <2>1, OneMoves DEF LoadSettings
<1> QED
  BY <1>5, <1>6 DEF LoadSettings

LEMMA OpenStep ==
    ASSUME StartInv, NEW p \in Processes, Open(p)
    PROVE  StartInv'
<1> DEFINE w == [process[p] EXCEPT !.phase = "open"]
<1>1. Phase(p) # "recording" /\ ReliesOn(process[p])
  BY DEF Open, StartInv
<1>2. CASE Die(p)
  BY <1>1, <1>2, DyingIsSafe DEF Open
<1>3. CASE Enter(p, "open")
  <2>1. /\ w \in Process /\ process' = [process EXCEPT ![p] = w]
        /\ w.phase = "open" /\ w.build = process[p].build
    BY <1>3, MovesToPhase DEF Phases
  <2>2. ReliesOn(w)
    BY <1>1, <2>1 DEF ReliesOn, Open, Phase
  <2> HIDE DEF w
  <2> QED
    BY <1>1, <2>1, <2>2, OneMoves DEF Open
<1> QED
  BY <1>2, <1>3 DEF Open

LEMMA ToUnwinding ==
    ASSUME StartInv, NEW p \in Processes, Enter(p, "unwinding"),
           Phase(p) \notin {"recording", "down"}, UNCHANGED <<installed, disk, lock, staged>>
    PROVE  StartInv'
<1> DEFINE w == [process[p] EXCEPT !.phase = "unwinding"]
<1>1. /\ w \in Process /\ process' = [process EXCEPT ![p] = w]
      /\ w.phase = "unwinding" /\ w.build = process[p].build
  BY MovesToPhase DEF Phases
<1>2. ReliesOn(w)
  BY <1>1 DEF StartInv, ReliesOn, Phase
<1> HIDE DEF w
<1> QED
  BY <1>1, <1>2, OneMoves

LEMMA ReadAppliedStep ==
    ASSUME StartInv, NEW p \in Processes, ReadApplied(p)
    PROVE  StartInv'
<1> DEFINE w == [process[p] EXCEPT !.phase = "migrating", !.pending = Versions \ disk.applied]
<1>1. process[p] \in Process /\ ReliesOn(process[p])
  BY DEF StartInv, StartupTypeOK
<1>2. w \in Process /\ w.phase = "migrating" /\ w.build = process[p].build
      /\ w.pending = Versions \ disk.applied
  BY <1>1 DEF Process, Phases
<1>3. process' = [process EXCEPT ![p] = w]
  BY DEF ReadApplied, StartInv, StartupTypeOK
<1>4. ReliesOn(w)
  BY <1>1, <1>2 DEF ReliesOn, ReadApplied, Phase
<1>5. Phase(p) # "recording"
  BY DEF ReadApplied
<1> HIDE DEF w
<1> QED
  BY <1>2, <1>3, <1>4, <1>5, OneMoves DEF ReadApplied

LEMMA LoadPolicyStep ==
    ASSUME StartInv, NEW p \in Processes, LoadPolicy(p)
    PROVE  StartInv'
<1> DEFINE w == [process[p] EXCEPT !.phase = "serving", !.policy = installed.policy]
<1>1. process[p] \in Process /\ ReliesOn(process[p]) /\ installed \in Installations
  BY DEF StartInv, StartupTypeOK
<1>2. Phase(p) = "migrating"
  BY DEF LoadPolicy
<1>3. CASE Loads(process[p].build, installed.policy)
  <2>1. w \in Process /\ w.phase = "serving" /\ w.build = process[p].build
        /\ w.policy = installed.policy
    BY <1>1 DEF Process, Phases
  <2>2. process' = [process EXCEPT ![p] = w]
    BY <1>3 DEF LoadPolicy, StartInv, StartupTypeOK
  <2>3. ReliesOn(w)
    BY <1>1, <1>3, <2>1 DEF ReliesOn, LoadPolicy, Phase, Policies
  <2> HIDE DEF w
  <2> QED
    BY <1>2, <2>1, <2>2, <2>3, OneMoves DEF LoadPolicy
<1>4. CASE ~ Loads(process[p].build, installed.policy)
  BY <1>2, <1>4, ToUnwinding DEF LoadPolicy
<1> QED
  BY <1>3, <1>4
-----------------------------------------------------------------------------
(* Version table and version rows.                                         *)

LEMMA EnsureVersionTableStep ==
    ASSUME StartInv, NEW p \in Processes, EnsureVersionTable(p)
    PROVE  StartInv'
<1> DEFINE w == [process[p] EXCEPT !.phase = "versioned"]
<1>1. /\ w \in Process /\ process' = [process EXCEPT ![p] = w]
      /\ w.phase = "versioned" /\ w.build = process[p].build
  BY MovesToPhase DEF EnsureVersionTable, Phases
<1>2. Phase(p) = "open" /\ ReliesOn(process[p])
  BY DEF EnsureVersionTable, StartInv
<1>3. disk' \in Disk /\ disk'.versioned /\ disk'.applied = disk.applied
      /\ disk'.layout = disk.layout /\ disk'.rows = disk.rows
  BY DEF EnsureVersionTable, StartInv, StartupTypeOK, Disk
<1>4. process' \in [Processes -> Process] /\ process'[p] = w
      /\ \A q \in Processes : q # p => process'[q] = process[q]
  <2> HIDE DEF w
  <2> QED
    BY <1>1 DEF StartInv, StartupTypeOK
<1>5. StartupTypeOK'
  <2>1. \A q \in Processes : lock' = q <=> process'[q].phase = "recording"
    BY <1>1, <1>2, <1>4 DEF StartInv, StartupTypeOK, Phase, EnsureVersionTable
  <2> QED
    BY <1>3, <1>4, <2>1 DEF StartInv, StartupTypeOK, Phase, EnsureVersionTable
<1>6. TablesMatchVersions'
  BY <1>3 DEF StartInv, TablesMatchVersions, WellFormedDisk
<1>7. ReliesOn(process[p])'
  BY <1>1, <1>2, <1>3, <1>4 DEF ReliesOn, Phase
<1>8. ASSUME NEW q \in Processes, q # p
      PROVE  ReliesOn(process[q])'
  BY <1>3, <1>4, <1>8 DEF StartInv, ReliesOn, ScriptRuns, AfterScript, EnsureVersionTable
<1> QED
  BY <1>5, <1>6, <1>7, <1>8 DEF StartInv

(* What a script makes of the tables it fits, when it is the next one.     *)
LEMMA ScriptResult ==
    ASSUME StartInv, NEW version \in Versions, ScriptRuns(version)
    PROVE  /\ AfterScript(version) \in [layout : 0..2, rows : SUBSET Row]
           /\ AfterScript(version).layout = version
           /\ AfterScript(version).rows =
                  IF version = 1 THEN {}
                  ELSE {[r EXCEPT !.profile = ACCOUNT_PROFILE] : r \in disk.rows}
<1>1. disk.rows \subseteq Row
  BY DEF StartInv, StartupTypeOK, Disk
<1>2. \A r \in disk.rows : [r EXCEPT !.profile = ACCOUNT_PROFILE] \in Row
  BY <1>1 DEF Row
<1>3. version \in {1, 2}
  BY DEF Versions
<1>4. CASE version = 1
  BY <1>4 DEF AfterScript
<1>5. CASE version = 2
  BY <1>2, <1>5 DEF AfterScript
<1> QED
  BY <1>3, <1>4, <1>5

LEMMA RunScriptStep ==
    ASSUME StartInv, NEW p \in Processes, RunScript(p)
    PROVE  StartInv'
<1> DEFINE w == [process[p] EXCEPT !.phase = "recording"]
           version == NextVersion(p)
<1>1. process[p] \in Process /\ ReliesOn(process[p]) /\ Phase(p) = "migrating"
  BY DEF StartInv, StartupTypeOK, RunScript
<1>2. process[p].pending \in SUBSET Versions /\ process[p].pending # {}
  BY <1>1 DEF Process, RunScript
<1>3. version \in Versions
  BY <1>2, FirstPending DEF NextVersion
<1>4. CASE ScriptRuns(version)
  <2>1. lock = Nobody /\ lock' = p /\ staged' = AfterScript(version) /\ Enter(p, "recording")
        /\ UNCHANGED <<installed, disk>>
    BY <1>4 DEF RunScript
  <2>2. /\ w \in Process /\ process' = [process EXCEPT ![p] = w]
        /\ w.phase = "recording" /\ w.build = process[p].build
        /\ w.pending = process[p].pending
    BY <2>1, MovesToPhase DEF Phases
  <2>3. process' \in [Processes -> Process] /\ process'[p] = w
        /\ \A q \in Processes : q # p => process'[q] = process[q]
    <3> HIDE DEF w
    <3> QED
      BY <2>2 DEF StartInv, StartupTypeOK
  <2>4. \A q \in Processes : Phase(q) # "recording"
    BY <2>1, StartupAssumption DEF StartInv, StartupTypeOK
  <2>5. StartupTypeOK'
    <3>1. staged' \in [layout : 0..2, rows : SUBSET Row]
      BY <1>3, <1>4, <2>1, ScriptResult
    <3>2. \A q \in Processes : lock' = q <=> process'[q].phase = "recording"
      BY <2>1, <2>2, <2>3, <2>4 DEF Phase
    <3> QED
      BY <2>1, <2>3, <3>1, <3>2 DEF StartInv, StartupTypeOK, Phase
  <2>6. TablesMatchVersions'
    BY <2>1 DEF StartInv, TablesMatchVersions
  <2>7. ReliesOn(process[p])'
    <3>1. ScriptRuns(Min(process[p].pending))' /\ (staged' = AfterScript(Min(process[p].pending))')
      BY <1>4, <2>1, <2>2, <2>3 DEF ScriptRuns, AfterScript, NextVersion
    <3> HIDE DEF w
    <3> QED
      BY <1>1, <1>2, <2>1, <2>2, <2>3, <3>1 DEF ReliesOn, Phase
  <2>8. ASSUME NEW q \in Processes, q # p
        PROVE  ReliesOn(process[q])'
    BY <2>1, <2>3, <2>4, <2>8 DEF StartInv, ReliesOn, Phase
  <2> QED
    BY <2>5, <2>6, <2>7, <2>8 DEF StartInv
<1>5. CASE ~ ScriptRuns(version)
  BY <1>1, <1>5, ToUnwinding DEF RunScript
<1> QED
  BY <1>4, <1>5

(* The version that is recorded is the one after the last: what was not    *)
(* pending is recorded already, and nothing later is.                      *)
LEMMA NextInOrder ==
    ASSUME StartInv, NEW p \in Processes, Phase(p) = "recording",
           NextVersion(p) \notin disk.applied
    PROVE  /\ NextVersion(p) \in Versions
           /\ NextVersion(p) = disk.layout + 1
           /\ disk.applied = 1..disk.layout
<1> DEFINE v == NextVersion(p)
<1>1. process[p].pending \in SUBSET Versions /\ process[p].pending # {}
      /\ Versions \ process[p].pending \subseteq disk.applied
  BY DEF StartInv, StartupTypeOK, Process, ReliesOn, Phase
<1>2. v \in Versions /\ \A n \in process[p].pending : v <= n
  BY <1>1, FirstPending DEF NextVersion
<1>3. disk.applied = 1..disk.layout /\ disk.layout \in 0..2
  BY DEF StartInv, TablesMatchVersions, WellFormedDisk, StartupTypeOK, Disk
<1>4. v \in 1..2 /\ disk.layout < v
  BY <1>2, <1>3 DEF Versions
<1>5. v = 2 => 1 \in disk.applied
  BY <1>1, <1>2 DEF Versions
<1>6. v = disk.layout + 1
  BY <1>3, <1>4, <1>5
<1> HIDE DEF v
<1> QED
  BY <1>2, <1>3, <1>6 DEF v

LEMMA RecordVersionStep ==
    ASSUME StartInv, NEW p \in Processes, RecordVersion(p)
    PROVE  StartInv' /\ StoredChoices' = StoredChoices
<1> DEFINE v == NextVersion(p)
<1>1. process[p] \in Process /\ ReliesOn(process[p]) /\ Phase(p) = "recording" /\ lock = p
  BY DEF StartInv, StartupTypeOK, RecordVersion
<1>2. \A q \in Processes : q # p => Phase(q) # "recording"
  BY <1>1 DEF StartInv, StartupTypeOK
<1>3. lock' = Nobody /\ staged' = NothingStaged /\ installed' = installed
      /\ staged' \in [layout : 0..2, rows : SUBSET Row]
  BY DEF RecordVersion, NothingStaged
<1>4. CASE v \in disk.applied
  <2> DEFINE w == [process[p] EXCEPT !.phase = "unwinding"]
  <2>1. /\ w \in Process /\ process' = [process EXCEPT ![p] = w] /\ disk' = disk
        /\ w.phase = "unwinding" /\ w.build = process[p].build
    BY <1>4, MovesToPhase DEF Phases, RecordVersion
  <2> HIDE DEF w
  <2>2. process' \in [Processes -> Process] /\ process'[p] = w
        /\ \A q \in Processes : q # p => process'[q] = process[q]
    BY <2>1 DEF StartInv, StartupTypeOK
  <2>3. \A q \in Processes : process'[q].phase # "recording"
    BY <1>2, <2>1, <2>2 DEF Phase
  <2>4. StartupTypeOK'
    BY <1>3, <2>1, <2>2, <2>3, StartupAssumption DEF StartInv, StartupTypeOK, Phase
  <2>5. TablesMatchVersions'
    BY <2>1 DEF StartInv, TablesMatchVersions
  <2>6. \A q \in Processes : ReliesOn(process[q])'
    BY <1>1, <2>1, <2>2, <2>3 DEF StartInv, ReliesOn, Phase
  <2> QED
    BY <2>1, <2>4, <2>5, <2>6 DEF StartInv, StoredChoices
<1>5. CASE v \notin disk.applied
  <2> DEFINE w == [process[p] EXCEPT !.phase = "migrating", !.pending = @ \ {v}]
  <2>1. v \in Versions /\ v = disk.layout + 1 /\ disk.applied = 1..disk.layout
    BY <1>1, <1>5, NextInOrder
  <2>2. ScriptRuns(v) /\ staged = AfterScript(v) /\ disk.versioned
        /\ Versions \ process[p].pending \subseteq disk.applied
    BY <1>1 DEF ReliesOn, NextVersion, Phase
  <2>3. /\ staged.layout = v
        /\ staged.rows = IF v = 1 THEN {} ELSE {[r EXCEPT !.profile = ACCOUNT_PROFILE] : r \in disk.rows}
        /\ staged \in [layout : 0..2, rows : SUBSET Row]
    BY <2>1, <2>2, ScriptResult
  <2>4. disk' = [disk EXCEPT !.applied = @ \cup {v}, !.layout = staged.layout, !.rows = staged.rows]
    BY <1>5 DEF RecordVersion
  <2>5. /\ disk' \in Disk /\ disk'.versioned /\ disk'.applied = disk.applied \cup {v}
        /\ disk'.layout = v /\ disk'.rows = staged.rows
    BY <2>1, <2>2, <2>3, <2>4 DEF StartInv, StartupTypeOK, Disk
  <2>6. w \in Process /\ w.phase = "migrating" /\ w.build = process[p].build
        /\ w.pending = process[p].pending \ {v}
    BY <1>1 DEF Process, Phases
  <2>7. process' = [process EXCEPT ![p] = w]
    BY <1>5 DEF RecordVersion, StartInv, StartupTypeOK
  <2> HIDE DEF w, v
  <2>8. process' \in [Processes -> Process] /\ process'[p] = w
        /\ \A q \in Processes : q # p => process'[q] = process[q]
    BY <2>6, <2>7 DEF StartInv, StartupTypeOK
  <2>9. \A q \in Processes : process'[q].phase # "recording"
    BY <1>2, <2>6, <2>8 DEF Phase
  <2>10. StartupTypeOK'
    BY <1>3, <2>5, <2>8, <2>9, StartupAssumption DEF StartInv, StartupTypeOK, Phase
  <2>11. /\ disk.layout = 0 => disk.rows = {}
         /\ \A r \in disk.rows : r \in Row /\ ((r.profile = NoColumn) <=> disk.layout = 1)
    BY DEF StartInv, TablesMatchVersions, WellFormedDisk, StartupTypeOK, Disk
  <2>12. TablesMatchVersions' /\ StoredChoices' = StoredChoices
    <3>1. CASE v = 1
      <4>1. disk.layout \in 0..2 /\ disk.layout + 1 = 1
        BY <2>1, <3>1 DEF StartInv, StartupTypeOK, Disk
      <4>2. disk.layout = 0
        BY <4>1
      <4>3. disk.rows = {} /\ disk'.rows = {} /\ disk'.layout = 1
        BY <2>3, <2>5, <2>11, <3>1, <4>2
      <4>4. disk'.applied = (1..0) \cup {1}
        BY <2>1, <2>5, <3>1, <4>2
      <4>5. disk'.applied = 1..1
        BY <4>4
      <4> QED
        BY <2>5, <4>3, <4>5 DEF TablesMatchVersions, WellFormedDisk, StoredChoices
    <3>2. CASE v = 2
      <4>1. disk.layout = 1 /\ disk'.applied = 1..2 /\ disk'.layout = 2
        <5>1. disk.layout \in 0..2 /\ disk.layout + 1 = 2
          BY <2>1, <3>2 DEF StartInv, StartupTypeOK, Disk
        <5>2. disk.layout = 1
          BY <5>1
        <5>3. disk'.applied = (1..1) \cup {2}
          BY <2>1, <2>5, <3>2, <5>2
        <5>4. disk'.applied = 1..2
          BY <5>3
        <5> QED
          BY <2>5, <3>2, <5>2, <5>4
      <4>2. disk'.rows = {[r EXCEPT !.profile = ACCOUNT_PROFILE] : r \in disk.rows}
        BY <2>3, <2>5, <3>2
      <4>3. \A r, s \in disk.rows : r.key = s.key => r = s
        BY <2>2, <3>2 DEF ScriptRuns
      <4>4. \A r \in disk.rows : r \in Row /\ r.profile = NoColumn
        BY <2>11, <4>1
      <4>5. \A r \in disk.rows :
               /\ [r EXCEPT !.profile = ACCOUNT_PROFILE].profile = ACCOUNT_PROFILE
               /\ [r EXCEPT !.profile = ACCOUNT_PROFILE].key = r.key
        BY <4>4 DEF Row
      <4>6. \A x \in disk'.rows : x.profile = ACCOUNT_PROFILE
        BY <4>2, <4>5
      <4>7. ASSUME NEW x \in disk'.rows, NEW y \in disk'.rows, x.key = y.key
            PROVE  x = y
        <5>1. PICK r \in disk.rows : x = [r EXCEPT !.profile = ACCOUNT_PROFILE]
          BY <4>2
        <5>2. PICK s \in disk.rows : y = [s EXCEPT !.profile = ACCOUNT_PROFILE]
          BY <4>2
        <5>3. r.key = s.key
          BY <4>5, <4>7, <5>1, <5>2
        <5> QED
          BY <4>3, <5>1, <5>2, <5>3
      <4>8. ACCOUNT_PROFILE # NoColumn
        BY StartupAssumption
      <4>9. TablesMatchVersions'
        BY <2>5, <4>1, <4>6, <4>7, <4>8 DEF TablesMatchVersions, WellFormedDisk
      <4>10. StoredChoices = {[r EXCEPT !.profile = ACCOUNT_PROFILE] : r \in disk.rows}
        BY <4>4 DEF StoredChoices
      <4>11. \A x \in disk'.rows :
                [x EXCEPT !.profile = IF @ = NoColumn THEN ACCOUNT_PROFILE ELSE @] = x
        <5>1. ASSUME NEW r \in disk.rows
              PROVE  LET x == [r EXCEPT !.profile = ACCOUNT_PROFILE]
                     IN  [x EXCEPT !.profile = IF @ = NoColumn THEN ACCOUNT_PROFILE ELSE @] = x
          BY <4>4, <4>8 DEF Row
        <5> QED
          BY <4>2, <5>1
      <4>12. StoredChoices' = disk'.rows
        BY <4>11 DEF StoredChoices
      <4> QED
        BY <4>2, <4>9, <4>10, <4>12
    <3> QED
      BY <2>1, <3>1, <3>2 DEF Versions
  <2>13. ReliesOn(process[p])'
    BY <1>1, <2>2, <2>5, <2>6, <2>8 DEF ReliesOn, Phase
  <2>14. ASSUME NEW q \in Processes, q # p
         PROVE  ReliesOn(process[q])'
    BY <2>2, <2>5, <2>8, <2>9, <2>14 DEF StartInv, ReliesOn
  <2> QED
    BY <2>10, <2>12, <2>13, <2>14 DEF StartInv
<1> QED
  BY <1>4, <1>5

-----------------------------------------------------------------------------
(* Endings, and the operator.                                              *)

LEMMA GiveUpWaitingStep ==
    ASSUME StartInv, NEW p \in Processes, GiveUpWaiting(p)
    PROVE  StartInv'
BY ToUnwinding DEF GiveUpWaiting, Phase

LEMMA UnwindStep ==
    ASSUME StartInv, NEW p \in Processes, Unwind(p)
    PROVE  StartInv'
BY DyingIsSafe DEF Unwind

LEMMA StopStep ==
    ASSUME StartInv, NEW p \in Processes, Stop(p)
    PROVE  StartInv'
BY DyingIsSafe DEF Stop

LEMMA CrashStep ==
    ASSUME StartInv, NEW p \in Processes, Crash(p)
    PROVE  StartInv'
<1>1. CASE lock = p
  <2>1. /\ lock' = Nobody /\ staged' = NothingStaged /\ installed' = installed /\ disk' = disk
        /\ staged' \in [layout : 0..2, rows : SUBSET Row]
    BY <1>1 DEF Crash, NothingStaged
  <2>2. process' \in [Processes -> Process] /\ process'[p] = Down
        /\ \A q \in Processes : q # p => process'[q] = process[q]
    BY DownIsProcess DEF Crash, Die, StartInv, StartupTypeOK
  <2>3. \A q \in Processes : process'[q].phase # "recording"
    BY <1>1, <2>2, DownIsProcess DEF StartInv, StartupTypeOK, Phase
  <2>4. StartupTypeOK'
    BY <2>1, <2>2, <2>3, StartupAssumption DEF StartInv, StartupTypeOK, Phase
  <2>5. TablesMatchVersions'
    BY <2>1 DEF StartInv, TablesMatchVersions
  <2>6. \A q \in Processes : ReliesOn(process[q])'
    BY <2>1, <2>2, <2>3, DownIsProcess DEF StartInv, ReliesOn
  <2> QED
    BY <2>4, <2>5, <2>6 DEF StartInv
<1>2. CASE lock # p
  <2>1. Phase(p) # "recording"
    BY <1>2 DEF StartInv, StartupTypeOK
  <2> QED
    BY <1>2, <2>1, DyingIsSafe DEF Crash
<1> QED
  BY <1>1, <1>2

LEMMA InstallStep ==
    ASSUME StartInv, NEW i \in Installations, Install(i)
    PROVE  StartInv'
BY DEF Install, StartInv, StartupTypeOK, TablesMatchVersions, ReliesOn, Phase,
       ScriptRuns, AfterScript
-----------------------------------------------------------------------------
(* Requests write while nobody is inside a transaction, and find the       *)
(* tables of the second layout.                                            *)
LEMMA OnlyRowsChange ==
    ASSUME StartInv, NEW p \in Processes, Phase(p) = "serving", lock = Nobody,
           NEW rows \in SUBSET Row, disk' = [disk EXCEPT !.rows = rows],
           UNCHANGED <<installed, process, lock, staged>>,
           \A r \in rows : r.profile # NoColumn,
           \A r, s \in rows : r.profile = s.profile /\ r.key = s.key => r = s
    PROVE  StartInv'
<1>1. /\ disk \in Disk /\ WellFormedDisk(disk) /\ Versions \subseteq disk.applied
  BY DEF StartInv, StartupTypeOK, TablesMatchVersions, ReliesOn, Phase
<1>2. disk.layout \in 0..2 /\ 2 \in 1..disk.layout
  BY <1>1 DEF WellFormedDisk, Versions, Disk
<1>3. disk.layout = 2
  BY <1>2
<1>4. /\ disk' \in Disk /\ disk'.rows = rows /\ disk'.layout = disk.layout
      /\ disk'.applied = disk.applied /\ disk'.versioned = disk.versioned
  BY <1>1 DEF Disk
<1>5. TablesMatchVersions'
  <2>1. disk'.applied = 1..disk'.layout /\ (disk'.applied # {} => disk'.versioned)
    BY <1>1, <1>4 DEF WellFormedDisk
  <2>2. disk'.layout # 0 /\ \A r \in disk'.rows : (r.profile = NoColumn) <=> disk'.layout = 1
    BY <1>3, <1>4
  <2>3. \A r, s \in disk'.rows : r.profile = s.profile /\ r.key = s.key => r = s
    BY <1>4
  <2> QED
    BY <1>4, <2>1, <2>2, <2>3 DEF TablesMatchVersions, WellFormedDisk
<1>6. \A q \in Processes : Phase(q) # "recording"
  BY StartupAssumption DEF StartInv, StartupTypeOK
<1>7. StartupTypeOK'
  BY <1>4 DEF StartInv, StartupTypeOK, Phase
<1>8. \A q \in Processes : ReliesOn(process[q])'
  BY <1>4, <1>6 DEF StartInv, ReliesOn, Phase
<1> QED
  BY <1>5, <1>7, <1>8 DEF StartInv

LEMMA RowsInUse ==
    ASSUME StartInv, NEW p \in Processes, Phase(p) = "serving"
    PROVE  /\ disk.rows \subseteq Row
           /\ \A r \in disk.rows : r.profile # NoColumn
           /\ \A r, s \in disk.rows : r.profile = s.profile /\ r.key = s.key => r = s
<1>1. /\ disk \in Disk /\ WellFormedDisk(disk) /\ Versions \subseteq disk.applied
  BY DEF StartInv, StartupTypeOK, TablesMatchVersions, ReliesOn, Phase
<1>2. disk.layout \in 0..2 /\ 2 \in 1..disk.layout
  BY <1>1 DEF WellFormedDisk, Versions, Disk
<1>3. disk.layout # 1
  BY <1>2
<1> QED
  BY <1>1, <1>3 DEF WellFormedDisk, Disk

LEMMA WriteStep ==
    ASSUME StartInv, NEW p \in Processes, Phase(p) = "serving", lock = Nobody,
           NEW e \in LiveEntries(process[p].build),
           NEW profile \in Profiles \cup {ACCOUNT_PROFILE}, NEW value \in Candidates,
           Write(p, e, profile, value)
    PROVE  StartInv'
<1> DEFINE row == [profile |-> profile, key |-> Qualified(e), value |-> value]
           rows == {r \in disk.rows : <<r.profile, r.key>> # <<profile, row.key>>} \cup {row}
<1>1. process[p].build \in Builds
  BY DEF StartInv, ReliesOn, Phase
<1>2. PICK i \in Installations : process[p].build = i.build
  BY <1>1 DEF Builds
<1>3. e \in EveryEntry(i.build)
  BY <1>2 DEF LiveEntries
<1>4. Qualified(e) \in Keys
  BY <1>3 DEF Keys
<1>5. row \in Row
  BY <1>4, StartupAssumption DEF Row
<1>6. profile # NoColumn
  BY StartupAssumption
<1>7. rows \subseteq Row /\ \A r \in rows : r.profile # NoColumn
  BY <1>5, <1>6, RowsInUse
<1>8. \A r, s \in rows : r.profile = s.profile /\ r.key = s.key => r = s
  BY RowsInUse
<1>9. disk' = [disk EXCEPT !.rows = rows] /\ UNCHANGED <<installed, process, lock, staged>>
  BY DEF Write
<1> HIDE DEF rows
<1> QED
  BY <1>7, <1>8, <1>9, OnlyRowsChange

LEMMA RemoveStep ==
    ASSUME StartInv, NEW p \in Processes, Phase(p) = "serving", lock = Nobody,
           NEW row \in disk.rows, Remove(p, row)
    PROVE  StartInv'
<1> DEFINE rows == disk.rows \ {row}
<1>1. /\ rows \subseteq Row
      /\ \A r \in rows : r.profile # NoColumn
      /\ \A r, s \in rows : r.profile = s.profile /\ r.key = s.key => r = s
  BY RowsInUse
<1>2. disk' = [disk EXCEPT !.rows = rows] /\ UNCHANGED <<installed, process, lock, staged>>
  BY DEF Remove
<1> HIDE DEF rows
<1> QED
  BY <1>1, <1>2, OnlyRowsChange

LEMMA RequestStep ==
    ASSUME StartInv, NEW p \in Processes, Request(p)
    PROVE  StartInv'
BY WriteStep, RemoveStep DEF Request

LEMMA NextStarts == StartInv /\ [Next]_vars => StartInv'
<1> SUFFICES ASSUME StartInv, [Next]_vars
             PROVE  StartInv'
  OBVIOUS
<1>1. CASE \E i \in Installations : Install(i)
  BY <1>1, InstallStep
<1>2. ASSUME NEW p \in Processes,
             Import(p) \/ StartStep(p) \/ Request(p) \/ Stop(p) \/ Crash(p)
      PROVE  StartInv'
  <2>1. CASE StartStep(p)
    BY <2>1, LoadSettingsStep, OpenStep, EnsureVersionTableStep, ReadAppliedStep,
       RunScriptStep, RecordVersionStep, GiveUpWaitingStep, LoadPolicyStep, UnwindStep
    DEF StartStep
  <2>2. CASE Import(p) \/ Request(p) \/ Stop(p) \/ Crash(p)
    BY <2>2, ImportStep, RequestStep, StopStep, CrashStep
  <2> QED
    BY <1>2, <2>1, <2>2
<1>3. CASE UNCHANGED vars
  BY <1>3 DEF vars, StartInv, StartupTypeOK, TablesMatchVersions, ReliesOn, Phase,
              ScriptRuns, AfterScript
<1> QED
  BY <1>1, <1>2, <1>3 DEF Next

LEMMA AlwaysStartInv == Spec => []StartInv
BY InitStarts, NextStarts, PTL DEF Spec
-----------------------------------------------------------------------------
(* Every process is somewhere in its start, and the lock is held by the    *)
(* one that records a version (StartupTypeOK).                             *)
THEOREM StartupTypeCorrect == Spec => []StartupTypeOK
<1>1. StartInv => StartupTypeOK
  BY DEF StartInv
<1> QED
  BY <1>1, AlwaysStartInv, PTL

(* The tables are always what the recorded versions say (_apply's one      *)
(* transaction per script and version row).                                *)
THEOREM TablesAlwaysMatchVersions == Spec => []TablesMatchVersions
<1>1. StartInv => TablesMatchVersions
  BY DEF StartInv
<1> QED
  BY <1>1, AlwaysStartInv, PTL

(* No start, crash or installation changes what anybody has chosen: only a *)
(* request does (0002_setting_profiles.sql, and _apply's rollback).        *)
THEOREM StartingAlwaysKeepsChoices == Spec => StartingKeepsChoices
<1> DEFINE Kept == StoredChoices' = StoredChoices \/ \E p \in Processes : Request(p)
<1>1. ASSUME StartInv, [Next]_vars
      PROVE  [Kept]_vars
  <2>1. CASE UNCHANGED disk
    BY <2>1 DEF StoredChoices
  <2>2. ASSUME NEW p \in Processes, EnsureVersionTable(p)
        PROVE  Kept
    <3>1. disk'.rows = disk.rows
      BY <2>2 DEF EnsureVersionTable, StartInv, StartupTypeOK, Disk
    <3> QED
      BY <3>1 DEF StoredChoices
  <2>3. ASSUME NEW p \in Processes, RecordVersion(p)
        PROVE  Kept
    BY <1>1, <2>3, RecordVersionStep
  <2> QED
    BY <1>1, <2>1, <2>2, <2>3
    DEF Next, StartStep, Install, Import, LoadSettings, Open, ReadApplied, RunScript,
        GiveUpWaiting, LoadPolicy, Unwind, Stop, Crash, vars
<1> QED
  BY <1>1, AlwaysStartInv, PTL DEF Spec, StartingKeepsChoices

(* A process serves a policy its own build accepts, and so admits no value *)
(* the catalogue refuses (OperatorPolicy.load, and _narrowed).             *)
THEOREM AlwaysServesWithinTheCatalogue == Spec => []ServesWithinTheCatalogue
<1>1. ASSUME StartInv
      PROVE  ServesWithinTheCatalogue
  <2> SUFFICES ASSUME NEW p \in Processes, Phase(p) = "serving",
                      NEW e \in LiveEntries(process[p].build)
               PROVE  LET file == process[p].policy
                          served == DefinitionOf(file, e)
                      IN  /\ \A v \in Candidates : Validate(served, v) => Validate(e, v)
                          /\ IsPinned(file, e) => Validate(served, PinOn(file, e))
                          /\ served.default # e.default => Validate(served, served.default)
                          /\ e.namespace = COMMON => served.scope = "account"
    BY DEF ServesWithinTheCatalogue
  <2> QED
    BY <1>1, StartupAssumption, LoadedPolicyNarrows
    DEF StartInv, ReliesOn, Phase, Builds, Policies
<1> QED
  BY <1>1, AlwaysStartInv, PTL
-----------------------------------------------------------------------------
(* Startup implements AtomicMigration.                                     *)

Serving == {p \in Processes : Phase(p) = "serving"}

Shown(r) == [r EXCEPT !.profile = IF @ = NoColumn THEN ACCOUNT_PROFILE ELSE @]

(* What of the rows is shown as choices, and that no two have one name.    *)
LEMMA ChoicesTyped ==
    ASSUME StartInv
    PROVE  /\ StoredChoices \in SUBSET Choice
           /\ \A c, d \in StoredChoices : Abstract!SameName(c, d) => c = d
           /\ disk.layout = 0 => StoredChoices = {}
<1>1. /\ disk.rows \subseteq Row
      /\ \A r \in disk.rows : (r.profile = NoColumn) <=> disk.layout = 1
      /\ \A r, s \in disk.rows : r.profile = s.profile /\ r.key = s.key => r = s
      /\ disk.layout = 0 => disk.rows = {}
  BY DEF StartInv, StartupTypeOK, TablesMatchVersions, WellFormedDisk, Disk
<1>2. StoredChoices = {Shown(r) : r \in disk.rows}
  BY DEF StoredChoices, Shown
<1>3. ASSUME NEW r \in disk.rows
      PROVE  /\ Shown(r) \in Choice /\ Shown(r).key = r.key
             /\ Shown(r).profile = IF disk.layout = 1 THEN ACCOUNT_PROFILE ELSE r.profile
  BY <1>1 DEF Shown, Row, Choice
<1>4. ASSUME NEW r \in disk.rows, NEW s \in disk.rows, Abstract!SameName(Shown(r), Shown(s))
      PROVE  r = s
  <2>1. r.key = s.key
    BY <1>3, <1>4 DEF Abstract!SameName
  <2>2. r.profile = s.profile
    BY <1>1, <1>3, <1>4 DEF Abstract!SameName
  <2> QED
    BY <1>1, <2>1, <2>2
<1>5. StoredChoices \in SUBSET Choice
  BY <1>2, <1>3
<1>6. \A c, d \in StoredChoices : Abstract!SameName(c, d) => c = d
  BY <1>2, <1>4
<1>7. disk.layout = 0 => StoredChoices = {}
  BY <1>1, <1>2
<1> QED
  BY <1>5, <1>6, <1>7

(* Who serves found the last version, and it is there to stay.             *)
LEMMA ServedIsLatest ==
    ASSUME StartInv, NEW p \in Processes, Phase(p) = "serving"
    PROVE  /\ disk.layout = 2
           /\ StoredChoices = disk.rows
<1>1. disk \in Disk /\ WellFormedDisk(disk) /\ Versions \subseteq disk.applied
  BY DEF StartInv, StartupTypeOK, TablesMatchVersions, ReliesOn, Phase
<1>2. disk.layout \in 0..2 /\ 2 \in 1..disk.layout
  BY <1>1 DEF WellFormedDisk, Versions, Disk
<1>3. \A r \in disk.rows : Shown(r) = r
  BY RowsInUse DEF Shown, Row
<1>4. StoredChoices = {Shown(r) : r \in disk.rows}
  BY DEF StoredChoices, Shown
<1> QED
  BY <1>2, <1>3, <1>4

(* A process that moves is seen if it serves before or after.              *)
LEMMA MoveMaps ==
    ASSUME StartInv, NEW p \in Processes, NEW w, process' = [process EXCEPT ![p] = w],
           disk'.layout = disk.layout, disk'.applied = disk.applied, disk'.rows = disk.rows,
           w.phase = "serving" => disk.layout = 2
    PROVE  [Abstract!Next]_Abstract!vars
<1>1. process'[p] = w /\ \A q \in Processes : q # p => process'[q] = process[q]
  BY DEF StartInv, StartupTypeOK
<1>2. StoredChoices' = StoredChoices
  BY DEF StoredChoices
<1>3. CASE w.phase = "serving"
  <2>1. Serving' = Serving \cup {p}
    BY <1>1, <1>3 DEF Serving, Phase
  <2>2. Abstract!Serve(p)
    BY <1>2, <1>3, <2>1 DEF Abstract!Serve, Serving
  <2> QED
    BY <2>2 DEF Abstract!Next
<1>4. CASE w.phase # "serving"
  <2>1. Serving' = Serving \ {p}
    BY <1>1, <1>4 DEF Serving, Phase
  <2>2. Abstract!Leave(p)
    BY <1>2, <2>1 DEF Abstract!Leave, Serving
  <2> QED
    BY <2>2 DEF Abstract!Next
<1> QED
  BY <1>3, <1>4

LEMMA StartStepMaps ==
    ASSUME StartInv, NEW p \in Processes,
           \/ Import(p) \/ LoadSettings(p) \/ Open(p) \/ EnsureVersionTable(p) \/ ReadApplied(p)
           \/ RunScript(p) \/ GiveUpWaiting(p) \/ Unwind(p) \/ Stop(p) \/ Crash(p)
    PROVE  [Abstract!Next]_Abstract!vars
<1>1. /\ disk'.layout = disk.layout /\ disk'.applied = disk.applied /\ disk'.rows = disk.rows
  BY DEF StartInv, StartupTypeOK, Disk, Import, LoadSettings, Open, EnsureVersionTable,
         ReadApplied, RunScript, GiveUpWaiting, Unwind, Stop, Crash
<1>2. process[p] \in Process
  BY DEF StartInv, StartupTypeOK
<1>3. \E w : process' = [process EXCEPT ![p] = w] /\ w.phase # "serving"
  <2>1. CASE Die(p)
    BY <2>1, DownIsProcess DEF Die
  <2>2. ASSUME NEW phase \in Phases \ {"serving"}, Enter(p, phase)
        PROVE  \E w : process' = [process EXCEPT ![p] = w] /\ w.phase # "serving"
    <3> DEFINE w == [process[p] EXCEPT !.phase = phase]
    <3>1. w.phase = phase /\ process' = [process EXCEPT ![p] = w]
      BY <2>2, MovesToPhase
    <3> HIDE DEF w
    <3> QED
      BY <3>1
  <2>3. CASE Import(p)
    <3> DEFINE w == [process[p] EXCEPT !.phase = "imported", !.build = installed.build]
    <3>1. w.phase = "imported" /\ process' = [process EXCEPT ![p] = w]
      BY <1>2, <2>3 DEF Import, Process
    <3> HIDE DEF w
    <3> QED
      BY <3>1
  <2>4. CASE LoadSettings(p) /\ ~Die(p)
    <3> DEFINE w == [process[p] EXCEPT !.phase = "configured", !.environment = installed.environment]
    <3>1. w.phase = "configured" /\ process' = [process EXCEPT ![p] = w]
      BY <1>2, <2>4 DEF LoadSettings, Process
    <3> HIDE DEF w
    <3> QED
      BY <3>1
  <2>5. CASE ReadApplied(p)
    <3> DEFINE w == [process[p] EXCEPT !.phase = "migrating", !.pending = Versions \ disk.applied]
    <3>1. w.phase = "migrating" /\ process' = [process EXCEPT ![p] = w]
      BY <1>2, <2>5 DEF ReadApplied, Process
    <3> HIDE DEF w
    <3> QED
      BY <3>1
  <2>6. CASE \/ Open(p) \/ EnsureVersionTable(p) \/ RunScript(p) \/ GiveUpWaiting(p)
             \/ Unwind(p) \/ Stop(p) \/ Crash(p)
    <3>1. Die(p) \/ Enter(p, "open") \/ Enter(p, "versioned") \/ Enter(p, "recording")
             \/ Enter(p, "unwinding")
      BY <2>6 DEF Open, EnsureVersionTable, RunScript, GiveUpWaiting, Unwind, Stop, Crash
    <3> QED
      BY <2>1, <2>2, <3>1 DEF Phases
  <2> QED
    BY <2>1, <2>3, <2>4, <2>5, <2>6
<1> QED
  BY <1>1, <1>3, MoveMaps

LEMMA LoadPolicyMaps ==
    ASSUME StartInv, NEW p \in Processes, LoadPolicy(p)
    PROVE  [Abstract!Next]_Abstract!vars
<1>1. process[p] \in Process /\ disk' = disk
  BY DEF LoadPolicy, StartInv, StartupTypeOK
<1>2. disk.layout = 2
  <2>1. Versions \subseteq disk.applied
    BY DEF LoadPolicy, StartInv, ReliesOn, Phase
  <2>2. disk.layout \in 0..2 /\ 2 \in 1..disk.layout
    BY <2>1 DEF StartInv, StartupTypeOK, TablesMatchVersions, WellFormedDisk, Versions, Disk
  <2> QED
    BY <2>2
<1>3. \E w : process' = [process EXCEPT ![p] = w]
  BY <1>1 DEF LoadPolicy, Enter, StartInv, StartupTypeOK
<1> QED
  BY <1>1, <1>2, <1>3, MoveMaps

LEMMA RecordVersionMaps ==
    ASSUME StartInv, NEW p \in Processes, RecordVersion(p)
    PROVE  [Abstract!Next]_Abstract!vars
<1>1. StoredChoices' = StoredChoices /\ Phase(p) = "recording"
  BY RecordVersionStep DEF RecordVersion
<1>2. process[p] \in Process
  BY DEF StartInv, StartupTypeOK
<1>3. CASE NextVersion(p) \in disk.applied
  <2> DEFINE w == [process[p] EXCEPT !.phase = "unwinding"]
  <2>1. process' = [process EXCEPT ![p] = w] /\ w.phase = "unwinding" /\ disk' = disk
    BY <1>3, MovesToPhase DEF RecordVersion, Phases
  <2> HIDE DEF w
  <2> QED
    BY <2>1, MoveMaps
<1>4. CASE NextVersion(p) \notin disk.applied
  <2>1. /\ NextVersion(p) = disk.layout + 1 /\ NextVersion(p) \in Versions
        /\ disk.layout \in 0..2
    BY <1>1, <1>4, NextInOrder DEF StartInv, StartupTypeOK, Disk
  <2>2. ScriptRuns(NextVersion(p)) /\ staged = AfterScript(NextVersion(p))
    BY <1>1 DEF StartInv, ReliesOn, NextVersion, Phase
  <2>3. staged.layout = disk.layout + 1
    BY <2>1, <2>2, ScriptResult
  <2>4. disk'.layout = disk.layout + 1 /\ disk'.applied = disk.applied \cup {disk.layout + 1}
    BY <1>4, <2>1, <2>3 DEF RecordVersion, StartInv, StartupTypeOK, Disk
  <2>5. Serving' = Serving
    <3> DEFINE w == [process[p] EXCEPT !.phase = "migrating", !.pending = @ \ {NextVersion(p)}]
    <3>1. w.phase = "migrating" /\ process' = [process EXCEPT ![p] = w]
      BY <1>2, <1>4 DEF RecordVersion, Process
    <3> HIDE DEF w
    <3>2. process'[p] = w /\ \A q \in Processes : q # p => process'[q] = process[q]
      BY <3>1 DEF StartInv, StartupTypeOK
    <3> QED
      BY <1>1, <3>1, <3>2 DEF Serving, Phase
  <2>6. disk.layout < 2
    BY <2>1 DEF Versions
  <2>7. Abstract!Migrate
    BY <1>1, <2>4, <2>5, <2>6 DEF Abstract!Migrate, Serving
  <2> QED
    BY <2>7 DEF Abstract!Next
<1> QED
  BY <1>3, <1>4

(* A request makes one choice, or takes one back.                          *)
LEMMA RequestMaps ==
    ASSUME StartInv, NEW p \in Processes, Request(p)
    PROVE  [Abstract!Next]_Abstract!vars
<1>1. Phase(p) = "serving" /\ StartInv' /\ process' = process
  BY RequestStep DEF Request, Write, Remove
<1>2. Phase(p)' = "serving"
  BY <1>1 DEF Phase
<1>3. StoredChoices = disk.rows /\ StoredChoices' = disk'.rows
  <2>1. StoredChoices = disk.rows
    BY <1>1, ServedIsLatest
  <2>2. \A r \in disk'.rows : Shown(r) = r
    <3>1. \A r \in disk'.rows : r \in Row /\ ((r.profile = NoColumn) <=> disk'.layout = 1)
      BY <1>1 DEF StartInv, StartupTypeOK, TablesMatchVersions, WellFormedDisk, Disk
    <3>2. disk'.layout = disk.layout /\ disk.layout = 2
      BY <1>1, ServedIsLatest DEF Request, Write, Remove, StartInv, StartupTypeOK, Disk
    <3> QED
      BY <3>1, <3>2 DEF Shown, Row
  <2>3. StoredChoices' = {Shown(r) : r \in disk'.rows}
    BY DEF StoredChoices, Shown
  <2> QED
    BY <2>1, <2>2, <2>3
<1>4. /\ disk'.layout = disk.layout /\ disk'.applied = disk.applied
      /\ Serving' = Serving /\ Serving # {}
  BY <1>1 DEF Request, Write, Remove, StartInv, StartupTypeOK, Disk, Serving, Phase
<1>5. ASSUME NEW e, NEW profile, NEW value, Write(p, e, profile, value)
      PROVE  Abstract!Choose
  <2> DEFINE row == [profile |-> profile, key |-> Qualified(e), value |-> value]
  <2>1. disk'.rows = {r \in disk.rows : <<r.profile, r.key>> # <<profile, row.key>>} \cup {row}
    BY <1>5 DEF Write, StartInv, StartupTypeOK, Disk
  <2>2. disk'.rows = {d \in disk.rows : ~Abstract!SameName(row, d)} \cup {row}
    BY <2>1 DEF Abstract!SameName
  <2>3. row \in disk'.rows
    BY <2>1
  <2> HIDE DEF row
  <2>4. StoredChoices' \in SUBSET Choice
    <3>1. \A r \in disk'.rows : r \in Row /\ ((r.profile = NoColumn) <=> disk'.layout = 1)
      BY <1>1 DEF StartInv, StartupTypeOK, TablesMatchVersions, WellFormedDisk, Disk
    <3>2. disk'.layout = 2
      BY <1>1, <1>4, ServedIsLatest
    <3> QED
      BY <1>3, <3>1, <3>2 DEF Row, Choice
  <2> QED
    BY <1>3, <1>4, <2>2, <2>3, <2>4 DEF Abstract!Choose, Serving
<1>6. ASSUME NEW row \in disk.rows, Remove(p, row)
      PROVE  Abstract!TakeBack
  <2>1. disk'.rows = disk.rows \ {row}
    BY <1>6 DEF Remove, StartInv, StartupTypeOK, Disk
  <2> QED
    BY <1>3, <1>4, <1>6, <2>1 DEF Abstract!TakeBack, Serving
<1> QED
  BY <1>5, <1>6 DEF Request, Abstract!Next

(* However starts overlap, fail and are killed, the file moves from        *)
(* version to version whole, and is written to at the last one only.       *)
THEOREM StartupImplementsAtomicMigration == Spec => MigrationsAreAtomic
<1>1. Init => Abstract!Init
  <2> SUFFICES ASSUME Init PROVE Abstract!Init
    OBVIOUS
  <2>1. StartInv
    BY InitStarts
  <2>2. disk.layout \in 0..2 /\ disk.applied = 1..disk.layout
    BY <2>1 DEF StartInv, StartupTypeOK, TablesMatchVersions, WellFormedDisk, Disk
  <2>3. {p \in Processes : Phase(p) = "serving"} = {}
    BY DownIsProcess DEF Init, Phase
  <2> QED
    BY <2>1, <2>2, <2>3, ChoicesTyped DEF Abstract!Init
<1>2. StartInv /\ [Next]_vars => [Abstract!Next]_Abstract!vars
  <2> SUFFICES ASSUME StartInv, [Next]_vars
               PROVE  [Abstract!Next]_Abstract!vars
    OBVIOUS
  <2>1. CASE UNCHANGED vars \/ \E i \in Installations : Install(i)
    BY <2>1 DEF vars, Install, Abstract!vars, StoredChoices, Phase
  <2>2. ASSUME NEW p \in Processes,
               Import(p) \/ StartStep(p) \/ Request(p) \/ Stop(p) \/ Crash(p)
        PROVE  [Abstract!Next]_Abstract!vars
    BY <2>2, StartStepMaps, LoadPolicyMaps, RecordVersionMaps, RequestMaps DEF StartStep
  <2> QED
    BY <2>1, <2>2 DEF Next
<1> QED
  BY <1>1, <1>2, AlwaysStartInv, PTL DEF Spec, MigrationsAreAtomic, Abstract!Spec
=============================================================================
