----------------------- MODULE SettingsService_proofs -----------------------
(***************************************************************************)
(* The service implements the store: whatever requests, reads, restores,   *)
(* sweeps and restarts do, the tables only ever take steps of the store's  *)
(* specification.  What is proved of the store therefore holds under the   *)
(* service as well.                                                        *)
(*                                                                         *)
(* The store's ChangeLists, the lists its callers may hand it, are here    *)
(* all sequences of changes.                                               *)
(***************************************************************************)
EXTENDS SettingsService, SettingsStore_proofs

(* A finite set listed by SetToSeq is listed by its own elements.          *)
LEMMA ListedElements ==
    ASSUME NEW S, IsFiniteSet(S)
    PROVE  /\ Cardinality(S) \in Nat
           /\ SetToSeq(S) \in [1..Cardinality(S) -> S]
<1>1. Cardinality(S) \in Nat /\ ExistsBijection(1..Cardinality(S), S)
  BY FS_CardinalityType
<1>2. \E f \in [1..Cardinality(S) -> S] : IsInjective(f)
  BY <1>1 DEF ExistsBijection, Bijection, Injection
<1> QED
  BY <1>1, <1>2 DEF SetToSeq

(* Entries that name keys, a column and a value make a list of changes.    *)
LEMMA ChangesForTyped ==
    ASSUME NEW n \in Nat, NEW entries, DOMAIN entries = 1..n,
           \A i \in 1..n :
              /\ entries[i].key \in Keys
              /\ StorageProfile(entries[i].key, entries[i].profile)
                    \in Profiles \cup {ACCOUNT_PROFILE}
              /\ entries[i].value \in Values \cup {Unset}
    PROVE  ChangesFor(entries) \in Seq(Change)
<1> DEFINE change(i) ==
      [row   |-> <<StorageProfile(entries[i].key, entries[i].profile), entries[i].key>>,
       value |-> entries[i].value]
<1>1. \A i \in 1..n : change(i) \in Change
  BY DEF Change, RowKeys
<1>2. ChangesFor(entries) = [i \in 1..n |-> change(i)]
  BY DEF ChangesFor
<1> HIDE DEF change
<1>3. [i \in 1..n |-> change(i)] \in [1..n -> Change]
  BY <1>1
<1> QED
  BY <1>2, <1>3

LEMMA ColumnTyped ==
    ASSUME NEW key, NEW profile \in ProfileArguments, StorageProfile(key, profile) # NoProfile
    PROVE  StorageProfile(key, profile) \in Profiles \cup {ACCOUNT_PROFILE}
BY DEF StorageProfile, ProfileArguments

(* A document that is accepted makes a list of changes.                    *)
LEMMA AcceptedDocumentTyped ==
    ASSUME deployment \in Deployments, NEW actor, NEW n \in Nat, NEW entries,
           DOMAIN entries = 1..n,
           \A i \in 1..n : entries[i].profile \in ProfileArguments,
           AcceptsDocument(actor, entries)
    PROVE  ChangesFor(entries) \in Seq(Change)
<1>1. deployment.live \subseteq Keys /\ deployment.allowed \in [Keys -> SUBSET Values]
  BY DeploymentsAssumption
<1>2. ASSUME NEW i \in 1..n
      PROVE  /\ entries[i].key \in Keys
             /\ StorageProfile(entries[i].key, entries[i].profile)
                   \in Profiles \cup {ACCOUNT_PROFILE}
             /\ entries[i].value \in Values \cup {Unset}
  <2>1. AcceptsWrite(actor, entries[i].key, entries[i].value, entries[i].profile)
    BY DEF AcceptsDocument
  <2>2. entries[i].key \in Keys
    BY <2>1, <1>1 DEF AcceptsWrite
  <2>3. entries[i].value \in deployment.allowed[entries[i].key]
    BY <2>1 DEF AcceptsWrite
  <2>4. entries[i].value \in Values
    BY <1>1, <2>2, <2>3
  <2>5. StorageProfile(entries[i].key, entries[i].profile) # NoProfile
    BY <2>1 DEF AcceptsWrite
  <2> QED
    BY <2>2, <2>4, <2>5, ColumnTyped
<1> QED
  BY <1>2, ChangesForTyped
-----------------------------------------------------------------------------
(* Every write of the service is an apply of a list of changes, each of    *)
(* which passed the same checks, whichever request it came with.           *)

RuledEntry(actor, entry) ==
    /\ entry.profile \in ProfileArguments
    /\ entry.key \in deployment.live
    /\ NamespaceOf[entry.key] \in Granted(actor)
    /\ StorageProfile(entry.key, entry.profile) # NoProfile
    /\ MayWrite(actor, entry.key)
    /\ entry.value \in {Unset} \cup deployment.allowed[entry.key]

Ruled(account, actor, action, entries) ==
    /\ ChangesFor(entries) \in Seq(Change)
    /\ actor \in Services => action = "set"
    /\ \A i \in DOMAIN entries : RuledEntry(actor, entries[i])
    /\ Write(account, ChangesFor(entries), action, actor)

IsRuledWrite(account, actor) ==
    \E action \in WriteActions : \E entries : Ruled(account, actor, action, entries)

(* A write with an If-Match that holds does what one without does.         *)
LEMMA RuledIsApply ==
    ASSUME ChangeLists = Seq(Change), NEW account \in Accounts, NEW actor \in Actors,
           IsRuledWrite(account, actor)
    PROVE  ApplySome /\ UNCHANGED <<deployment, paper>>
<1>0. PICK action \in WriteActions : \E entries : Ruled(account, actor, action, entries)
  BY DEF IsRuledWrite
<1>1. PICK entries : Ruled(account, actor, action, entries)
  BY <1>0
<1>2. PICK ifRevision : Apply(account, ChangesFor(entries), action, actor, ifRevision)
  BY <1>1 DEF Ruled, Write
<1>3. Apply(account, ChangesFor(entries), action, actor, NoRevision)
  BY <1>2 DEF Apply, IfMatchHolds
<1> QED
  BY <1>1, <1>3 DEF ApplySome, Ruled, Write

LEMMA AcceptedIsRuled ==
    ASSUME deployment \in Deployments, NEW actor, NEW n \in Nat, NEW entries,
           DOMAIN entries = 1..n,
           \A i \in 1..n : entries[i].profile \in ProfileArguments,
           AcceptsDocument(actor, entries)
    PROVE  /\ ChangesFor(entries) \in Seq(Change)
           /\ \A i \in DOMAIN entries : RuledEntry(actor, entries[i])
<1>1. \A i \in 1..n : AcceptsWrite(actor, entries[i].key, entries[i].value, entries[i].profile)
  BY DEF AcceptsDocument
<1> QED
  BY <1>1, AcceptedDocumentTyped DEF RuledEntry, AcceptsWrite

LEMMA SetIsRuled ==
    ASSUME ServiceTypeOK, ChangeLists = Seq(Change), NEW account \in Accounts,
           NEW actor, NEW key \in Keys, NEW value \in Values,
           NEW profile \in ProfileArguments,
           SetSetting(account, actor, key, value, profile)
    PROVE  Ruled(account, actor, "set",
                 <<[profile |-> profile, key |-> key, value |-> value]>>)
<1> DEFINE entries == <<[profile |-> profile, key |-> key, value |-> value]>>
<1>1. DOMAIN entries = 1..1 /\ \A i \in 1..1 : entries[i].profile \in ProfileArguments
  OBVIOUS
<1>2. AcceptsDocument(actor, entries)
  BY DEF SetSetting, AcceptsDocument
<1>3. Write(account, ChangesFor(entries), "set", actor)
  BY DEF SetSetting
<1> HIDE DEF entries
<1>4. /\ ChangesFor(entries) \in Seq(Change)
      /\ \A i \in DOMAIN entries : RuledEntry(actor, entries[i])
  BY <1>1, <1>2, AcceptedIsRuled DEF ServiceTypeOK
<1>5. Ruled(account, actor, "set", entries)
  BY <1>3, <1>4 DEF Ruled
<1> QED
  BY <1>5 DEF entries

LEMMA UnderTyped ==
    ASSUME NEW profile \in ProfileArguments, NEW document \in Documents \cup LegacyDocuments
    PROVE  /\ Len(document) \in Nat
           /\ DOMAIN Under(profile, document) = 1..Len(document)
           /\ \A i \in 1..Len(document) : Under(profile, document)[i].profile \in ProfileArguments
<1>1. document \in Seq([key : Keys, value : Values])
  BY DocumentsAssumption
<1> QED
  BY <1>1 DEF Under

LEMMA UpdateIsRuled ==
    ASSUME ServiceTypeOK, ChangeLists = Seq(Change), NEW account \in Accounts,
           NEW actor \in Actors, NEW document \in Documents, NEW profile \in ProfileArguments,
           Update(account, actor, document, profile)
    PROVE  IsRuledWrite(account, actor)
<1>1. /\ ChangesFor(Under(profile, document)) \in Seq(Change)
      /\ \A i \in DOMAIN Under(profile, document) : RuledEntry(actor, Under(profile, document)[i])
  BY UnderTyped, AcceptedIsRuled DEF Update, ServiceTypeOK
<1> QED
  BY <1>1, WriteActionsAssumption DEF Update, IsRuledWrite, Ruled

LEMMA ImportIsRuled ==
    ASSUME ServiceTypeOK, ChangeLists = Seq(Change), NEW account \in Accounts,
           NEW actor \in Actors, NEW n \in Nat, NEW entries, DOMAIN entries = 1..n,
           \A i \in 1..n : entries[i].profile \in ProfileArguments,
           ImportDocument(account, actor, entries)
    PROVE  Ruled(account, actor, "import", entries)
<1>1. /\ ChangesFor(entries) \in Seq(Change)
      /\ \A i \in DOMAIN entries : RuledEntry(actor, entries[i])
  BY AcceptedIsRuled DEF ImportDocument, ServiceTypeOK
<1> QED
  BY <1>1 DEF ImportDocument, Ruled

LEMMA ImportTyped ==
    ASSUME NEW entries \in Imports
    PROVE  /\ Len(entries) \in Nat
           /\ DOMAIN entries = 1..Len(entries)
           /\ \A i \in 1..Len(entries) : entries[i].profile \in ProfileArguments
<1> DEFINE T == [profile : Profiles \cup {NoProfile}, key : Keys, value : Values]
<1>1. entries \in Seq(T)
  BY DocumentsAssumption
<1>2. \A e \in T : e.profile \in ProfileArguments
  BY DEF ProfileArguments
<1> HIDE DEF T
<1>3. /\ Len(entries) \in Nat /\ DOMAIN entries = 1..Len(entries)
      /\ \A i \in 1..Len(entries) : entries[i] \in T
  BY <1>1
<1> QED
  BY <1>2, <1>3

(* A backup is one entry for each of its finitely many rows.               *)
LEMMA RestoreIsRuled ==
    ASSUME ServiceTypeOK, ChangeLists = Seq(Change), NEW account \in Accounts,
           NEW actor \in Actors, RestoreBackup(account, actor)
    PROVE  Ruled(account, actor, "import", EntriesOf(paper.document))
<1> DEFINE exported == paper.document
           D == DOMAIN exported
           entries == EntriesOf(exported)
           n == Cardinality(D)
           named == SetToSeq(D)
<1>1. D \subseteq RowKeys
  BY DEF RestoreBackup, ServiceTypeOK, DocumentPaper, BackupPaper
<1>2. IsFiniteSet(D)
  <2>1. IsFiniteSet(Profiles \cup {ACCOUNT_PROFILE})
    BY FiniteAssumption, FS_AddElement
  <2>2. IsFiniteSet(RowKeys)
    BY <2>1, FiniteAssumption, FS_Product DEF RowKeys
  <2> QED
    BY <1>1, <2>2, FS_Subset
<1>3. n \in Nat /\ named \in [1..n -> D]
  BY <1>2, ListedElements
<1>4. DOMAIN entries = 1..n
  BY DEF EntriesOf
<1>5. ASSUME NEW i \in 1..n
      PROVE  entries[i].profile \in ProfileArguments
  <2>1. named[i] \in RowKeys
    BY <1>1, <1>3
  <2>2. named[i][1] \in Profiles \cup {ACCOUNT_PROFILE}
    BY <2>1 DEF RowKeys
  <2>3. entries[i].profile = IF named[i][1] = ACCOUNT_PROFILE THEN NoProfile ELSE named[i][1]
    BY DEF EntriesOf
  <2> QED
    BY <2>2, <2>3 DEF ProfileArguments
<1>6. ImportDocument(account, actor, entries)
  BY DEF RestoreBackup
<1> HIDE DEF entries, n
<1>7. Ruled(account, actor, "import", entries)
  BY <1>3, <1>4, <1>5, <1>6, ImportIsRuled
<1> QED
  BY <1>7 DEF entries

LEMMA ResetIsRuled ==
    ASSUME ServiceTypeOK, ChangeLists = Seq(Change), NEW account \in Accounts,
           NEW actor \in Actors, NEW key \in Keys, NEW profile \in ProfileArguments,
           ResetSetting(account, actor, key, profile)
    PROVE  IsRuledWrite(account, actor)
<1> DEFINE entries == <<[profile |-> profile, key |-> key, value |-> Unset]>>
<1>1. StorageProfile(key, profile) \in Profiles \cup {ACCOUNT_PROFILE}
  BY ColumnTyped DEF ResetSetting
<1>2. /\ DOMAIN entries = 1..1
      /\ \A i \in 1..1 : /\ entries[i].key = key
                         /\ entries[i].profile = profile
                         /\ entries[i].value = Unset
  OBVIOUS
<1>3. Write(account, ChangesFor(entries), "reset", actor) /\ actor \notin Services
  BY DEF ResetSetting
<1> HIDE DEF entries
<1>4. ChangesFor(entries) \in Seq(Change)
  BY <1>1, <1>2, ChangesForTyped
<1>5. \A i \in DOMAIN entries : RuledEntry(actor, entries[i])
  BY <1>2 DEF ResetSetting, RuledEntry
<1> QED
  BY <1>3, <1>4, <1>5, WriteActionsAssumption DEF IsRuledWrite, Ruled

(* Without a profile only account-scoped keys are reset, so every key that *)
(* is reset has a column.                                                  *)
LEMMA ResetNamespaceIsRuled ==
    ASSUME ServiceTypeOK, ChangeLists = Seq(Change), NEW account \in Accounts,
           NEW actor \in Actors, NEW namespace \in Namespaces,
           NEW profile \in ProfileArguments,
           ResetNamespace(account, actor, namespace, profile)
    PROVE  IsRuledWrite(account, actor)
<1> DEFINE S == Resettable(actor, namespace, profile)
           n == Cardinality(S)
           keys == SetToSeq(S)
           entries == [i \in 1..n |-> [profile |-> profile, key |-> keys[i], value |-> Unset]]
<1>1. S \subseteq Keys
  BY DeploymentsAssumption DEF Resettable, ServiceTypeOK
<1>2. n \in Nat /\ keys \in [1..n -> S]
  BY <1>1, FiniteAssumption, FS_Subset, ListedElements
<1>3. ASSUME NEW key \in S
      PROVE  StorageProfile(key, profile) \in Profiles \cup {ACCOUNT_PROFILE}
  BY DEF Resettable, StorageProfile, ProfileArguments
<1>4. Write(account, ChangesFor(entries), "reset_namespace", actor) /\ actor \notin Services
  BY DEF ResetNamespace
<1>5. /\ DOMAIN entries = 1..n
      /\ \A i \in 1..n : /\ entries[i].key = keys[i]
                         /\ entries[i].profile = profile
                         /\ entries[i].value = Unset
  OBVIOUS
<1>6. ASSUME NEW key \in S
      PROVE  /\ key \in deployment.live
             /\ NamespaceOf[key] \in Granted(actor)
             /\ StorageProfile(key, profile) # NoProfile
             /\ MayWrite(actor, key)
  <2>1. StorageProfile(key, profile) # NoProfile
    BY CallersAssumption DEF Resettable, StorageProfile
  <2> QED
    BY <2>1 DEF Resettable, ResetNamespace
<1> HIDE DEF S, n, keys, entries
<1>7. ChangesFor(entries) \in Seq(Change)
  BY <1>1, <1>2, <1>3, <1>5, ChangesForTyped
<1>8. \A i \in DOMAIN entries : RuledEntry(actor, entries[i])
  BY <1>2, <1>5, <1>6 DEF RuledEntry
<1> QED
  BY <1>4, <1>7, <1>8, WriteActionsAssumption DEF IsRuledWrite, Ruled
-----------------------------------------------------------------------------
(* A step of the service keeps a paper, is a ruled write, an erasure or a  *)
(* purge, or replaces the deployment.                                      *)
LEMMA ServiceCases ==
    ASSUME ServiceTypeOK, ChangeLists = Seq(Change), [ServiceNext]_vars
    PROVE  \/ Reads
           \/ \E account \in Accounts, actor \in Actors : IsRuledWrite(account, actor)
           \/ \E account \in Accounts : ForgetSettings(account)
           \/ \E key \in Keys : Sweep(key)
           \/ Redeploy
           \/ UNCHANGED vars
<1>2. CASE Writes
  <2>1. PICK account \in Accounts, actor \in Actors :
            \/ \E key \in Keys, value \in Values, profile \in ProfileArguments :
                   SetSetting(account, actor, key, value, profile)
            \/ \E document \in Documents, profile \in ProfileArguments :
                   Update(account, actor, document, profile)
            \/ \E entries \in Imports : ImportDocument(account, actor, entries)
            \/ \E document \in LegacyDocuments : ImportLegacy(account, actor, document)
            \/ RestoreBackup(account, actor)
    BY <1>2 DEF Writes
  <2>2. ASSUME NEW key \in Keys, NEW value \in Values, NEW profile \in ProfileArguments,
               SetSetting(account, actor, key, value, profile)
        PROVE  IsRuledWrite(account, actor)
    BY <2>2, SetIsRuled, WriteActionsAssumption DEF IsRuledWrite
  <2>3. ASSUME NEW document \in Documents, NEW profile \in ProfileArguments,
               Update(account, actor, document, profile)
        PROVE  IsRuledWrite(account, actor)
    BY <2>3, UpdateIsRuled
  <2>4. ASSUME NEW entries \in Imports, ImportDocument(account, actor, entries)
        PROVE  IsRuledWrite(account, actor)
    BY <2>4, ImportTyped, ImportIsRuled, WriteActionsAssumption DEF IsRuledWrite
  <2>5. ASSUME NEW document \in LegacyDocuments, ImportLegacy(account, actor, document)
        PROVE  IsRuledWrite(account, actor)
    <3>1. V1_PROFILE_FALLBACK \in ProfileArguments
      BY CallersAssumption DEF ProfileArguments
    <3> QED
      BY <2>5, <3>1, UnderTyped, ImportIsRuled, WriteActionsAssumption
         DEF ImportLegacy, IsRuledWrite
  <2>6. ASSUME RestoreBackup(account, actor)
        PROVE  IsRuledWrite(account, actor)
    BY <2>6, RestoreIsRuled, WriteActionsAssumption DEF IsRuledWrite
  <2> QED
    BY <2>1, <2>2, <2>3, <2>4, <2>5, <2>6
<1>3. CASE Resets
  BY <1>3, ResetIsRuled, ResetNamespaceIsRuled DEF Resets
<1> QED
  BY <1>2, <1>3 DEF ServiceNext

(* What it does to the tables: nothing, a ruled write, an erasure or a     *)
(* purge, and so a step of the store.                                      *)
LEMMA ServiceSteps ==
    ASSUME ServiceTypeOK, ChangeLists = Seq(Change), [ServiceNext]_vars
    PROVE  \/ UNCHANGED tables
           \/ \E account \in Accounts, actor \in Actors : IsRuledWrite(account, actor)
           \/ \E account \in Accounts : ForgetSettings(account)
           \/ \E key \in Keys : Sweep(key)
<1>1. CASE Reads
  BY <1>1 DEF Reads, Read, ExportSettings
<1>2. CASE Redeploy
  BY <1>2 DEF Redeploy
<1>3. CASE UNCHANGED vars
  BY <1>3 DEF vars, tables
<1> QED
  BY <1>1, <1>2, <1>3, ServiceCases

LEMMA ServiceStep ==
    ASSUME ServiceTypeOK, ChangeLists = Seq(Change), [ServiceNext]_vars
    PROVE  [Next]_tables
<1>1. CASE \E account \in Accounts, actor \in Actors : IsRuledWrite(account, actor)
  BY <1>1, RuledIsApply DEF Next
<1>2. CASE \E account \in Accounts : ForgetSettings(account)
  BY <1>2 DEF ForgetSettings, Next
<1>3. CASE \E key \in Keys : Sweep(key)
  BY <1>3 DEF Sweep, Next
<1> QED
  BY <1>1, <1>2, <1>3, ServiceSteps
-----------------------------------------------------------------------------
(* The types of the service's own state.                                   *)

(* What a read resolves to has the fields of Resolved, and its value is    *)
(* one a setting may hold: a pin, a row or a default.                      *)
LEMMA ResolveTyped ==
    ASSUME ServiceTypeOK, NEW account \in Accounts, NEW key \in Keys,
           NEW profile \in ProfileArguments
    PROVE  Resolve(account, profile, key) \in Resolved
<1>1. StoredFor(account, profile, key) \in Values \cup {Unset}
  <2>1. CASE StorageProfile(key, profile) = NoProfile
    BY <2>1 DEF StoredFor
  <2>2. CASE StorageProfile(key, profile) # NoProfile
    <3>1. <<StorageProfile(key, profile), key>> \in RowKeys
      BY <2>2, ColumnTyped DEF RowKeys
    <3>2. rows[account] \in [RowKeys -> Values \cup {Unset}]
      BY DEF ServiceTypeOK, TypeOK
    <3> QED
      BY <2>2, <3>1, <3>2 DEF StoredFor
  <2> QED
    BY <2>1, <2>2
<1>2. deployment.default[key] \in Values /\ deployment.pin[key] \in Values \cup {NotPinned}
  BY DeploymentsAssumption DEF ServiceTypeOK
<1> DEFINE stored == StoredFor(account, profile, key)
           pinned == deployment.pin[key] # NotPinned
           value  == IF pinned THEN deployment.pin[key]
                     ELSE IF stored # Unset THEN stored ELSE deployment.default[key]
           source == IF pinned THEN "policy"
                     ELSE IF stored # Unset THEN "account"
                     ELSE IF deployment.default[key] # deployment.catalogueDefault[key]
                          THEN "policy" ELSE "default"
<1>3. value \in Values /\ source \in {"policy", "account", "default"}
  BY <1>1, <1>2
<1>4. Resolve(account, profile, key) =
        [value |-> value, source |-> source, setByAccount |-> stored # Unset, pinned |-> pinned]
  BY DEF Resolve
<1> HIDE DEF value, source
<1> QED
  BY <1>3, <1>4 DEF Resolved

LEMMA ReadTyped ==
    ASSUME ServiceTypeOK, NEW account \in Accounts, NEW actor \in Actors,
           NEW view \in SUBSET Namespaces, NEW profile \in ProfileArguments,
           Read(account, actor, view, profile)
    PROVE  paper' \in DocumentPaper
<1> DEFINE D == Shown(actor, view)
           document == DocumentOf(account, actor, view, profile)
<1>1. D \in SUBSET Keys
  BY DeploymentsAssumption DEF ServiceTypeOK, Shown
<1>2. document \in [D -> Resolved]
  BY <1>1, ResolveTyped DEF DocumentOf
<1>3. document \in UNION {[E -> Resolved] : E \in SUBSET Keys}
  BY <1>1, <1>2
<1>4. revision[account] \in Nat
  BY DEF ServiceTypeOK, TypeOK
<1> HIDE DEF D, document
<1>5. paper' = [kind |-> "document", account |-> account, actor |-> actor, view |-> view,
                profile |-> profile, revision |-> revision[account], document |-> document,
                forgotten |-> FALSE, redeployed |-> FALSE]
  BY DEF Read, document
<1> QED
  BY <1>3, <1>4, <1>5 DEF DocumentPaper

LEMMA ExportTyped ==
    ASSUME ServiceTypeOK, NEW account \in Accounts, NEW actor \in Actors,
           ExportSettings(account, actor)
    PROVE  paper' \in BackupPaper
<1> DEFINE D == ExportedRows(account, actor)
           document == Export(account, actor)
<1>1. D \in SUBSET RowKeys
  BY DEF ExportedRows
<1>2. rows[account] \in [RowKeys -> Values \cup {Unset}] /\ revision[account] \in Nat
  BY DEF ServiceTypeOK, TypeOK
<1>3. \A row \in D : rows[account][row] \in Values
  BY <1>2 DEF ExportedRows
<1>4. document \in [D -> Values]
  BY <1>3 DEF Export
<1>5. document \in UNION {[E -> Values] : E \in SUBSET RowKeys}
  BY <1>1, <1>4
<1> HIDE DEF D, document
<1>6. paper' = [kind |-> "backup", account |-> account, actor |-> actor,
                revision |-> revision[account], document |-> document,
                forgotten |-> FALSE, redeployed |-> FALSE]
  BY DEF ExportSettings, document
<1> QED
  BY <1>2, <1>5, <1>6 DEF BackupPaper

(* A paper keeps its type when it is marked.                               *)
LEMMA MarkedPaperTyped ==
    ASSUME paper \in {NoPaper} \cup DocumentPaper \cup BackupPaper, paper # NoPaper
    PROVE  /\ [paper EXCEPT !.forgotten = TRUE] \in DocumentPaper \cup BackupPaper
           /\ [paper EXCEPT !.redeployed = TRUE] \in DocumentPaper \cup BackupPaper
<1>1. CASE paper \in DocumentPaper
  BY <1>1 DEF DocumentPaper
<1>2. CASE paper \in BackupPaper
  BY <1>2 DEF BackupPaper
<1> QED
  BY <1>1, <1>2

LEMMA PaperStep ==
    ASSUME ServiceTypeOK, [ServiceNext]_vars
    PROVE  /\ deployment' \in Deployments
           /\ paper' \in {NoPaper} \cup DocumentPaper \cup BackupPaper
<1> DEFINE Kept == UNCHANGED <<deployment, paper>>
<1>0. Kept => /\ deployment' \in Deployments
              /\ paper' \in {NoPaper} \cup DocumentPaper \cup BackupPaper
  BY DEF ServiceTypeOK
<1>1. CASE Reads
  <2>1. PICK account \in Accounts, actor \in Actors :
          \/ \E view \in SUBSET Namespaces, profile \in ProfileArguments :
                 Read(account, actor, view, profile)
          \/ ExportSettings(account, actor)
    BY <1>1 DEF Reads
  <2>2. deployment' = deployment
    BY <2>1 DEF Read, ExportSettings
  <2> QED
    BY <2>1, <2>2, ReadTyped, ExportTyped DEF ServiceTypeOK
<1>2. CASE Writes
  <2>1. Kept
    BY <1>2 DEF Writes, SetSetting, Update, ImportDocument, ImportLegacy, RestoreBackup, Write
  <2> QED
    BY <2>1, <1>0
<1>3. CASE Resets
  <2>1. Kept
    BY <1>3 DEF Resets, ResetSetting, ResetNamespace, Write
  <2> QED
    BY <2>1, <1>0
<1>4. CASE \E account \in Accounts : ForgetSettings(account)
  <2>1. PICK account \in Accounts : ForgetSettings(account)
    BY <1>4
  <2>2. deployment' = deployment
    BY <2>1 DEF ForgetSettings
  <2>3. paper' = paper \/ (paper # NoPaper /\ paper' = [paper EXCEPT !.forgotten = TRUE])
    BY <2>1 DEF ForgetSettings
  <2> QED
    BY <2>2, <2>3, MarkedPaperTyped DEF ServiceTypeOK
<1>5. CASE \E key \in Keys : Sweep(key)
  BY <1>0, <1>5 DEF Sweep
<1>6. CASE Redeploy
  <2>1. deployment' \in Deployments
    BY <1>6 DEF Redeploy
  <2>2. paper' = paper \/ (paper # NoPaper /\ paper' = [paper EXCEPT !.redeployed = TRUE])
    BY <1>6 DEF Redeploy
  <2> QED
    BY <2>1, <2>2, MarkedPaperTyped DEF ServiceTypeOK
<1>7. CASE UNCHANGED vars
  BY <1>0, <1>7 DEF vars
<1> QED
  BY <1>1, <1>2, <1>3, <1>4, <1>5, <1>6, <1>7 DEF ServiceNext

(* Type correctness of the service, whatever the catalogue, the policies,  *)
(* the callers and their grants.                                           *)
THEOREM ServiceTypeCorrect ==
    ASSUME ChangeLists = Seq(Change)
    PROVE  ServiceSpec => []ServiceTypeOK
<1>1. ServiceInit => ServiceTypeOK
  BY InitTypeOK DEF ServiceInit, ServiceTypeOK
<1>2. ServiceTypeOK /\ [ServiceNext]_vars => ServiceTypeOK'
  <2> SUFFICES ASSUME ServiceTypeOK, [ServiceNext]_vars PROVE ServiceTypeOK'
    OBVIOUS
  <2>1. TypeOK'
    BY ServiceStep, NextTypeOK DEF ServiceTypeOK
  <2> QED
    BY <2>1, PaperStep DEF ServiceTypeOK
<1> QED
  BY <1>1, <1>2, PTL DEF ServiceSpec

(* The service implements the store: every behaviour of the service is, on *)
(* the tables, a behaviour of the store.  Validation, resolution, restarts *)
(* and what callers keep add nothing the store did not allow.              *)
THEOREM ServiceImplementsStore ==
    ASSUME ChangeLists = Seq(Change)
    PROVE  ServiceSpec => Spec
<1>1. ServiceInit => Init
  BY DEF ServiceInit
<1>2. ServiceTypeOK /\ [ServiceNext]_vars => [Next]_tables
  BY ServiceStep
<1> QED
  BY <1>1, <1>2, ServiceTypeCorrect, PTL DEF ServiceSpec, Spec

(* What is proved of the store holds under the service.                    *)
THEOREM ServiceKeepsTheTables ==
    ASSUME ChangeLists = Seq(Change)
    PROVE  ServiceSpec => /\ [](RowsBelongToAccounts /\ ProfilesStayCapped /\ LogStaysCapped)
                          /\ [](NewestEventCarriesTheRevision /\ HistoryHasNoGaps)
                          /\ EveryChangeIsRecorded /\ RevisionMovesWithTheRows
                          /\ PagesNeitherSkipNorRepeat
BY ServiceImplementsStore, RowsAlwaysBelong, ProfilesAlwaysCapped, LogAlwaysCapped,
   NewestEventAlwaysCarriesTheRevision, HistoryNeverHasGaps, EveryChangeIsAlwaysRecorded,
   RevisionAlwaysMovesWithTheRows, PagesNeverSkipNorRepeat, PTL

LEMMA AlwaysServiceSound ==
    ASSUME ChangeLists = Seq(Change)
    PROVE  ServiceSpec => [](ServiceTypeOK /\ Sound)
BY ServiceTypeCorrect, ServiceImplementsStore, AlwaysStoreSound, PTL
-----------------------------------------------------------------------------
(* What a ruled write does to the rows.                                    *)

LEMMA RuledRows ==
    ASSUME ServiceTypeOK, ChangeLists = Seq(Change), NEW account \in Accounts,
           NEW actor, NEW action \in WriteActions, NEW entries,
           Ruled(account, actor, action, entries)
    PROVE  /\ \A a \in Accounts \ {account} : rows'[a] = rows[a] /\ revision'[a] = revision[a]
           /\ rows'[account] = RowsAfter(rows[account], ChangesFor(entries))
           /\ revision'[account] = revision[account] => rows'[account] = rows[account]
           /\ revision'[account] \in {revision[account], revision[account] + 1}
           /\ UNCHANGED <<deployment, paper>>
<1> DEFINE changes == ChangesFor(entries)
<1>1. /\ rows \in [Accounts -> StoredRows] /\ revision \in [Accounts -> Nat]
      /\ changes \in ChangeLists
  BY DEF ServiceTypeOK, TypeOK, StoredRows, Ruled
<1>2. PICK ifRevision : Apply(account, changes, action, actor, ifRevision)
  BY DEF Ruled, Write
<1>3. UNCHANGED <<deployment, paper>>
  BY DEF Ruled, Write
<1> HIDE DEF changes
<1>4. CASE RealChanges(rows[account], changes) = {} /\ UNCHANGED <<revision, rows>>
  <2>1. \A row \in RowKeys : RowAfter({}, rows[account], changes, row) = rows[account][row]
    BY DEF RowAfter
  <2>2. RowsAfter(rows[account], changes) = rows[account]
    BY <1>1, <1>4, <2>1 DEF RowsAfter, StoredRows
  <2> QED
    BY <1>3, <1>4, <2>2 DEF changes
<1>5. CASE /\ rows' = [rows EXCEPT ![account] = RowsAfter(rows[account], changes)]
           /\ revision' = [revision EXCEPT ![account] = @ + 1]
  <2>1. revision'[account] = revision[account] + 1 /\ revision[account] \in Nat
    BY <1>1, <1>5
  <2>2. rows'[account] = RowsAfter(rows[account], changes)
    BY <1>1, <1>5
  <2>3. \A a \in Accounts \ {account} : rows'[a] = rows[a] /\ revision'[a] = revision[a]
    BY <1>1, <1>5
  <2> QED
    BY <1>3, <2>1, <2>2, <2>3 DEF changes
<1> QED
  BY <1>2, <1>4, <1>5 DEF Apply

(* A row that changed was written by one of the entries.                   *)
LEMMA RuledRow ==
    ASSUME ServiceTypeOK, ChangeLists = Seq(Change), NEW account \in Accounts,
           NEW actor \in Actors, NEW action \in WriteActions, NEW entries,
           Ruled(account, actor, action, entries),
           NEW a \in Accounts, NEW row \in RowKeys, rows'[a][row] # rows[a][row]
    PROVE  \E i \in DOMAIN entries :
               /\ a = account
               /\ RuledEntry(actor, entries[i])
               /\ row = <<StorageProfile(entries[i].key, entries[i].profile), entries[i].key>>
               /\ rows'[a][row] = entries[i].value
<1> DEFINE changes == ChangesFor(entries)
<1>1. rows[account] \in StoredRows /\ changes \in ChangeLists
  BY DEF ServiceTypeOK, TypeOK, StoredRows, Ruled
<1>2. a = account /\ rows'[a] = RowsAfter(rows[a], changes)
  BY RuledRows
<1>3. rows'[a][row] = RowAfter(RealChanges(rows[a], changes), rows[a], changes, row)
  BY <1>2 DEF RowsAfter
<1>4. DOMAIN changes = DOMAIN entries
      /\ \A i \in DOMAIN entries :
             /\ changes[i].row = <<StorageProfile(entries[i].key, entries[i].profile), entries[i].key>>
             /\ changes[i].value = entries[i].value
  BY DEF ChangesFor
<1> HIDE DEF changes
<1>5. PICK i \in DOMAIN changes :
          changes[i].row = row
          /\ RowAfter(RealChanges(rows[a], changes), rows[a], changes, row) = changes[i].value
  BY <1>1, <1>2, <1>3, RowAfterIsStoredOrWritten
<1> QED
  BY <1>2, <1>3, <1>4, <1>5 DEF Ruled

(* The column an entry is written to is the one its scope names.           *)
LEMMA RuledColumn ==
    ASSUME NEW actor, NEW entry, RuledEntry(actor, entry)
    PROVE  (StorageProfile(entry.key, entry.profile) = ACCOUNT_PROFILE)
               <=> deployment.scope[entry.key] = "account"
<1>1. entry.profile \in ProfileArguments \ {ACCOUNT_PROFILE}
  BY SentinelAssumption, CallersAssumption DEF RuledEntry, ProfileArguments
<1> QED
  BY <1>1 DEF StorageProfile
-----------------------------------------------------------------------------
(* Every path that stores a value holds it to the same rules.              *)

ObeysAt(a, row) ==
    (rows'[a][row] # rows[a][row] /\ rows'[a][row] # Unset) =>
        /\ row[2] \in deployment.live
        /\ deployment.pin[row[2]] = NotPinned
        /\ rows'[a][row] \in deployment.allowed[row[2]]
        /\ (row[1] = ACCOUNT_PROFILE) = (deployment.scope[row[2]] = "account")

LEMMA ObeysStep ==
    ASSUME ServiceTypeOK, ChangeLists = Seq(Change), [ServiceNext]_vars,
           NEW a \in Accounts, NEW row \in RowKeys
    PROVE  ObeysAt(a, row)
<1>1. rows[a] \in [RowKeys -> Values \cup {Unset}]
  BY DEF ServiceTypeOK, TypeOK
<1>2. CASE UNCHANGED tables
  BY <1>2 DEF tables, ObeysAt
<1>3. ASSUME NEW account \in Accounts, NEW actor \in Actors, IsRuledWrite(account, actor)
      PROVE  ObeysAt(a, row)
  <2> SUFFICES ASSUME rows'[a][row] # rows[a][row], rows'[a][row] # Unset
               PROVE  /\ row[2] \in deployment.live
                      /\ deployment.pin[row[2]] = NotPinned
                      /\ rows'[a][row] \in deployment.allowed[row[2]]
                      /\ (row[1] = ACCOUNT_PROFILE) = (deployment.scope[row[2]] = "account")
    BY DEF ObeysAt
  <2>0. PICK action \in WriteActions : \E entries : Ruled(account, actor, action, entries)
    BY <1>3 DEF IsRuledWrite
  <2>1. PICK entries : Ruled(account, actor, action, entries)
    BY <2>0
  <2>2. PICK i \in DOMAIN entries :
            /\ RuledEntry(actor, entries[i])
            /\ row = <<StorageProfile(entries[i].key, entries[i].profile), entries[i].key>>
            /\ rows'[a][row] = entries[i].value
    BY <2>1, RuledRow
  <2>3. row[2] = entries[i].key /\ row[1] = StorageProfile(entries[i].key, entries[i].profile)
    BY <2>2
  <2>4. row[2] \in deployment.live /\ deployment.pin[row[2]] = NotPinned
    BY <2>2, <2>3 DEF RuledEntry, MayWrite
  <2>5. rows'[a][row] \in deployment.allowed[row[2]]
    BY <2>2, <2>3 DEF RuledEntry
  <2>6. (row[1] = ACCOUNT_PROFILE) = (deployment.scope[row[2]] = "account")
    BY <2>2, <2>3, RuledColumn
  <2> QED
    BY <2>4, <2>5, <2>6
<1>4. ASSUME NEW account \in Accounts, ForgetSettings(account)
      PROVE  ObeysAt(a, row)
  BY <1>1, <1>4 DEF ForgetSettings, Forget, ServiceTypeOK, TypeOK, ObeysAt
<1>5. ASSUME NEW key \in Keys, Sweep(key)
      PROVE  ObeysAt(a, row)
  BY <1>1, <1>5 DEF Sweep, PurgeSetting, ObeysAt
<1> QED
  BY <1>2, <1>3, <1>4, <1>5, ServiceSteps

(* set, update, both imports and a restored backup store only what the     *)
(* deployment accepts, in the column a read looks at                       *)
(* (EveryWritePathObeysTheDeployment).                                     *)
THEOREM EveryWritePathAlwaysObeys ==
    ASSUME ChangeLists = Seq(Change)
    PROVE  ServiceSpec => EveryWritePathObeysTheDeployment
<1>1. ServiceTypeOK /\ [ServiceNext]_vars =>
        [\A a \in Accounts : \A row \in RowKeys :
            (rows'[a][row] # rows[a][row] /\ rows'[a][row] # Unset) =>
                /\ row[2] \in deployment.live
                /\ deployment.pin[row[2]] = NotPinned
                /\ rows'[a][row] \in deployment.allowed[row[2]]
                /\ (row[1] = ACCOUNT_PROFILE) = (deployment.scope[row[2]] = "account")
          ]_vars
  BY ObeysStep DEF ObeysAt
<1> QED
  BY <1>1, ServiceTypeCorrect, PTL DEF ServiceSpec, EveryWritePathObeysTheDeployment
-----------------------------------------------------------------------------
(* Pins and retirements hide choices and destroy none.                     *)

LEMMA SurvivalStep ==
    ASSUME ServiceTypeOK, Sound, ChangeLists = Seq(Change), [ServiceNext]_vars,
           NEW a \in Accounts, NEW row \in RowKeys,
           rows'[a][row] # rows[a][row], ~ Forgotten(a)
    PROVE  IF row[2] \in deployment.live
           THEN deployment.pin[row[2]] = NotPinned
           ELSE \E e \in events' \ events : e.action = PURGE_RETIRED /\ e.account = a
<1>1. rows[a] \in [RowKeys -> Values \cup {Unset}]
  BY DEF ServiceTypeOK, TypeOK
<1>2. CASE UNCHANGED tables
  BY <1>2 DEF tables
<1>3. ASSUME NEW account \in Accounts, NEW actor \in Actors, IsRuledWrite(account, actor)
      PROVE  row[2] \in deployment.live /\ deployment.pin[row[2]] = NotPinned
  <2>0. PICK action \in WriteActions : \E entries : Ruled(account, actor, action, entries)
    BY <1>3 DEF IsRuledWrite
  <2>1. PICK entries : Ruled(account, actor, action, entries)
    BY <2>0
  <2>2. PICK i \in DOMAIN entries :
            /\ RuledEntry(actor, entries[i])
            /\ row = <<StorageProfile(entries[i].key, entries[i].profile), entries[i].key>>
    BY <2>1, RuledRow
  <2> QED
    BY <2>2 DEF RuledEntry, MayWrite
<1>4. ASSUME NEW account \in Accounts, ForgetSettings(account)
      PROVE  FALSE
  <2>1. a = account /\ a \notin accounts' /\ rows'[a][row] = Unset
    BY <1>1, <1>4 DEF ForgetSettings, Forget, ServiceTypeOK, TypeOK
  <2>2. a \in accounts
    BY <2>1 DEF Sound, RowsBelongToAccounts
  <2> QED
    BY <2>1, <2>2 DEF Forgotten
<1>5. ASSUME NEW key \in Keys, Sweep(key)
      PROVE  /\ row[2] \notin deployment.live
             /\ \E e \in events' \ events : e.action = PURGE_RETIRED /\ e.account = a
  <2>1. PurgeSetting(key) /\ key \notin deployment.live
    BY <1>5 DEF Sweep
  <2>2. rows'[a] = [r \in RowKeys |-> IF r[2] = key THEN Unset ELSE rows[a][r]]
    BY <2>1 DEF PurgeSetting
  <2>3. row[2] = key /\ rows[a][row] # Unset
    BY <1>1, <2>2
  <2>4. <<a, row>> \in AffectedRows(key)
    BY <2>3 DEF AffectedRows
  <2>5. PICK position \in Numberings(AffectedRows(key)) :
            Grown({Purged(key, position, ar) : ar \in AffectedRows(key)},
                  {ar[1] : ar \in AffectedRows(key)})
    BY <2>1, PurgeGrows DEF Sound
  <2> DEFINE new == {Purged(key, position, ar) : ar \in AffectedRows(key)}
             appendedTo == {ar[1] : ar \in AffectedRows(key)}
             w == Purged(key, position, <<a, row>>)
  <2>6. w \in new /\ w.account = a
    BY <2>4 DEF Purged
  <2>7. \A e \in new : e.action = PURGE_RETIRED
    BY DEF Purged
  <2>8. Grown(new, appendedTo)
    BY <2>5
  <2> HIDE DEF new, appendedTo, w
  <2>9. PICK e \in EventsOf(events', a) : e \in new /\ e \notin events
    BY <2>6, <2>8, NewestIsNew
  <2>10. e \in events' \ events /\ e.account = a
    BY <2>9 DEF EventsOf
  <2> QED
    BY <2>1, <2>3, <2>7, <2>9, <2>10
<1> QED
  BY <1>2, <1>3, <1>4, <1>5, ServiceSteps

(* Only an erasure destroys a hidden choice, and the sweeper that of a     *)
(* retired key, and then the history says so (HiddenChoicesSurvive).       *)
THEOREM HiddenChoicesAlwaysSurvive ==
    ASSUME ChangeLists = Seq(Change)
    PROVE  ServiceSpec => HiddenChoicesSurvive
<1>1. ServiceTypeOK /\ Sound /\ [ServiceNext]_vars =>
        [\A a \in Accounts : \A row \in RowKeys :
            (rows'[a][row] # rows[a][row] /\ ~Forgotten(a)) =>
                IF row[2] \in deployment.live
                THEN deployment.pin[row[2]] = NotPinned
                ELSE \E e \in events' \ events : e.action = PURGE_RETIRED /\ e.account = a
          ]_vars
  BY SurvivalStep
<1> QED
  BY <1>1, AlwaysServiceSound, PTL DEF ServiceSpec, HiddenChoicesSurvive
-----------------------------------------------------------------------------
(* Everybody stays in their compartment.                                   *)

InCompartment(e) ==
    e.actor \in Actors =>
        /\ \A key \in e.changed : NamespaceOf[key] \in Granted(e.actor)
        /\ e.actor \in Services => e.action = "set" /\ e.changed \cap OwnerOnly = {}

(* The record of a ruled write names keys of its entries, and no others.   *)
LEMMA RuledRecord ==
    ASSUME NEW account, NEW actor, NEW action, NEW entries,
           Ruled(account, actor, action, entries)
    PROVE  InCompartment(Written(account, ChangesFor(entries), action, actor))
<1> DEFINE e == Written(account, ChangesFor(entries), action, actor)
<1>1. ASSUME NEW key \in e.changed
      PROVE  /\ NamespaceOf[key] \in Granted(actor)
             /\ actor \in Services => key \notin OwnerOnly
  <2>1. PICK i \in DOMAIN entries : key = entries[i].key
    BY DEF Written, ChangedKeys, RealChanges, ChangesFor
  <2>2. RuledEntry(actor, entries[i])
    BY DEF Ruled
  <2> QED
    BY <2>1, <2>2 DEF RuledEntry, MayWrite
<1>2. e.actor = actor /\ e.action = action
  BY DEF Written
<1>3. actor \in Services => action = "set"
  BY DEF Ruled
<1> HIDE DEF e
<1>4. InCompartment(e)
  BY <1>1, <1>2, <1>3 DEF InCompartment
<1> QED
  BY <1>4 DEF e

LEMMA CompartmentStep ==
    ASSUME ServiceTypeOK, ChangeLists = Seq(Change), [ServiceNext]_vars,
           \A e \in events : InCompartment(e), NEW e \in events'
    PROVE  InCompartment(e)
<1>1. CASE UNCHANGED tables
  BY <1>1 DEF tables
<1>2. ASSUME NEW account \in Accounts, NEW actor \in Actors, IsRuledWrite(account, actor)
      PROVE  InCompartment(e)
  <2>0. PICK action \in WriteActions : \E entries : Ruled(account, actor, action, entries)
    BY <1>2 DEF IsRuledWrite
  <2>1. PICK entries : Ruled(account, actor, action, entries)
    BY <2>0
  <2>2. PICK ifRevision : Apply(account, ChangesFor(entries), action, actor, ifRevision)
    BY <2>1 DEF Ruled, Write
  <2>3. events' \subseteq events \cup {Written(account, ChangesFor(entries), action, actor)}
    BY <2>2 DEF Apply, AppendEvent, Trim, Written
  <2> QED
    BY <2>1, <2>3, RuledRecord
<1>3. ASSUME NEW account \in Accounts, ForgetSettings(account)
      PROVE  InCompartment(e)
  BY <1>3 DEF ForgetSettings, Forget
<1>4. ASSUME NEW key \in Keys, Sweep(key)
      PROVE  InCompartment(e)
  <2>1. PICK position :
            events' = Trim(events \cup {Purged(key, position, ar) : ar \in AffectedRows(key)},
                           {ar[1] : ar \in AffectedRows(key)})
    BY <1>4 DEF Sweep, PurgeSetting, Purged
  <2>2. e \in events \/ \E ar \in AffectedRows(key) : e = Purged(key, position, ar)
    BY <2>1 DEF Trim
  <2>3. \A ar \in AffectedRows(key) : Purged(key, position, ar).actor \notin Actors
    BY ActorsAssumption DEF Purged
  <2> QED
    BY <2>2, <2>3 DEF InCompartment
<1> QED
  BY <1>1, <1>2, <1>3, <1>4, ServiceSteps

(* Whatever the grants, the pins and the documents handed in, the history  *)
(* shows nobody outside the namespaces their token names, and no service   *)
(* changing what only the owner may (EverybodyStaysInTheirCompartment).    *)
THEOREM EverybodyAlwaysStaysInTheirCompartment ==
    ASSUME ChangeLists = Seq(Change)
    PROVE  ServiceSpec => []EverybodyStaysInTheirCompartment
<1>1. ServiceInit => EverybodyStaysInTheirCompartment
  BY DEF ServiceInit, Init, EverybodyStaysInTheirCompartment
<1>2. ServiceTypeOK /\ EverybodyStaysInTheirCompartment /\ [ServiceNext]_vars
          => EverybodyStaysInTheirCompartment'
  <2> SUFFICES ASSUME ServiceTypeOK, \A e \in events : InCompartment(e), [ServiceNext]_vars
               PROVE  \A e \in events' : InCompartment(e)
    BY DEF EverybodyStaysInTheirCompartment, InCompartment, Granted
  <2> QED
    BY CompartmentStep
<1> QED
  BY <1>1, <1>2, ServiceTypeCorrect, PTL DEF ServiceSpec
-----------------------------------------------------------------------------
(* An ETag names its document.                                             *)

Current == Reader(paper) /\ ~paper.forgotten /\ ~paper.redeployed

(* The inductive part: a revision never runs behind an ETag that was given *)
(* for it, so one that has moved on does not come back.                    *)
EtagKept ==
    Current => /\ paper.revision <= revision[paper.account]
               /\ Unmoved => StillReads

(* A document shows live keys only, each from one row.                     *)
LEMMA SameReading ==
    ASSUME ServiceTypeOK, NEW a \in Accounts, NEW actor, NEW view,
           NEW profile \in ProfileArguments, deployment' = deployment,
           \A row \in RowKeys : row[2] \in deployment.live => rows'[a][row] = rows[a][row]
    PROVE  DocumentOf(a, actor, view, profile)' = DocumentOf(a, actor, view, profile)
<1>1. deployment.live \subseteq Keys
  BY DeploymentsAssumption DEF ServiceTypeOK
<1>2. \A key : StorageProfile(key, profile)' = StorageProfile(key, profile)
  BY DEF StorageProfile
<1>3. ASSUME NEW key \in deployment.live
      PROVE  StoredFor(a, profile, key)' = StoredFor(a, profile, key)
  <2>1. CASE StorageProfile(key, profile) = NoProfile
    BY <1>2, <2>1 DEF StoredFor
  <2>2. CASE StorageProfile(key, profile) # NoProfile
    <3>1. <<StorageProfile(key, profile), key>> \in RowKeys
      BY <1>1, <2>2, ColumnTyped DEF RowKeys
    <3> QED
      BY <1>2, <2>2, <3>1 DEF StoredFor
  <2> QED
    BY <2>1, <2>2
<1>4. \A key \in deployment.live : Resolve(a, profile, key)' = Resolve(a, profile, key)
  BY <1>3 DEF Resolve
<1>5. Shown(actor, view)' = Shown(actor, view) /\ Shown(actor, view) \subseteq deployment.live
  BY DEF Shown, Overlaid
<1> QED
  BY <1>4, <1>5 DEF DocumentOf

(* A step that keeps the paper and the deployment, moves the revision up   *)
(* or not at all, and when not at all keeps the live rows.                 *)
LEMMA KeptPaper ==
    ASSUME ServiceTypeOK, EtagKept, UNCHANGED <<deployment, paper>>,
           Current => /\ revision'[paper.account] \in {revision[paper.account],
                                                       revision[paper.account] + 1}
                      /\ revision'[paper.account] = revision[paper.account] =>
                             \A row \in RowKeys : row[2] \in deployment.live =>
                                 rows'[paper.account][row] = rows[paper.account][row]
    PROVE  EtagKept'
<1> SUFFICES ASSUME Current'
             PROVE  /\ paper.revision <= revision'[paper.account]
                    /\ revision'[paper.account] = paper.revision =>
                           DocumentOf(paper.account, paper.actor, paper.view,
                                      paper.profile)' = paper.document
  BY DEF EtagKept, Unmoved, StillReads
<1>1. Current /\ paper \in DocumentPaper
  <2>1. Current
    BY DEF Current, Reader
  <2>2. paper.kind = "document" /\ paper # NoPaper
    BY <2>1 DEF Current, Reader
  <2>3. paper \notin BackupPaper
    BY <2>2 DEF BackupPaper
  <2> QED
    BY <2>1, <2>2, <2>3 DEF ServiceTypeOK
<1>2. /\ paper.account \in Accounts /\ paper.actor \in Actors
      /\ paper.view \in SUBSET Namespaces
      /\ paper.profile \in ProfileArguments /\ paper.revision \in Nat
  BY <1>1 DEF DocumentPaper
<1>3. revision[paper.account] \in Nat /\ paper.revision <= revision[paper.account]
  BY <1>1, <1>2 DEF EtagKept, ServiceTypeOK, TypeOK
<1>4. paper.revision <= revision'[paper.account]
  BY <1>1, <1>2, <1>3
<1>5. ASSUME revision'[paper.account] = paper.revision
      PROVE  DocumentOf(paper.account, paper.actor, paper.view, paper.profile)' = paper.document
  <2>1. revision'[paper.account] = revision[paper.account]
    BY <1>1, <1>2, <1>3, <1>5
  <2>2. DocumentOf(paper.account, paper.actor, paper.view, paper.profile) = paper.document
    BY <1>1, <1>5, <2>1 DEF EtagKept, Unmoved, StillReads
  <2>3. \A row \in RowKeys : row[2] \in deployment.live =>
            rows'[paper.account][row] = rows[paper.account][row]
    BY <1>1, <2>1
  <2>4. PICK a \in Accounts, actor \in Actors, view \in SUBSET Namespaces,
             profile \in ProfileArguments :
            /\ a = paper.account /\ actor = paper.actor
            /\ view = paper.view /\ profile = paper.profile
    BY <1>2
  <2>5. DocumentOf(a, actor, view, profile)' = DocumentOf(a, actor, view, profile)
    BY <2>3, <2>4, SameReading
  <2> QED
    BY <2>2, <2>4, <2>5
<1> QED
  BY <1>4, <1>5

LEMMA EtagStep ==
    ASSUME ServiceTypeOK, Sound, ChangeLists = Seq(Change), EtagKept, [ServiceNext]_vars
    PROVE  EtagKept'
<1>1. CASE Reads
  <2>1. PICK account \in Accounts, actor \in Actors :
          \/ \E view \in SUBSET Namespaces, profile \in ProfileArguments :
                 Read(account, actor, view, profile)
          \/ ExportSettings(account, actor)
    BY <1>1 DEF Reads
  <2>2. ASSUME NEW view \in SUBSET Namespaces, NEW profile \in ProfileArguments,
               Read(account, actor, view, profile)
        PROVE  EtagKept'
    <3> DEFINE document == DocumentOf(account, actor, view, profile)
    <3>1. UNCHANGED <<tables, deployment>>
      BY <2>2 DEF Read
    <3>2. DocumentOf(account, actor, view, profile)' = document
      BY <3>1, SameReading DEF tables
    <3>3. /\ paper'.account = account /\ paper'.actor = actor
          /\ paper'.view = view /\ paper'.profile = profile
          /\ paper'.revision = revision[account] /\ paper'.document = document
      <4> HIDE DEF document
      <4>1. paper' = [kind |-> "document", account |-> account, actor |-> actor, view |-> view,
                      profile |-> profile, revision |-> revision[account],
                      document |-> document, forgotten |-> FALSE, redeployed |-> FALSE]
        BY <2>2 DEF Read, document
      <4> QED
        BY <4>1
    <3>4. revision' = revision /\ revision[account] \in Nat
      BY <3>1 DEF tables, ServiceTypeOK, TypeOK
    <3>5. StillReads'
      BY <3>2, <3>3 DEF StillReads
    <3>6. paper'.revision <= revision'[paper'.account]
      BY <3>3, <3>4
    <3> QED
      BY <3>5, <3>6 DEF EtagKept
  <2>3. CASE ExportSettings(account, actor)
    <3>1. paper'.kind = "backup"
      BY <2>3 DEF ExportSettings
    <3> QED
      BY <3>1 DEF EtagKept, Current, Reader
  <2> QED
    BY <2>1, <2>2, <2>3
<1>2. ASSUME NEW account \in Accounts, NEW actor \in Actors, IsRuledWrite(account, actor)
      PROVE  EtagKept'
  <2>0. PICK action \in WriteActions : \E entries : Ruled(account, actor, action, entries)
    BY <1>2 DEF IsRuledWrite
  <2>1. PICK entries : Ruled(account, actor, action, entries)
    BY <2>0
  <2>2. \A a \in Accounts : /\ revision'[a] \in {revision[a], revision[a] + 1}
                            /\ revision'[a] = revision[a] => rows'[a] = rows[a]
    BY <2>1, RuledRows
  <2>3. Current => paper.account \in Accounts
    BY DEF Current, Reader, ServiceTypeOK, DocumentPaper, BackupPaper
  <2> QED
    BY <2>1, <2>2, <2>3, RuledRows, KeptPaper
<1>3. ASSUME NEW account \in Accounts, ForgetSettings(account)
      PROVE  EtagKept'
  <2>1. CASE paper # NoPaper /\ paper.account = account
    <3>1. paper' = [paper EXCEPT !.forgotten = TRUE]
      BY <1>3, <2>1 DEF ForgetSettings
    <3>2. paper'.forgotten = TRUE
      BY <2>1, <3>1 DEF ServiceTypeOK, DocumentPaper, BackupPaper
    <3> QED
      BY <3>2 DEF EtagKept, Current
  <2>2. CASE ~ (paper # NoPaper /\ paper.account = account)
    <3>1. UNCHANGED <<deployment, paper>>
      BY <1>3, <2>2 DEF ForgetSettings
    <3>2. \A a \in Accounts \ {account} : revision'[a] = revision[a] /\ rows'[a] = rows[a]
      BY <1>3 DEF ForgetSettings, Forget, ServiceTypeOK, TypeOK
    <3>3. Current => paper.account \in Accounts \ {account}
      BY <2>2 DEF Current, Reader, ServiceTypeOK, DocumentPaper, BackupPaper
    <3> QED
      BY <3>1, <3>2, <3>3, KeptPaper
  <2> QED
    BY <2>1, <2>2
<1>4. ASSUME NEW key \in Keys, Sweep(key)
      PROVE  EtagKept'
  <2>1. /\ UNCHANGED <<deployment, paper>> /\ revision' = revision /\ key \notin deployment.live
        /\ rows' = [a \in Accounts |-> [r \in RowKeys |->
                        IF r[2] = key THEN Unset ELSE rows[a][r]]]
    BY <1>4 DEF Sweep, PurgeSetting
  <2>2. \A a \in Accounts : \A row \in RowKeys :
            row[2] \in deployment.live => rows'[a][row] = rows[a][row]
    BY <2>1
  <2>3. Current => paper.account \in Accounts
    BY DEF Current, Reader, ServiceTypeOK, DocumentPaper, BackupPaper
  <2> QED
    BY <2>1, <2>2, <2>3, KeptPaper
<1>5. CASE Redeploy
  <2>1. CASE paper = NoPaper
    BY <1>5, <2>1 DEF Redeploy, EtagKept, Current, Reader
  <2>2. CASE paper # NoPaper
    <3>1. paper' = [paper EXCEPT !.redeployed = TRUE]
      BY <1>5, <2>2 DEF Redeploy
    <3>2. paper'.redeployed = TRUE
      BY <2>2, <3>1 DEF ServiceTypeOK, DocumentPaper, BackupPaper
    <3> QED
      BY <3>2 DEF EtagKept, Current
  <2> QED
    BY <2>1, <2>2
<1>6. CASE UNCHANGED vars
  <2>1. UNCHANGED <<deployment, paper>> /\ revision' = revision /\ rows' = rows
    BY <1>6 DEF vars, tables
  <2> QED
    BY <2>1, KeptPaper
<1> QED
  BY <1>1, <1>2, <1>3, <1>4, <1>5, <1>6, ServiceCases

LEMMA AlwaysEtagKept ==
    ASSUME ChangeLists = Seq(Change)
    PROVE  ServiceSpec => []EtagKept
<1>1. ServiceInit => EtagKept
  BY DEF ServiceInit, EtagKept, Current, Reader
<1>2. ServiceTypeOK /\ Sound /\ EtagKept /\ [ServiceNext]_vars => EtagKept'
  BY EtagStep
<1> QED
  BY <1>1, <1>2, AlwaysServiceSound, PTL DEF ServiceSpec

(* Within one deployment and one life of the account, an ETag that is      *)
(* still current names the document it was given for                       *)
(* (EtagNamesItsDocument).                                                 *)
THEOREM EtagAlwaysNamesItsDocument ==
    ASSUME ChangeLists = Seq(Change)
    PROVE  ServiceSpec => []EtagNamesItsDocument
<1>1. EtagKept => EtagNamesItsDocument
  BY DEF EtagKept, Current, EtagNamesItsDocument
<1> QED
  BY <1>1, AlwaysEtagKept, PTL

(* A PUT with the ETag of a read goes through only over what was read: the *)
(* tag that is compared with the account's revision is one it can name     *)
(* (ConditionalWriteOverwritesNothingUnseen).                              *)
THEOREM ConditionalWriteNeverOverwritesUnseen ==
    ASSUME ChangeLists = Seq(Change)
    PROVE  ServiceSpec => ConditionalWriteOverwritesNothingUnseen
<1>1. ServiceTypeOK /\ EtagKept =>
        [(Reader(paper) /\ ~paper.forgotten /\ ~paper.redeployed /\ ~StillReads) =>
            \A document \in Documents, profile \in ProfileArguments :
                ~ (/\ AcceptsDocument(paper.actor, Under(profile, document))
                   /\ Apply(paper.account, ChangesFor(Under(profile, document)), "update",
                            paper.actor, paper.revision))]_vars
  <2> SUFFICES ASSUME ServiceTypeOK, EtagKept, Current, NEW changes,
                      Apply(paper.account, changes, "update", paper.actor, paper.revision)
               PROVE  StillReads
    BY DEF Current
  <2>1. paper.revision \in Nat
    BY DEF Current, Reader, ServiceTypeOK, DocumentPaper, BackupPaper
  <2>2. paper.revision \in {NoRevision, revision[paper.account]}
    BY DEF Apply, IfMatchHolds
  <2>3. Unmoved
    BY <2>1, <2>2, NoRevisionAssumption DEF Unmoved
  <2> QED
    BY <2>3 DEF EtagKept
<1> QED
  BY <1>1, ServiceTypeCorrect, AlwaysEtagKept, PTL
     DEF ServiceSpec, ConditionalWriteOverwritesNothingUnseen
-----------------------------------------------------------------------------
(* A backup brings back every choice in it.                                *)

(* Every element of a finite set is in the list SetToSeq makes of it.      *)
LEMMA EveryElementIsListed ==
    ASSUME NEW S, IsFiniteSet(S), NEW x \in S
    PROVE  \E i \in 1..Cardinality(S) : SetToSeq(S)[i] = x
<1> DEFINE n == Cardinality(S)
           f == SetToSeq(S)
<1>1. n \in Nat /\ ExistsBijection(1..n, S)
  BY FS_CardinalityType
<1>2. \E g \in [1..n -> S] : IsInjective(g)
  BY <1>1 DEF ExistsBijection, Bijection, Injection
<1>3. f \in [1..n -> S] /\ IsInjective(f)
  BY <1>2 DEF SetToSeq
<1>4. f \in Injection(1..n, S)
  BY <1>3 DEF Injection
<1>5. Cardinality(1..n) = n
  BY <1>1, FS_Interval
<1> HIDE DEF n, f
<1>6. f \in Surjection(1..n, S)
  BY <1>4, <1>5, FS_Injection DEF n
<1> QED
  BY <1>6 DEF Surjection, n, f

(* A row that a list names ends with the value of one of its changes.      *)
LEMMA NamedRow ==
    ASSUME NEW stored \in StoredRows, NEW changes \in ChangeLists, NEW row \in RowKeys,
           NEW i \in DOMAIN changes, changes[i].row = row
    PROVE  \E j \in DOMAIN changes : /\ changes[j].row = row
                                     /\ RowsAfter(stored, changes)[row] = changes[j].value
<1> DEFINE writes == {j \in RealChanges(stored, changes) : changes[j].row = row}
           last   == CHOOSE j \in writes : \A k \in writes : k <= j
<1>1. RowsAfter(stored, changes)[row]
          = RowAfter(RealChanges(stored, changes), stored, changes, row)
  BY DEF RowsAfter
<1>2. CASE writes = {}
  <2>1. i \notin RealChanges(stored, changes)
    BY <1>2
  <2>2. stored[row] = changes[i].value
    BY <2>1 DEF RealChanges
  <2> QED
    BY <1>1, <1>2, <2>2 DEF RowAfter
<1>3. CASE writes # {}
  <2>1. writes \subseteq 1..Len(changes) /\ Len(changes) \in Nat
    BY ChangesTyped DEF RealChanges
  <2>2. last \in writes
    BY <2>1, <1>3, LastPosition
  <2>3. last \in DOMAIN changes /\ changes[last].row = row
    BY <2>2 DEF RealChanges
  <2>4. RowAfter(RealChanges(stored, changes), stored, changes, row) = changes[last].value
    BY <1>3 DEF RowAfter
  <2> QED
    BY <1>1, <2>3, <2>4
<1> QED
  BY <1>2, <1>3

HeldBackup == paper # NoPaper /\ paper.kind = "backup"

(* A backup holds a key's choices from the account's column or from the    *)
(* profiles', never from both, whatever scope the key has got since.       *)
BackupFits ==
    HeldBackup => \A r1, r2 \in DOMAIN paper.document :
                      r1[2] = r2[2] => (r1[1] = ACCOUNT_PROFILE) = (r2[1] = ACCOUNT_PROFILE)

LEMMA BackupStep == ServiceTypeOK /\ BackupFits /\ [ServiceNext]_vars => BackupFits'
<1> SUFFICES ASSUME ServiceTypeOK, BackupFits, [ServiceNext]_vars PROVE BackupFits'
  OBVIOUS
<1>0. ASSUME UNCHANGED <<deployment, paper>> PROVE BackupFits'
  BY <1>0 DEF BackupFits, HeldBackup
<1>1. CASE Reads
  <2>1. PICK account \in Accounts, actor \in Actors :
          \/ \E view \in SUBSET Namespaces, profile \in ProfileArguments :
                 Read(account, actor, view, profile)
          \/ ExportSettings(account, actor)
    BY <1>1 DEF Reads
  <2>2. ASSUME NEW view \in SUBSET Namespaces, NEW profile \in ProfileArguments,
               Read(account, actor, view, profile)
        PROVE  BackupFits'
    <3>1. paper'.kind = "document"
      BY <2>2 DEF Read
    <3> QED
      BY <3>1 DEF BackupFits, HeldBackup
  <2>3. CASE ExportSettings(account, actor)
    <3>1. deployment' = deployment /\ paper'.document = Export(account, actor)
      BY <2>3 DEF ExportSettings
    <3>2. DOMAIN paper'.document = ExportedRows(account, actor)
      BY <3>1 DEF Export
    <3> QED
      BY <3>1, <3>2 DEF ExportedRows, BackupFits
  <2> QED
    BY <2>1, <2>2, <2>3
<1>2. CASE Writes
  <2>1. UNCHANGED <<deployment, paper>>
    BY <1>2 DEF Writes, SetSetting, Update, ImportDocument, ImportLegacy, RestoreBackup, Write
  <2> QED
    BY <2>1, <1>0
<1>3. CASE Resets
  <2>1. UNCHANGED <<deployment, paper>>
    BY <1>3 DEF Resets, ResetSetting, ResetNamespace, Write
  <2> QED
    BY <2>1, <1>0
<1>4. ASSUME NEW account \in Accounts, ForgetSettings(account)
      PROVE  BackupFits'
  <2>1. CASE paper' = paper
    BY <1>0, <1>4, <2>1 DEF ForgetSettings
  <2>2. CASE paper # NoPaper /\ paper' = [paper EXCEPT !.forgotten = TRUE]
    <3>1. paper'.kind = paper.kind /\ paper'.document = paper.document
      BY <2>2 DEF ServiceTypeOK, DocumentPaper, BackupPaper
    <3> QED
      BY <2>2, <3>1 DEF BackupFits, HeldBackup
  <2> QED
    BY <1>4, <2>1, <2>2 DEF ForgetSettings
<1>5. CASE \E key \in Keys : Sweep(key)
  BY <1>0, <1>5 DEF Sweep
<1>6. CASE Redeploy
  <2>1. CASE paper = NoPaper
    BY <1>6, <2>1 DEF Redeploy, BackupFits, HeldBackup
  <2>2. CASE paper # NoPaper
    <3>1. paper' = [paper EXCEPT !.redeployed = TRUE]
      BY <1>6, <2>2 DEF Redeploy
    <3>2. paper'.kind = paper.kind /\ paper'.document = paper.document
      BY <2>2, <3>1 DEF ServiceTypeOK, DocumentPaper, BackupPaper
    <3> QED
      BY <2>2, <3>2 DEF BackupFits, HeldBackup
  <2> QED
    BY <2>1, <2>2
<1>7. CASE UNCHANGED vars
  BY <1>0, <1>7 DEF vars
<1> QED
  BY <1>1, <1>2, <1>3, <1>4, <1>5, <1>6, <1>7 DEF ServiceNext

(* A restored backup is a list of one change to each row its choices are   *)
(* read from now.                                                          *)
LEMMA RestoredChanges ==
    ASSUME ServiceTypeOK, ChangeLists = Seq(Change), NEW account \in Accounts,
           NEW actor \in Actors, RestoreBackup(account, actor)
    PROVE  \E changes \in ChangeLists :
             /\ rows'[account] = RowsAfter(rows[account], changes)
             /\ \A i \in DOMAIN changes : \E row \in DOMAIN paper.document :
                    changes[i].row = NowAt(row) /\ changes[i].value = paper.document[row]
             /\ \A row \in DOMAIN paper.document : \E i \in DOMAIN changes :
                    changes[i].row = NowAt(row) /\ changes[i].value = paper.document[row]
             /\ \A row \in DOMAIN paper.document :
                    /\ NowAt(row) \in RowKeys
                    /\ row \in RowKeys
                    /\ NowAt(row)[1] # NoProfile
<1> DEFINE exported == paper.document
           D == DOMAIN exported
           entries == EntriesOf(exported)
           changes == ChangesFor(entries)
           n == Cardinality(D)
           named == SetToSeq(D)
<1>1. D \subseteq RowKeys
  BY DEF RestoreBackup, ServiceTypeOK, DocumentPaper, BackupPaper
<1>2. IsFiniteSet(D)
  <2>1. IsFiniteSet(Profiles \cup {ACCOUNT_PROFILE})
    BY FiniteAssumption, FS_AddElement
  <2>2. IsFiniteSet(RowKeys)
    BY <2>1, FiniteAssumption, FS_Product DEF RowKeys
  <2> QED
    BY <1>1, <2>2, FS_Subset
<1>3. n \in Nat /\ named \in [1..n -> D] /\ \A row \in D : \E i \in 1..n : named[i] = row
  BY <1>2, ListedElements, EveryElementIsListed
<1>4. DOMAIN entries = 1..n /\ DOMAIN changes = 1..n
  BY DEF EntriesOf, ChangesFor
<1>5. ASSUME NEW i \in 1..n
      PROVE  changes[i].row = NowAt(named[i]) /\ changes[i].value = exported[named[i]]
  <2> DEFINE r == named[i]
             profile == IF r[1] = ACCOUNT_PROFILE THEN NoProfile ELSE r[1]
  <2>1. entries[i] = [profile |-> profile, key |-> r[2], value |-> exported[r]]
    BY DEF EntriesOf
  <2>2. changes[i] = [row |-> <<StorageProfile(r[2], profile), r[2]>>, value |-> exported[r]]
    BY <1>4, <2>1 DEF ChangesFor
  <2> QED
    BY <2>2 DEF NowAt
<1>6. Ruled(account, actor, "import", entries)
  BY RestoreIsRuled
<1>7. changes \in Seq(Change)
  BY <1>6 DEF Ruled
<1>8. rows'[account] = RowsAfter(rows[account], changes)
  BY <1>6, RuledRows, WriteActionsAssumption
<1>9. ASSUME NEW i \in 1..n
      PROVE  NowAt(named[i])[1] # NoProfile
  <2> DEFINE r == named[i]
             profile == IF r[1] = ACCOUNT_PROFILE THEN NoProfile ELSE r[1]
  <2>1. RuledEntry(actor, entries[i])
    BY <1>4, <1>6 DEF Ruled
  <2>2. entries[i] = [profile |-> profile, key |-> r[2], value |-> exported[r]]
    BY DEF EntriesOf
  <2>3. StorageProfile(r[2], profile) # NoProfile
    BY <2>1, <2>2 DEF RuledEntry
  <2> QED
    BY <2>3 DEF NowAt
<1> HIDE DEF changes, entries, named, n
<1>10. changes \in ChangeLists /\ \A i \in 1..n : changes[i] \in Change
  BY <1>4, <1>7, ChangesTyped
<1>11. \A i \in 1..n : NowAt(named[i]) \in RowKeys
  BY <1>5, <1>10 DEF Change
<1>12. \A i \in DOMAIN changes : \E row \in DOMAIN paper.document :
           changes[i].row = NowAt(row) /\ changes[i].value = paper.document[row]
  <2> SUFFICES ASSUME NEW i \in 1..n
               PROVE  \E row \in D : changes[i].row = NowAt(row)
                                       /\ changes[i].value = exported[row]
    BY <1>4
  <2>1. named[i] \in D
    BY <1>3
  <2> QED
    BY <1>5, <2>1
<1>13. ASSUME NEW row \in D
       PROVE  /\ \E i \in DOMAIN changes : changes[i].row = NowAt(row)
                                            /\ changes[i].value = exported[row]
              /\ NowAt(row) \in RowKeys
              /\ row \in RowKeys
              /\ NowAt(row)[1] # NoProfile
  <2>1. PICK i \in 1..n : named[i] = row
    BY <1>3
  <2> QED
    BY <1>1, <1>4, <1>5, <1>9, <1>11, <2>1
<1> QED
  BY <1>8, <1>10, <1>12, <1>13

(* A choice in the row where another choice of the backup is read now is   *)
(* one that another profile made, for a key the account has since.         *)
LEMMA ChoicesThatMeet ==
    ASSUME ServiceTypeOK, BackupFits, HeldBackup,
           NEW row \in DOMAIN paper.document, NEW kept \in DOMAIN paper.document,
           row \in RowKeys, kept \in RowKeys, NowAt(row)[1] # NoProfile,
           NowAt(kept) = NowAt(row), kept # row
    PROVE  row[1] # ACCOUNT_PROFILE /\ NowAt(row)[1] = ACCOUNT_PROFILE
<1>1. row[2] = kept[2] /\ row = <<row[1], row[2]>> /\ kept = <<kept[1], kept[2]>>
  BY DEF NowAt, RowKeys
<1>2. row[1] # kept[1]
  BY <1>1
<1>3. (row[1] = ACCOUNT_PROFILE) = (kept[1] = ACCOUNT_PROFILE)
  BY <1>1 DEF BackupFits
<1>4. row[1] # ACCOUNT_PROFILE /\ kept[1] # ACCOUNT_PROFILE
  BY <1>2, <1>3
<1>5. /\ NowAt(row)[1] = StorageProfile(row[2], row[1])
      /\ NowAt(kept)[1] = StorageProfile(row[2], kept[1])
  BY <1>1, <1>4 DEF NowAt
<1> QED
  BY <1>2, <1>4, <1>5 DEF StorageProfile

LEMMA RestoreStep ==
    ASSUME ServiceTypeOK, BackupFits, ChangeLists = Seq(Change), NEW a \in Accounts,
           NEW actor \in Actors, RestoreBackup(a, actor)
    PROVE  /\ \A row \in DOMAIN paper.document :
                 /\ NowAt(row) \in RowKeys
                 /\ \E kept \in DOMAIN paper.document :
                       /\ NowAt(kept) = NowAt(row)
                       /\ kept # row => row[1] # ACCOUNT_PROFILE
                                         /\ NowAt(row)[1] = ACCOUNT_PROFILE
                       /\ rows'[a][NowAt(row)] = paper.document[kept]
           /\ \A other \in RowKeys \ {NowAt(row) : row \in DOMAIN paper.document} :
                 rows'[a][other] = rows[a][other]
<1>1. PICK changes \in ChangeLists :
             /\ rows'[a] = RowsAfter(rows[a], changes)
             /\ \A i \in DOMAIN changes : \E row \in DOMAIN paper.document :
                    changes[i].row = NowAt(row) /\ changes[i].value = paper.document[row]
             /\ \A row \in DOMAIN paper.document : \E i \in DOMAIN changes :
                    changes[i].row = NowAt(row) /\ changes[i].value = paper.document[row]
             /\ \A row \in DOMAIN paper.document :
                    /\ NowAt(row) \in RowKeys
                    /\ row \in RowKeys
                    /\ NowAt(row)[1] # NoProfile
  BY RestoredChanges
<1>2. rows[a] \in StoredRows /\ HeldBackup
  BY DEF ServiceTypeOK, TypeOK, StoredRows, RestoreBackup, HeldBackup
<1>3. ASSUME NEW row \in DOMAIN paper.document
      PROVE  \E kept \in DOMAIN paper.document :
                /\ NowAt(kept) = NowAt(row)
                /\ kept # row => row[1] # ACCOUNT_PROFILE /\ NowAt(row)[1] = ACCOUNT_PROFILE
                /\ rows'[a][NowAt(row)] = paper.document[kept]
  <2>1. PICK i \in DOMAIN changes : changes[i].row = NowAt(row)
    BY <1>1
  <2>2. NowAt(row) \in RowKeys
    BY <1>1
  <2>3. PICK j \in DOMAIN changes :
            /\ changes[j].row = NowAt(row)
            /\ RowsAfter(rows[a], changes)[NowAt(row)] = changes[j].value
    BY <1>2, <2>1, <2>2, NamedRow
  <2>4. PICK kept \in DOMAIN paper.document :
            changes[j].row = NowAt(kept) /\ changes[j].value = paper.document[kept]
    BY <1>1
  <2>5. NowAt(kept) = NowAt(row) /\ rows'[a][NowAt(row)] = paper.document[kept]
    BY <1>1, <2>3, <2>4
  <2>6. kept # row => row[1] # ACCOUNT_PROFILE /\ NowAt(row)[1] = ACCOUNT_PROFILE
    BY <1>1, <1>2, <2>5, ChoicesThatMeet
  <2> QED
    BY <2>5, <2>6
<1>4. ASSUME NEW other \in RowKeys \ {NowAt(row) : row \in DOMAIN paper.document}
      PROVE  rows'[a][other] = rows[a][other]
  <2>1. \A i \in DOMAIN changes : changes[i].row # other
    BY <1>1
  <2>2. RowsAfter(rows[a], changes)[other]
            = RowAfter(RealChanges(rows[a], changes), rows[a], changes, other)
    BY DEF RowsAfter
  <2> QED
    BY <1>1, <1>2, <2>1, <2>2, RowAfterIsStoredOrWritten
<1> QED
  BY <1>1, <1>3, <1>4

LEMMA AlwaysBackupFits ==
    ASSUME ChangeLists = Seq(Change)
    PROVE  ServiceSpec => []BackupFits
<1>1. ServiceInit => BackupFits
  BY DEF ServiceInit, BackupFits, HeldBackup
<1> QED
  BY <1>1, BackupStep, ServiceTypeCorrect, PTL DEF ServiceSpec

(* A backup that is accepted back, whatever was written, reset, erased or  *)
(* redeployed since, brings every choice in it to the row where the        *)
(* running build reads its key, except that choices of several profiles    *)
(* that now meet on the account leave one of them there; it moves no other *)
(* row (RestoreBringsBackEveryChoice).                                     *)
THEOREM RestoreAlwaysBringsBackEveryChoice ==
    ASSUME ChangeLists = Seq(Change)
    PROVE  ServiceSpec => RestoreBringsBackEveryChoice
<1>1. ServiceTypeOK /\ BackupFits =>
        [\A a \in Accounts, actor \in Actors : RestoreBackup(a, actor) =>
            /\ \A row \in DOMAIN paper.document :
                  /\ NowAt(row) \in RowKeys
                  /\ \E kept \in DOMAIN paper.document :
                        /\ NowAt(kept) = NowAt(row)
                        /\ kept # row => row[1] # ACCOUNT_PROFILE
                                          /\ NowAt(row)[1] = ACCOUNT_PROFILE
                        /\ rows'[a][NowAt(row)] = paper.document[kept]
            /\ \A other \in RowKeys \ {NowAt(row) : row \in DOMAIN paper.document} :
                  rows'[a][other] = rows[a][other]]_vars
  BY RestoreStep
<1> QED
  BY <1>1, ServiceTypeCorrect, AlwaysBackupFits, PTL DEF ServiceSpec, RestoreBringsBackEveryChoice
-----------------------------------------------------------------------------
(* A write that is accepted is read.                                       *)

(* set writes its one row and leaves every other row of the account.       *)
LEMMA SetWritesItsRow ==
    ASSUME ServiceTypeOK, ChangeLists = Seq(Change), NEW a \in Accounts,
           NEW actor, NEW key \in Keys, NEW value \in Values,
           NEW profile \in ProfileArguments,
           SetSetting(a, actor, key, value, profile)
    PROVE  /\ rows'[a][<<StorageProfile(key, profile), key>>] = value
           /\ \A row \in RowKeys \ {<<StorageProfile(key, profile), key>>} :
                  rows'[a][row] = rows[a][row]
           /\ deployment' = deployment
<1> DEFINE entries == <<[profile |-> profile, key |-> key, value |-> value]>>
           changes == ChangesFor(entries)
           target == <<StorageProfile(key, profile), key>>
<1>1. StorageProfile(key, profile) # NoProfile
  BY DEF SetSetting, AcceptsWrite
<1>2. target \in RowKeys
  BY <1>1, ColumnTyped DEF RowKeys
<1>3. /\ DOMAIN changes = 1..1
      /\ \A i \in 1..1 : changes[i].row = target /\ changes[i].value = value
  BY DEF ChangesFor
<1>4. Ruled(a, actor, "set", entries)
  BY SetIsRuled
<1>5. changes \in ChangeLists
  BY <1>4 DEF Ruled
<1>6. rows'[a] = RowsAfter(rows[a], changes) /\ deployment' = deployment
  BY <1>4, RuledRows, WriteActionsAssumption
<1>7. rows[a] \in StoredRows
  BY DEF ServiceTypeOK, TypeOK, StoredRows
<1> HIDE DEF entries, changes, target
<1>8. RowsAfter(rows[a], changes)[target] = value
  <2>1. 1 \in DOMAIN changes /\ changes[1].row = target
    BY <1>3
  <2>2. \E j \in DOMAIN changes : RowsAfter(rows[a], changes)[target] = changes[j].value
    BY <1>2, <1>5, <1>7, <2>1, NamedRow
  <2> QED
    BY <1>3, <2>2
<1>9. ASSUME NEW row \in RowKeys \ {target}
      PROVE  RowsAfter(rows[a], changes)[row] = rows[a][row]
  <2>1. RowsAfter(rows[a], changes)[row]
            = RowAfter(RealChanges(rows[a], changes), rows[a], changes, row)
    BY DEF RowsAfter
  <2> QED
    BY <1>3, <1>5, <1>7, <2>1, RowAfterIsStoredOrWritten
<1> QED
  BY <1>6, <1>8, <1>9 DEF target

LEMMA ReadBackStep ==
    ASSUME ServiceTypeOK, ChangeLists = Seq(Change), NEW a \in Accounts,
           NEW actor, NEW key \in Keys, NEW value \in Values,
           NEW profile \in ProfileArguments,
           SetSetting(a, actor, key, value, profile)
    PROVE  /\ Resolve(a, profile, key)' =
                  [value |-> value, source |-> "account", setByAccount |-> TRUE, pinned |-> FALSE]
           /\ \A k \in Keys, p \in ProfileArguments :
                  (k # key \/ StorageProfile(k, p) # StorageProfile(key, profile))
                      => Resolve(a, p, k)' = Resolve(a, p, k)
<1> DEFINE target == <<StorageProfile(key, profile), key>>
<1>1. /\ rows'[a][target] = value
      /\ \A row \in RowKeys \ {target} : rows'[a][row] = rows[a][row]
      /\ deployment' = deployment
  BY SetWritesItsRow
<1>2. StorageProfile(key, profile) # NoProfile /\ deployment.pin[key] = NotPinned
  BY DEF SetSetting, AcceptsWrite, MayWrite
<1>3. \A k, p : StorageProfile(k, p)' = StorageProfile(k, p)
  BY <1>1 DEF StorageProfile
<1>4. StoredFor(a, profile, key)' = value
  BY <1>1, <1>2, <1>3 DEF StoredFor
<1>5. Resolve(a, profile, key)' =
          [value |-> value, source |-> "account", setByAccount |-> TRUE, pinned |-> FALSE]
  BY <1>1, <1>2, <1>4, UnsetAssumption DEF Resolve
<1>6. ASSUME NEW k \in Keys, NEW p \in ProfileArguments,
             k # key \/ StorageProfile(k, p) # StorageProfile(key, profile)
      PROVE  Resolve(a, p, k)' = Resolve(a, p, k)
  <2>1. StoredFor(a, p, k)' = StoredFor(a, p, k)
    <3>1. CASE StorageProfile(k, p) = NoProfile
      BY <1>3, <3>1 DEF StoredFor
    <3>2. CASE StorageProfile(k, p) # NoProfile
      <4>1. <<StorageProfile(k, p), k>> \in RowKeys \ {target}
        BY <1>6, <3>2, ColumnTyped DEF RowKeys
      <4> QED
        BY <1>1, <1>3, <3>2, <4>1 DEF StoredFor
    <3> QED
      BY <3>1, <3>2
  <2> QED
    BY <1>1, <2>1 DEF Resolve
<1> QED
  BY <1>5, <1>6

(* A value that set stored is what the next read of that key and profile   *)
(* answers, and nothing else reads differently for it                      *)
(* (AcceptedWriteIsRead).                                                  *)
THEOREM AcceptedWriteIsAlwaysRead ==
    ASSUME ChangeLists = Seq(Change)
    PROVE  ServiceSpec => AcceptedWriteIsRead
<1>1. ServiceTypeOK /\ ServiceTypeOK' =>
        [\A e \in {f \in events' \ events : f.action = "set"} :
           \A a \in Accounts, key \in e.changed, value \in Values, profile \in ProfileArguments :
             SetSetting(a, e.actor, key, value, profile) =>
               /\ Resolve(a, profile, key)' =
                      [value |-> value, source |-> "account", setByAccount |-> TRUE,
                       pinned |-> FALSE]
               /\ \A k \in Keys, p \in ProfileArguments :
                      (k # key \/ StorageProfile(k, p) # StorageProfile(key, profile))
                          => Resolve(a, p, k)' = Resolve(a, p, k)]_vars
  <2> SUFFICES ASSUME ServiceTypeOK, ServiceTypeOK', NEW e \in events', NEW a \in Accounts,
                      NEW key \in e.changed, NEW value \in Values,
                      NEW profile \in ProfileArguments,
                      SetSetting(a, e.actor, key, value, profile)
               PROVE  /\ Resolve(a, profile, key)' =
                             [value |-> value, source |-> "account", setByAccount |-> TRUE,
                              pinned |-> FALSE]
                      /\ \A k \in Keys, p \in ProfileArguments :
                             (k # key \/ StorageProfile(k, p) # StorageProfile(key, profile))
                                 => Resolve(a, p, k)' = Resolve(a, p, k)
    OBVIOUS
  <2>1. key \in Keys
    BY DEF ServiceTypeOK, TypeOK, Event
  <2> QED
    BY <2>1, ReadBackStep
<1> QED
  BY <1>1, ServiceTypeCorrect, PTL DEF ServiceSpec, AcceptedWriteIsRead
=============================================================================
