-------------------------- MODULE SettingsService --------------------------
(***************************************************************************)
(* SettingsService over the settings tables: how a request of the HTTP     *)
(* surfaces becomes one change list, which of them are refused, and what   *)
(* a read resolves to.                                                     *)
(*                                                                         *)
(* The operator's policy and the catalogue of the running build are one    *)
(* value, deployment, that a restart may replace.  The rows outlive it.    *)
(* A caller keeps one paper: a document it read, with the revision in the  *)
(* ETag, or a backup it exported; it may come back with it at any later    *)
(* time, after writes, a sweep, a restart or an erasure.                   *)
(*                                                                         *)
(* A request that raises changes nothing, so it is a step that is not      *)
(* taken; which error a caller is told is left out.                        *)
(***************************************************************************)
EXTENDS SettingsStore, SequencesExt

CONSTANTS
    PREFIX,               \* the bare "settings" audience
    Services,             \* the actors "service:<name>"
    Namespaces,           \* config.allowed_namespaces
    COMMON,               \* the namespace everybody may read
    NamespaceOf,          \* qualified name -> namespace
    NameOf,               \* qualified name -> the name within its namespace
    GrantedBy,            \* actor but the bare prefix -> namespaces it names
    OwnerOnly,            \* keys with owner_writable_only
    V1_PROFILE_FALLBACK,  \* where a version 1 import puts profile-scoped keys
    NoProfile,            \* profile = None
    NotPinned,            \* no pin in the policy
    Deployments,          \* builds and policies a restart may bring
    Documents,            \* documents a caller may PUT: sequences of [key, value]
    Imports,              \* version 2 documents of any origin, with profiles
    LegacyDocuments,      \* version 1 documents: sequences of [key, value]
    Readers,              \* <<actor, profile>> of the callers who keep a read
    Exporters,            \* the actors who keep a backup
    NoPaper

ASSUME CallersAssumption ==
    /\ PREFIX \in Actors \ Services
    /\ Services \subseteq Actors
    /\ COMMON \in Namespaces
    /\ NamespaceOf \in [Keys -> Namespaces]
    /\ DOMAIN NameOf = Keys
    /\ GrantedBy \in [Actors \ {PREFIX} -> SUBSET Namespaces]
    /\ OwnerOnly \subseteq Keys
    /\ V1_PROFILE_FALLBACK \in Profiles
    /\ NoProfile \notin Profiles \cup {ACCOUNT_PROFILE}
    /\ NotPinned \notin Values

ASSUME WriteActionsAssumption ==
    WriteActions = {"set", "update", "import", "reset", "reset_namespace"}

(* A build with its policy: the live keys and the scope of every key, the  *)
(* catalogue's default and values, and what the policy makes of them.      *)
ASSUME DeploymentsAssumption ==
    \A d \in Deployments :
        /\ d.live \subseteq Keys
        /\ d.scope \in [Keys -> {"account", "profile"}]
        /\ d.default \in [Keys -> Values]
        /\ d.allowed \in [Keys -> SUBSET Values]
        /\ d.catalogueDefault \in [Keys -> Values]
        /\ d.catalogueAllowed \in [Keys -> SUBSET Values]
        /\ d.pin \in [Keys -> Values \cup {NotPinned}]
        /\ \A k \in Keys : /\ d.allowed[k] \subseteq d.catalogueAllowed[k]
                           /\ d.default[k] # d.catalogueDefault[k]
                                  => d.default[k] \in d.allowed[k]
                           /\ d.pin[k] # NotPinned => d.pin[k] \in d.allowed[k]
                           /\ NamespaceOf[k] = COMMON => d.scope[k] = "account"

ASSUME DocumentsAssumption ==
    /\ Documents \cup LegacyDocuments \subseteq Seq([key : Keys, value : Values])
    /\ Imports \subseteq Seq([profile : Profiles \cup {NoProfile}, key : Keys, value : Values])

VARIABLES
    deployment,   \* the build and the policy of the running process
    paper         \* what one caller holds: a read document or a backup

vars == <<tables, deployment, paper>>

ProfileArguments == Profiles \cup {NoProfile}
-----------------------------------------------------------------------------
(* Who may see and write what.                                             *)

Granted(actor) ==
    IF actor = PREFIX THEN Namespaces ELSE GrantedBy[actor] \cup {COMMON}

(* Mutant of MayWrite: owner_writable_only is not looked at.               *)
MayWrite_AnyCaller(actor, key) == deployment.pin[key] = NotPinned

MayWrite(actor, key) ==
    /\ deployment.pin[key] = NotPinned
    /\ ~ (key \in OwnerOnly /\ actor \in Services)

StorageProfile(key, profile) ==
    IF deployment.scope[key] = "account" THEN ACCOUNT_PROFILE ELSE profile

(* Mutant of AcceptsWrite: the value is held against the catalogue's       *)
(* bounds, not against the policy's.                                       *)
AcceptsWrite_Catalogue(actor, key, value, profile) ==
    /\ NamespaceOf[key] \in Granted(actor)
    /\ key \in deployment.live
    /\ StorageProfile(key, profile) # NoProfile
    /\ MayWrite(actor, key)
    /\ value \in deployment.catalogueAllowed[key]

AcceptsWrite(actor, key, value, profile) ==
    /\ NamespaceOf[key] \in Granted(actor)
    /\ key \in deployment.live
    /\ StorageProfile(key, profile) # NoProfile
    /\ MayWrite(actor, key)
    /\ value \in deployment.allowed[key]

(* A document of either kind is the sequence of its entries, in the order  *)
(* the JSON names them: profile, key and value.  Entries of a PUT all have *)
(* the profile of the request; an import's settings have none, and come    *)
(* before its profiles.                                                    *)
Under(profile, document) ==
    [i \in DOMAIN document |->
        [profile |-> profile, key |-> document[i].key, value |-> document[i].value]]

AcceptsDocument(actor, entries) ==
    \A i \in DOMAIN entries :
        AcceptsWrite(actor, entries[i].key, entries[i].value, entries[i].profile)

(* _changes_for, for every part of the document in turn.  An account-scoped*)
(* key goes to the account from wherever it is named.                      *)
ChangesFor(entries) ==
    [i \in DOMAIN entries |->
        [row   |-> <<StorageProfile(entries[i].key, entries[i].profile), entries[i].key>>,
         value |-> entries[i].value]]
-----------------------------------------------------------------------------
(* Reading.                                                                *)

(* Mutant of StoredFor: an account row overlays a profile-scoped key.      *)
StoredFor_Overlay(account, profile, key) ==
    LET onAccount == rows[account][<<ACCOUNT_PROFILE, key>>]
    IN  IF deployment.scope[key] = "account" \/ onAccount # Unset \/ profile = NoProfile
        THEN onAccount
        ELSE rows[account][<<profile, key>>]

(* Scopes are exclusive: an account-scoped key is read from the account's  *)
(* column, a profile-scoped key from the named profile's and from no other.*)
StoredFor(account, profile, key) ==
    IF StorageProfile(key, profile) = NoProfile THEN Unset
    ELSE rows[account][<<StorageProfile(key, profile), key>>]

Resolved == [value : Values, source : {"policy", "account", "default"},
             setByAccount : BOOLEAN, pinned : BOOLEAN]

(* Mutant of Resolve: no fallback to the default.                          *)
Resolve_RowOnly(account, profile, key) ==
    [value |-> StoredFor(account, profile, key), source |-> "account",
     setByAccount |-> TRUE, pinned |-> FALSE]

(* A pin beats the account's row, the row beats the default.               *)
Resolve(account, profile, key) ==
    LET stored == StoredFor(account, profile, key)
        pinned == deployment.pin[key] # NotPinned
    IN  [value  |-> IF pinned THEN deployment.pin[key]
                    ELSE IF stored # Unset THEN stored ELSE deployment.default[key],
         source |-> IF pinned THEN "policy"
                    ELSE IF stored # Unset THEN "account"
                    ELSE IF deployment.default[key] # deployment.catalogueDefault[key]
                         THEN "policy" ELSE "default",
         setByAccount |-> stored # Unset,
         pinned |-> pinned]

(* What a document of some namespaces shows.  A service's is one map by    *)
(* name, in which its namespace goes over common.                          *)
Overlaid(key, keys) ==
    /\ NamespaceOf[key] = COMMON
    /\ \E other \in keys : NamespaceOf[other] # COMMON /\ NameOf[other] = NameOf[key]

Shown(actor, namespaces) ==
    LET keys == {k \in deployment.live : NamespaceOf[k] \in namespaces}
    IN  IF actor \in Services THEN {k \in keys : ~Overlaid(k, keys)} ELSE keys

DocumentOf(account, actor, namespaces, profile) ==
    [key \in Shown(actor, namespaces) |-> Resolve(account, profile, key)]

(* get_all and describe answer with every namespace granted, get_namespace *)
(* with one, and resolve_for, a service's only read, with one over common. *)
Views(actor) ==
    IF actor \in Services
    THEN {{ns, COMMON} : ns \in Granted(actor)}
    ELSE {Granted(actor)} \cup {{ns} : ns \in Granted(actor)}

(* export: the live choices the token covers, each from the column its     *)
(* scope reads.                                                            *)
ExportedRows(account, actor) ==
    {row \in RowKeys :
        /\ rows[account][row] # Unset
        /\ NamespaceOf[row[2]] \in Granted(actor)
        /\ row[2] \in deployment.live
        /\ (row[1] = ACCOUNT_PROFILE) = (deployment.scope[row[2]] = "account")}

Export(account, actor) ==
    [row \in ExportedRows(account, actor) |-> rows[account][row]]

(* The exported document as import_settings takes it.  It names every row  *)
(* once, so the order of its profiles does not matter.                     *)
EntriesOf(exported) ==
    LET named == SetToSeq(DOMAIN exported)
    IN  [i \in 1..Cardinality(DOMAIN exported) |->
            [profile |-> IF named[i][1] = ACCOUNT_PROFILE THEN NoProfile ELSE named[i][1],
             key     |-> named[i][2],
             value   |-> exported[named[i]]]]
-----------------------------------------------------------------------------
ServiceInit ==
    /\ Init
    /\ deployment \in Deployments
    /\ paper = NoPaper

(* A read on either surface, kept with the revision its ETag carries.      *)
Read(account, actor, view, profile) ==
    /\ <<actor, profile>> \in Readers
    /\ view \in Views(actor)
    /\ paper' = [kind      |-> "document",
                 account   |-> account,
                 actor     |-> actor,
                 view      |-> view,
                 profile   |-> profile,
                 revision  |-> revision[account],
                 document  |-> DocumentOf(account, actor, view, profile),
                 forgotten |-> FALSE,
                 redeployed |-> FALSE]
    /\ UNCHANGED <<tables, deployment>>

ExportSettings(account, actor) ==
    /\ actor \in Exporters \ Services
    /\ paper' = [kind      |-> "backup",
                 account   |-> account,
                 actor     |-> actor,
                 revision  |-> revision[account],
                 document  |-> Export(account, actor),
                 forgotten |-> FALSE,
                 redeployed |-> FALSE]
    /\ UNCHANGED <<tables, deployment>>

(* The If-Match a write may carry: none, or the ETag the caller was given  *)
(* for this account.  The service surface takes none.                      *)
IfMatches(account, actor) ==
    {NoRevision} \cup {p.revision : p \in {q \in {paper} \ {NoPaper} :
                                             q.account = account /\ actor \notin Services}}

Write(account, changes, action, actor) ==
    /\ \E ifRevision \in IfMatches(account, actor) :
           Apply(account, changes, action, actor, ifRevision)
    /\ UNCHANGED <<deployment, paper>>

SetSetting(account, actor, key, value, profile) ==
    /\ AcceptsWrite(actor, key, value, profile)
    /\ Write(account, ChangesFor(<<[profile |-> profile, key |-> key, value |-> value]>>),
             "set", actor)

Update(account, actor, document, profile) ==
    /\ actor \notin Services
    /\ AcceptsDocument(actor, Under(profile, document))
    /\ Write(account, ChangesFor(Under(profile, document)), "update", actor)

(* Mutant of ImportDocument: the profiles of the document are left out.     *)
ImportDocument_SettingsOnly(account, actor, entries) ==
    /\ actor \notin Services
    /\ AcceptsDocument(actor, entries)
    /\ Write(account, ChangesFor(SelectSeq(entries, LAMBDA e : e.profile = NoProfile)),
             "import", actor)

(* Mutant of ImportDocument: what is refused is left out, not the document. *)
ImportDocument_Acceptable(account, actor, entries) ==
    /\ actor \notin Services
    /\ Write(account,
             ChangesFor(SelectSeq(entries,
                 LAMBDA e : AcceptsWrite(actor, e.key, e.value, e.profile))),
             "import", actor)

ImportDocument(account, actor, entries) ==
    /\ actor \notin Services
    /\ AcceptsDocument(actor, entries)
    /\ Write(account, ChangesFor(entries), "import", actor)

(* A version 1 document: its profile-scoped keys land on one profile, its  *)
(* account-scoped keys on the account.                                     *)
ImportLegacy(account, actor, document) ==
    ImportDocument(account, actor, Under(V1_PROFILE_FALLBACK, document))

(* A backup brought back, to the account it was taken from.                *)
RestoreBackup(account, actor) ==
    /\ paper # NoPaper
    /\ paper.kind = "backup"
    /\ paper.account = account
    /\ paper.actor = actor
    /\ ImportDocument(account, actor, EntriesOf(paper.document))

ResetSetting(account, actor, key, profile) ==
    /\ actor \notin Services
    /\ NamespaceOf[key] \in Granted(actor)
    /\ key \in deployment.live
    /\ MayWrite(actor, key)
    /\ StorageProfile(key, profile) # NoProfile
    /\ Write(account, ChangesFor(<<[profile |-> profile, key |-> key, value |-> Unset]>>),
             "reset", actor)

(* Mutant of Resettable: pinned keys are not skipped.                      *)
Resettable_Pinned(actor, namespace, profile) ==
    {key \in deployment.live :
        /\ NamespaceOf[key] = namespace
        /\ deployment.scope[key] = IF profile = NoProfile THEN "account" ELSE "profile"}

(* Without a profile the account-scoped keys, with one its profile-scoped  *)
(* keys; what the caller may not write is skipped.                         *)
Resettable(actor, namespace, profile) ==
    {key \in deployment.live :
        /\ NamespaceOf[key] = namespace
        /\ deployment.scope[key] = IF profile = NoProfile THEN "account" ELSE "profile"
        /\ MayWrite(actor, key)}

ResetNamespace(account, actor, namespace, profile) ==
    /\ actor \notin Services
    /\ namespace \in Granted(actor)
    /\ LET keys == SetToSeq(Resettable(actor, namespace, profile))
       IN  Write(account,
                 ChangesFor([i \in 1..Cardinality(Resettable(actor, namespace, profile)) |->
                                [profile |-> profile, key |-> keys[i], value |-> Unset]]),
                 "reset_namespace", actor)

ForgetSettings(account) ==
    /\ Forget(account)
    /\ paper' = IF paper # NoPaper /\ paper.account = account
                THEN [paper EXCEPT !.forgotten = TRUE] ELSE paper
    /\ UNCHANGED deployment

(* Mutant of Sweep: it does not ask whether the key has left the catalogue. *)
Sweep_AnyKey(key) ==
    /\ PurgeSetting(key)
    /\ UNCHANGED <<deployment, paper>>

(* The sweeper purges a retired key when its window has passed, which may  *)
(* be at any moment after the build that retired it was started.           *)
Sweep(key) ==
    /\ key \notin deployment.live
    /\ PurgeSetting(key)
    /\ UNCHANGED <<deployment, paper>>

(* A restart with another build or another policy file.                    *)
Redeploy ==
    /\ deployment' \in Deployments \ {deployment}
    /\ paper' = IF paper = NoPaper THEN paper ELSE [paper EXCEPT !.redeployed = TRUE]
    /\ UNCHANGED tables
-----------------------------------------------------------------------------
Reads ==
    \E account \in Accounts, actor \in Actors :
        \/ \E view \in SUBSET Namespaces, profile \in ProfileArguments :
               Read(account, actor, view, profile)
        \/ ExportSettings(account, actor)

Writes ==
    \E account \in Accounts, actor \in Actors :
        \/ \E key \in Keys, value \in Values, profile \in ProfileArguments :
               SetSetting(account, actor, key, value, profile)
        \/ \E document \in Documents, profile \in ProfileArguments :
               Update(account, actor, document, profile)
        \/ \E entries \in Imports : ImportDocument(account, actor, entries)
        \/ \E document \in LegacyDocuments : ImportLegacy(account, actor, document)
        \/ RestoreBackup(account, actor)

Resets ==
    \E account \in Accounts, actor \in Actors, profile \in ProfileArguments :
        \/ \E key \in Keys : ResetSetting(account, actor, key, profile)
        \/ \E namespace \in Namespaces : ResetNamespace(account, actor, namespace, profile)

ServiceNext ==
    \/ Reads
    \/ Writes
    \/ Resets
    \/ \E account \in Accounts : ForgetSettings(account)
    \/ \E key \in Keys : Sweep(key)
    \/ Redeploy

ServiceSpec == ServiceInit /\ [][ServiceNext]_vars
-----------------------------------------------------------------------------
(* The service's own state has its types.                                  *)
DocumentPaper ==
    [kind : {"document"}, account : Accounts, actor : Actors, view : SUBSET Namespaces,
     profile : ProfileArguments, revision : Nat,
     document : UNION {[D -> Resolved] : D \in SUBSET Keys},
     forgotten : BOOLEAN, redeployed : BOOLEAN]

BackupPaper ==
    [kind : {"backup"}, account : Accounts, actor : Actors, revision : Nat,
     document : UNION {[D -> Values] : D \in SUBSET RowKeys},
     forgotten : BOOLEAN, redeployed : BOOLEAN]

ServiceTypeOK ==
    /\ TypeOK
    /\ deployment \in Deployments
    /\ paper \in {NoPaper} \cup DocumentPaper \cup BackupPaper

Reader(p) == p # NoPaper /\ p.kind = "document"

Unmoved == revision[paper.account] = paper.revision

StillReads ==
    DocumentOf(paper.account, paper.actor, paper.view, paper.profile) = paper.document

(* What an unmoved ETag promises, within one deployment and one life of    *)
(* the account: the document reads exactly as it did.  Writes that change  *)
(* nothing, purges that change rows under an unmoved revision, and writes  *)
(* to other profiles must all keep it.                                     *)
EtagNamesItsDocument ==
    (Reader(paper) /\ ~paper.forgotten /\ ~paper.redeployed /\ Unmoved) => StillReads

(* The history shows no actor outside its compartment, and no service      *)
(* changing what only the owner may change, by whichever operation.        *)
EverybodyStaysInTheirCompartment ==
    \A e \in events : e.actor \in Actors =>
        /\ \A key \in e.changed : NamespaceOf[key] \in Granted(e.actor)
        /\ e.actor \in Services => e.action = "set" /\ e.changed \cap OwnerOnly = {}

(* Every path that stores a value holds it to the same rules: set, update, *)
(* both imports and a restored backup store only what this deployment      *)
(* accepts, in the one column a read of that key looks at.                 *)
EveryWritePathObeysTheDeployment ==
    [][\A a \in Accounts : \A row \in RowKeys :
        (rows'[a][row] # rows[a][row] /\ rows'[a][row] # Unset) =>
            /\ row[2] \in deployment.live
            /\ deployment.pin[row[2]] = NotPinned
            /\ rows'[a][row] \in deployment.allowed[row[2]]
            /\ (row[1] = ACCOUNT_PROFILE) = (deployment.scope[row[2]] = "account")
      ]_vars

(* A pin hides a choice and a retirement hides a key; neither destroys the *)
(* row, so that lifting the one or reverting the other brings the choice   *)
(* back.  Only an erasure does, and the sweeper for a retired key.         *)
HiddenChoicesSurvive ==
    [][\A a \in Accounts : \A row \in RowKeys :
        (rows'[a][row] # rows[a][row] /\ ~Forgotten(a)) =>
            IF row[2] \in deployment.live
            THEN deployment.pin[row[2]] = NotPinned
            ELSE \E e \in events' \ events : e.action = PURGE_RETIRED /\ e.account = a
      ]_vars

(* A write that is accepted is what the next read of that key and profile  *)
(* answers, also when the account still holds rows from a build in which   *)
(* the key had the other scope; and no other key, and for a profile-scoped *)
(* key no other profile, reads differently for it.                         *)
AcceptedWriteIsRead ==
    [][\A e \in {f \in events' \ events : f.action = "set"} :
        \A a \in Accounts, key \in e.changed, value \in Values, profile \in ProfileArguments :
            SetSetting(a, e.actor, key, value, profile) =>
                /\ Resolve(a, profile, key)' =
                       [value |-> value, source |-> "account", setByAccount |-> TRUE,
                        pinned |-> FALSE]
                /\ \A k \in Keys, p \in ProfileArguments :
                       (k # key \/ StorageProfile(k, p) # StorageProfile(key, profile))
                           => Resolve(a, p, k)' = Resolve(a, p, k)]_vars

(* The row that a choice kept under another build is read from now.        *)
NowAt(row) ==
    <<StorageProfile(row[2], IF row[1] = ACCOUNT_PROFILE THEN NoProfile ELSE row[1]), row[2]>>

(* However many writes, resets, erasures and restarts with other policies  *)
(* and catalogues lie between: a backup is accepted back whole or not at   *)
(* all.  Once accepted, every choice in it is in the row where the running *)
(* build reads its key, and no other row has moved.  One loss is allowed:  *)
(* when a key has gone from the profiles to the account since, the choices *)
(* several profiles made for it meet in one row, which keeps one of them.  *)
RestoreBringsBackEveryChoice ==
    [][\A a \in Accounts, actor \in Actors : RestoreBackup(a, actor) =>
        /\ \A row \in DOMAIN paper.document :
              /\ NowAt(row) \in RowKeys
              /\ \E kept \in DOMAIN paper.document :
                    /\ NowAt(kept) = NowAt(row)
                    /\ kept # row => row[1] # ACCOUNT_PROFILE /\ NowAt(row)[1] = ACCOUNT_PROFILE
                    /\ rows'[a][NowAt(row)] = paper.document[kept]
        /\ \A other \in RowKeys \ {NowAt(row) : row \in DOMAIN paper.document} :
              rows'[a][other] = rows[a][other]]_vars

(* Optimistic concurrency, for a caller that writes with the ETag of what  *)
(* it read: once something it read has changed, the write is refused.      *)
ConditionalWriteOverwritesNothingUnseen ==
    [][(Reader(paper) /\ ~paper.forgotten /\ ~paper.redeployed /\ ~StillReads) =>
          \A document \in Documents, profile \in ProfileArguments :
              ~ (/\ AcceptsDocument(paper.actor, Under(profile, document))
                 /\ Apply(paper.account, ChangesFor(Under(profile, document)), "update",
                          paper.actor, paper.revision))]_vars
-----------------------------------------------------------------------------
(* What the documentation says and the code does not do.                   *)

(* "A 304 when nothing has changed": an ETag that is still current names   *)
(* the document it was given with, also when a restart brought another     *)
(* policy or catalogue, or an erasure a new life of the account.           *)
NotModifiedMeansNotModified == (Reader(paper) /\ Unmoved) => StillReads
=============================================================================
