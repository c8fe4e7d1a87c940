--------------------------- MODULE SettingsStore ---------------------------
(***************************************************************************)
(* The settings tables, as the transactions of                             *)
(* settings_api.settings.sql_store.SqlSettingsStore leave them.            *)
(*                                                                         *)
(* Three tables are state: accounts (who has a row, and its revision),     *)
(* settings (one row per account, profile and key) and settings_events     *)
(* (the capped history, numbered by one AUTOINCREMENT sequence).  Every    *)
(* operation of the store is one callable run inside one BEGIN IMMEDIATE   *)
(* transaction on one thread, so every operation is one action here.  A    *)
(* call that raises is rolled back whole: it is a step that is not taken.  *)
(*                                                                         *)
(* Timestamps and the wording of an event are left out; its actor stands   *)
(* for the actor and service columns.  A key is a qualified name.          *)
(***************************************************************************)
EXTENDS Integers, FiniteSets, Sequences

CONSTANTS
    Accounts,                  \* account ids
    Keys,                      \* qualified names, "namespace.key"
    Profiles,                  \* keyring profile names
    Values,                    \* values a setting may hold
    ACCOUNT_PROFILE,           \* the "*" sentinel of account-scoped rows
    Unset,                     \* no row: nobody expressed a preference
    NoRevision,                \* if_revision = None: an unconditional write
    ChangeLists,               \* the change lists the service hands to apply
    WriteActions,              \* the Action an apply records: set, update, ...
    Actors,                    \* an owner's audience, or "service:<name>"
    SWEEPER,                   \* the actor of a purge
    MAX_PROFILES_PER_ACCOUNT,  \* distinct profile names one account may use
    EventCap,                  \* config.max_events, events kept per account
    MaxSequence                \* the largest rowid AUTOINCREMENT can assign

(* Which column and which key one row is about: StoredSetting.row_key.     *)
RowKeys == (Profiles \cup {ACCOUNT_PROFILE}) \X Keys

(* One setting to write, or, with value Unset, one to remove (reset).      *)
Change == [row : RowKeys, value : Values \cup {Unset}]

ASSUME SentinelAssumption == ACCOUNT_PROFILE \notin Profiles
ASSUME UnsetAssumption == Unset \notin Values
ASSUME NoRevisionAssumption == NoRevision \notin Nat
ASSUME ActionsAssumption == "purge_retired" \notin WriteActions
ASSUME ActorsAssumption == SWEEPER \notin Actors
ASSUME ChangeListsAssumption == ChangeLists \subseteq Seq(Change)
ASSUME CapsAssumption == /\ EventCap \in Nat \ {0}
                         /\ MAX_PROFILES_PER_ACCOUNT \in Nat
                         /\ MaxSequence \in Nat
ASSUME FiniteAssumption == /\ IsFiniteSet(Accounts)
                           /\ IsFiniteSet(Keys)
                           /\ IsFiniteSet(Profiles)

VARIABLES
    accounts,      \* the account ids that have a row in the accounts table
    revision,      \* accounts.revision; 0 for an account without a row
    rows,          \* settings: account -> row key -> stored value or Unset
    events,        \* settings_events, a set of records
    lastSequence   \* the largest sequence AUTOINCREMENT ever assigned

tables == <<accounts, revision, rows, events, lastSequence>>

PURGE_RETIRED == "purge_retired"

Event == [account  : Accounts,
          sequence : 1..MaxSequence,
          action   : WriteActions \cup {PURGE_RETIRED},
          actor    : Actors \cup {SWEEPER},
          revision : Nat,
          changed  : SUBSET Keys]

TypeOK ==
    /\ accounts \subseteq Accounts
    /\ revision \in [Accounts -> Nat]
    /\ rows \in [Accounts -> [RowKeys -> Values \cup {Unset}]]
    /\ events \subseteq Event
    /\ lastSequence \in 0..MaxSequence

Init ==
    /\ accounts = {}
    /\ revision = [a \in Accounts |-> 0]
    /\ rows = [a \in Accounts |-> [r \in RowKeys |-> Unset]]
    /\ events = {}
    /\ lastSequence = 0
-----------------------------------------------------------------------------
(* The event log: appending, and trimming in the same transaction.         *)

EventsOf(log, account) == {e \in log : e.account = account}

NewerThan(log, event) ==
    {e \in EventsOf(log, event.account) : e.sequence > event.sequence}

(* Mutants of Trim: one event too many; no account filter in the DELETE.   *)
Trim_OneTooMany(log, appendedTo) ==
    {e \in log : e.account \in appendedTo
                     => Cardinality(NewerThan(log, e)) <= EventCap}
Trim_EveryAccount(log, appendedTo) ==
    {e \in log : \A a \in appendedTo :
        Cardinality({f \in EventsOf(log, a) : f.sequence > e.sequence}) < EventCap}

(* TRIM_TO_CAP for each account appended to: an event with EventCap newer  *)
(* ones of the same account goes.                                          *)
Trim(log, appendedTo) ==
    {e \in log : e.account \in appendedTo
                     => Cardinality(NewerThan(log, e)) < EventCap}

(* Mutants of AppendEvent: the revision from before the bump; a sequence    *)
(* that is the largest present plus one, without AUTOINCREMENT.            *)
AppendEvent_BeforeBump(account, action, actor, newRevision, changed) ==
    /\ lastSequence < MaxSequence
    /\ lastSequence' = lastSequence + 1
    /\ events' = Trim(events \cup {[account  |-> account,
                                    sequence |-> lastSequence + 1,
                                    action   |-> action,
                                    actor    |-> actor,
                                    revision |-> newRevision - 1,
                                    changed  |-> changed]}, {account})
AppendEvent_MaxPlusOne(account, action, actor, newRevision, changed) ==
    \E next \in 1..MaxSequence :
        /\ \A e \in events : e.sequence < next
        /\ next = 1 \/ \E e \in events : e.sequence = next - 1
        /\ lastSequence' = next
        /\ events' = Trim(events \cup {[account  |-> account,
                                        sequence |-> next,
                                        action   |-> action,
                                        actor    |-> actor,
                                        revision |-> newRevision,
                                        changed  |-> changed]}, {account})

AppendEvent(account, action, actor, newRevision, changed) ==
    /\ lastSequence < MaxSequence
    /\ lastSequence' = lastSequence + 1
    /\ events' = Trim(events \cup {[account  |-> account,
                                    sequence |-> lastSequence + 1,
                                    action   |-> action,
                                    actor    |-> actor,
                                    revision |-> newRevision,
                                    changed  |-> changed]}, {account})
-----------------------------------------------------------------------------
(* Reading the log a page at a time, newest first.  A cursor is a sequence, *)
(* and Newest, before which everything is, stands for no cursor.           *)

Newest == MaxSequence + 1
NoCursor == 0

(* Mutant of Older: the cursor's own row once more, <= in BEFORE_SEQUENCE. *)
Older_Inclusive(log, account, before) ==
    {e \in EventsOf(log, account) : e.sequence <= before}

Older(log, account, before) ==
    {e \in EventsOf(log, account) : e.sequence < before}

(* ORDER BY sequence DESC LIMIT ?                                          *)
Page(log, account, before, limit) ==
    LET older == Older(log, account, before)
    IN  {e \in older : Cardinality({f \in older : f.sequence > e.sequence}) < limit}

(* next_before: the last row of a full page; a short page has no cursor.   *)
NextBefore(page, limit) ==
    IF Cardinality(page) # limit THEN NoCursor
    ELSE CHOOSE s \in {e.sequence : e \in page} : \A e \in page : s <= e.sequence
-----------------------------------------------------------------------------
(* apply: one change list, all of it or none of it.                        *)

(* The positions that are really changes.  Each is compared with the rows  *)
(* read before the loop began; resetting an absent row is not a change.    *)
RealChanges(stored, changes) ==
    {i \in DOMAIN changes : changes[i].value # stored[changes[i].row]}

(* The row as the loop leaves it: the last real change to it wins.         *)
RowAfter(real, stored, changes, row) ==
    LET writes == {i \in real : changes[i].row = row}
    IN  IF writes = {} THEN stored[row]
        ELSE changes[CHOOSE i \in writes : \A j \in writes : j <= i].value

RowsAfter(stored, changes) ==
    LET real == RealChanges(stored, changes)
    IN  [row \in RowKeys |-> RowAfter(real, stored, changes, row)]

(* Mutants of ChangedKeys: rows that were reset go unmentioned; the row key *)
(* is recorded in place of the qualified name.                             *)
ChangedKeys_SetsOnly(stored, changes) ==
    {changes[i].row[2] : i \in {j \in RealChanges(stored, changes) :
                                    changes[j].value # Unset}}
ChangedKeys_RowKeys(stored, changes) ==
    {changes[i].row : i \in RealChanges(stored, changes)}

ChangedKeys(stored, changes) ==
    {changes[i].row[2] : i \in RealChanges(stored, changes)}

IncomingProfiles(changes) ==
    {changes[i].row[1] : i \in {j \in DOMAIN changes : changes[j].value # Unset}}
        \ {ACCOUNT_PROFILE}

StoredProfiles(stored) ==
    {row[1] : row \in {r \in RowKeys : stored[r] # Unset}} \ {ACCOUNT_PROFILE}

(* Mutant of WithinProfileCap: what is stored already is not counted.      *)
WithinProfileCap_IncomingOnly(stored, changes) ==
    Cardinality(IncomingProfiles(changes)) <= MAX_PROFILES_PER_ACCOUNT

(* _enforce_profile_cap: a list that sets nothing under a profile passes.  *)
WithinProfileCap(stored, changes) ==
    \/ IncomingProfiles(changes) = {}
    \/ Cardinality(StoredProfiles(stored) \cup IncomingProfiles(changes))
           <= MAX_PROFILES_PER_ACCOUNT

(* Mutant of IfMatchHolds: the precondition is never looked at.             *)
IfMatchHolds_Ignored(account, ifRevision) == ifRevision \in {NoRevision} \cup Nat

(* if_revision, compared inside the transaction that writes.               *)
IfMatchHolds(account, ifRevision) == ifRevision \in {NoRevision, revision[account]}

(* Mutant of Apply: the revision moves once per change, not once per list. *)
Apply_BumpPerChange(account, changes, action, actor, ifRevision) ==
    LET real == RealChanges(rows[account], changes)
        bumped == revision[account] + Cardinality(real)
    IN  /\ IfMatchHolds(account, ifRevision)
        /\ WithinProfileCap(rows[account], changes)
        /\ real # {}
        /\ accounts' = accounts \cup {account}
        /\ rows' = [rows EXCEPT ![account] = RowsAfter(rows[account], changes)]
        /\ revision' = [revision EXCEPT ![account] = bumped]
        /\ AppendEvent(account, action, actor, bumped, ChangedKeys(rows[account], changes))

(* The write path.  The account row is created before anything is checked, *)
(* and stays when the list turns out to change nothing.                    *)
Apply(account, changes, action, actor, ifRevision) ==
    /\ IfMatchHolds(account, ifRevision)
    /\ WithinProfileCap(rows[account], changes)
    /\ accounts' = accounts \cup {account}
    /\ \/ /\ RealChanges(rows[account], changes) = {}
          /\ UNCHANGED <<revision, rows, events, lastSequence>>
       \/ /\ RealChanges(rows[account], changes) # {}
          /\ rows' = [rows EXCEPT ![account] = RowsAfter(rows[account], changes)]
          /\ revision' = [revision EXCEPT ![account] = @ + 1]
          /\ AppendEvent(account, action, actor, revision[account] + 1,
                         ChangedKeys(rows[account], changes))
-----------------------------------------------------------------------------
(* Mutant of Forget: the rows left to a cascade that is switched off.      *)
Forget_RowsLeft(account) ==
    /\ accounts' = accounts \ {account}
    /\ revision' = [revision EXCEPT ![account] = 0]
    /\ events' = events \ EventsOf(events, account)
    /\ UNCHANGED <<rows, lastSequence>>

(* Mutant of Forget: the numbering starts again after what is left, as it  *)
(* does for a rowid without AUTOINCREMENT.                                 *)
Forget_Renumbers(account) ==
    /\ accounts' = accounts \ {account}
    /\ revision' = [revision EXCEPT ![account] = 0]
    /\ rows' = [rows EXCEPT ![account] = [r \in RowKeys |-> Unset]]
    /\ events' = events \ EventsOf(events, account)
    /\ lastSequence' \in {0} \cup {e.sequence : e \in events'}
    /\ \A e \in events' : e.sequence <= lastSequence'

(* forget: the rows, the history and the account row, in one transaction.  *)
Forget(account) ==
    /\ accounts' = accounts \ {account}
    /\ revision' = [revision EXCEPT ![account] = 0]
    /\ rows' = [rows EXCEPT ![account] = [r \in RowKeys |-> Unset]]
    /\ events' = events \ EventsOf(events, account)
    /\ UNCHANGED lastSequence

(* purge_setting: every account's rows for one retired key.  One event for *)
(* every row that went, at that account's revision as it stands.  SQLite   *)
(* returns the rows in no promised order.                                  *)
AffectedRows(key) ==
    {ar \in Accounts \X RowKeys : ar[2][2] = key /\ rows[ar[1]][ar[2]] # Unset}

Numberings(S) ==
    {f \in [S -> 1..Cardinality(S)] : \A x, y \in S : f[x] = f[y] => x = y}

PurgeSetting(key) ==
    LET affected == AffectedRows(key)
    IN  /\ affected # {}
        /\ lastSequence + Cardinality(affected) <= MaxSequence
        /\ lastSequence' = lastSequence + Cardinality(affected)
        /\ rows' = [a \in Accounts |-> [r \in RowKeys |->
                        IF r[2] = key THEN Unset ELSE rows[a][r]]]
        /\ \E position \in Numberings(affected) :
               events' = Trim(events \cup
                              {[account  |-> ar[1],
                                sequence |-> lastSequence + position[ar],
                                action   |-> PURGE_RETIRED,
                                actor    |-> SWEEPER,
                                revision |-> revision[ar[1]],
                                changed  |-> {key}] : ar \in affected},
                              {ar[1] : ar \in affected})
        /\ UNCHANGED <<accounts, revision>>
-----------------------------------------------------------------------------
ApplySome ==
    \E account \in Accounts, changes \in ChangeLists, action \in WriteActions,
       actor \in Actors, ifRevision \in {NoRevision} \cup 0..MaxSequence :
        Apply(account, changes, action, actor, ifRevision)

Next ==
    \/ ApplySome
    \/ \E account \in Accounts : Forget(account)
    \/ \E key \in Keys : PurgeSetting(key)

Spec == Init /\ [][Next]_tables
-----------------------------------------------------------------------------
(* A key that has a row belongs to an account that has written: the        *)
(* foreign key of settings, and _ensure_account before the first upsert.   *)
(* A forget that left rows behind, or an upsert without its account row,   *)
(* breaks it.                                                              *)
RowsBelongToAccounts ==
    \A a \in Accounts : (\E r \in RowKeys : rows[a][r] # Unset)
                            => a \in accounts /\ revision[a] > 0

(* The revision and the history agree: an account is past revision 0       *)
(* exactly when it has history, and its newest event carries the revision  *)
(* it is at, whichever of apply and the sweeper wrote it, and whatever the *)
(* trim removed.                                                           *)
NewestEventCarriesTheRevision ==
    \A a \in Accounts :
        /\ revision[a] = 0 <=> EventsOf(events, a) = {}
        /\ \A e \in EventsOf(events, a) :
               NewerThan(events, e) = {} => e.revision = revision[a]

(* The requests in an event log: everything but the sweeper's events.      *)
RequestEvents(log) == {e \in log : e.action # PURGE_RETIRED}

(* What is kept of the history of an account's requests has no gap and no  *)
(* repeat: from one request to the next the revision moves by one, however *)
(* many purges were recorded between them.  A trim that cut a hole in the  *)
(* middle, a bump without its event, or a write that saw its neighbour's   *)
(* revision breaks it.  The sweeper's own events are the subject of        *)
(* NoEventRepeatsARevision.                                                *)
HistoryHasNoGaps ==
    LET requests == RequestEvents(events)
    IN  \A f \in requests : \A e \in EventsOf(requests, f.account) :
            (f.sequence > e.sequence /\ NewerThan(requests, e) \ NewerThan(requests, f) = {f})
                => f.revision = e.revision + 1

(* The log of an account never holds more than its cap, also after a purge *)
(* that appended several events to it.                                     *)
LogStaysCapped ==
    \A a \in Accounts : Cardinality(EventsOf(events, a)) <= EventCap

(* However writes, resets and purges follow one another, an account never  *)
(* has rows under more profiles than _enforce_profile_cap allows.          *)
ProfilesStayCapped ==
    \A a \in Accounts : Cardinality(StoredProfiles(rows[a])) <= MAX_PROFILES_PER_ACCOUNT

-----------------------------------------------------------------------------
(* What a step may never do.                                               *)

Forgotten(a) == a \in accounts /\ a \notin accounts'

(* No setting changes behind the person's back: when the rows of an account*)
(* move, its newest event is new and names every key that moved -- unless  *)
(* the account was forgotten, and of one that was nothing at all is left.  *)
EveryChangeIsRecorded ==
    [][\A a \in Accounts :
        /\ Forgotten(a) => /\ \A r \in RowKeys : rows'[a][r] = Unset
                           /\ EventsOf(events', a) = {}
                           /\ revision'[a] = 0
        /\ rows'[a] # rows[a] =>
              \/ Forgotten(a)
              \/ \E e \in EventsOf(events', a) :
                    /\ NewerThan(events', e) = {}
                    /\ e \notin events
                    /\ {r[2] : r \in {x \in RowKeys : rows'[a][x] # rows[a][x]}}
                           \subseteq UNION {f.changed : f \in EventsOf(events', a) \ events}
      ]_tables

(* The revision is the cache key and the concurrency token, so content may *)
(* move under an unmoved revision only as a purge: rows of one key going,  *)
(* none appearing and none changing value.  And it moves by one at a time. *)
RevisionMovesWithTheRows ==
    [][\A a \in Accounts :
        /\ revision'[a] # revision[a]
               => Forgotten(a) \/ revision'[a] = revision[a] + 1
        /\ (rows'[a] # rows[a] /\ revision'[a] = revision[a])
               => \E k \in Keys : \A r \in RowKeys :
                      rows'[a][r] = IF r[2] = k THEN Unset ELSE rows[a][r]
      ]_tables

(* Trimming takes the oldest: an event leaves the log of an account that   *)
(* is not forgotten only with EventCap newer ones there to replace it.     *)
TrimTakesTheOldest ==
    [][\A e \in events \ events' :
        \/ Forgotten(e.account)
        \/ Cardinality({f \in EventsOf(events', e.account) : f.sequence > e.sequence})
               = EventCap]_tables

(* A sequence is never handed out twice, not even after the history it     *)
(* numbered was forgotten or trimmed, so the cursor of a reader that is    *)
(* half way through stays a position between older and newer: the counter  *)
(* never falls, whatever leaves the table, and what a step appends is      *)
(* numbered above what it was and within what it becomes.                  *)
SequencesAreNeverReused ==
    [][/\ lastSequence' >= lastSequence
       /\ \A e \in events' \ events : e.sequence \in (lastSequence + 1)..lastSequence']_tables

(* Somebody who walks a history page by page, with an append, a trim, a    *)
(* purge or an erasure between two pages, sees no event twice and nothing  *)
(* that came after their page, and passes over nothing that is still       *)
(* there: what is older than their first cursor is on this page, on the    *)
(* next, or behind a full next page.                                       *)
PagesNeitherSkipNorRepeat ==
    [][\A account \in Accounts, limit \in 1..EventCap, before \in 1..Newest :
        LET page == Page(events, account, before, limit)
            cursor == NextBefore(page, limit)
            next == Page(events', account, cursor, limit)
            left == EventsOf(events, account) \cap events'
        IN  cursor # NoCursor =>
                /\ page \cap next = {}
                /\ next \subseteq left
                /\ \A e \in left : e.sequence < before =>
                       \/ e \in page \cup next
                       \/ /\ Cardinality(next) = limit
                          /\ \A f \in next : f.sequence > e.sequence
      ]_tables
-----------------------------------------------------------------------------
(* What the documentation says and the code does not do.                   *)

(* events/log.py, of an event's revision: "An event whose revision equals  *)
(* the previous one cannot exist: a write that changes nothing bumps       *)
(* nothing and logs nothing."                                              *)
NoEventRepeatsARevision ==
    \A f \in events : \A e \in EventsOf(events, f.account) :
        e # f => e.revision # f.revision
=============================================================================
