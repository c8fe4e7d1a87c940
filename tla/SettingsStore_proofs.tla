------------------------ MODULE SettingsStore_proofs ------------------------
(***************************************************************************)
(* Theorems about the settings tables, for every value of the constants.   *)
(***************************************************************************)
EXTENDS SettingsStore, FiniteSetTheorems, WellFoundedInduction, TLAPS

StoredRows == [RowKeys -> Values \cup {Unset}]

-----------------------------------------------------------------------------
(* Facts about the operators the actions are built from.                   *)

(* A change list has a last real change to a row it really changes.        *)
LEMMA LastPosition ==
    ASSUME NEW n \in Nat, NEW S, S \subseteq 1..n, S # {}
    PROVE  \E i \in S : \A j \in S : j <= i
<1> DEFINE T == {n - i : i \in S}
<1>1. T \subseteq Nat /\ T # {}
  <2>1. \A i \in S : n - i \in Nat
    OBVIOUS
  <2> QED
    BY <2>1
<1>2. \E x \in T : \A y \in T : ~ (<<y, x>> \in OpToRel(<, Nat))
  BY <1>1, NatLessThanWellFounded, WFMin, Zenon
<1>3. PICK x \in T : \A y \in T : ~ (y < x)
  BY <1>1, <1>2 DEF OpToRel
<1>4. PICK i \in S : x = n - i
  OBVIOUS
<1>5. \A j \in S : j <= i
  <2> SUFFICES ASSUME NEW j \in S PROVE j <= i
    OBVIOUS
  <2>1. n - j \in T
    OBVIOUS
  <2>2. ~ (n - j < n - i)
    BY <2>1, <1>3, <1>4
  <2> QED
    BY <2>2
<1> QED
  BY <1>5

(* Every change in a list the service hands over is well formed.           *)
LEMMA ChangesTyped ==
    ASSUME NEW changes \in ChangeLists
    PROVE  /\ Len(changes) \in Nat
           /\ DOMAIN changes = 1..Len(changes)
           /\ \A i \in DOMAIN changes : changes[i] \in Change
BY ChangeListsAssumption

(* A row ends up as it was, or as some change of the list made it.         *)
LEMMA RowAfterIsStoredOrWritten ==
    ASSUME NEW stored \in StoredRows, NEW changes \in ChangeLists, NEW row \in RowKeys
    PROVE  \/ RowAfter(RealChanges(stored, changes), stored, changes, row) = stored[row]
           \/ \E i \in DOMAIN changes :
                 /\ changes[i].row = row
                 /\ RowAfter(RealChanges(stored, changes), stored, changes, row) = changes[i].value
<1> DEFINE writes == {i \in RealChanges(stored, changes) : changes[i].row = row}
           last   == CHOOSE i \in writes : \A j \in writes : j <= i
<1>1. CASE writes = {}
  BY <1>1 DEF RowAfter
<1>2. CASE writes # {}
  <2>1. writes \subseteq 1..Len(changes) /\ Len(changes) \in Nat
    BY ChangesTyped DEF RealChanges
  <2>2. \E i \in writes : \A j \in writes : j <= i
    BY <2>1, <1>2, LastPosition
  <2>3. last \in writes
    BY <2>2
  <2>4. RowAfter(RealChanges(stored, changes), stored, changes, row) = changes[last].value
    BY <1>2 DEF RowAfter
  <2> QED
    BY <2>3, <2>4 DEF RealChanges
<1> QED
  BY <1>1, <1>2

LEMMA RowsAfterTyped ==
    ASSUME NEW stored \in StoredRows, NEW changes \in ChangeLists
    PROVE  RowsAfter(stored, changes) \in StoredRows
<1> SUFFICES ASSUME NEW row \in RowKeys
             PROVE  RowAfter(RealChanges(stored, changes), stored, changes, row) \in Values \cup {Unset}
  BY DEF RowsAfter, StoredRows
<1> QED
  BY RowAfterIsStoredOrWritten, ChangesTyped DEF Change, StoredRows

LEMMA ChangedKeysTyped ==
    ASSUME NEW stored \in StoredRows, NEW changes \in ChangeLists
    PROVE  ChangedKeys(stored, changes) \subseteq Keys
BY ChangesTyped DEF ChangedKeys, RealChanges, Change, RowKeys
-----------------------------------------------------------------------------
(* The tables always have the types of their columns.                      *)

LEMMA InitTypeOK == Init => TypeOK
BY CapsAssumption DEF Init, TypeOK

LEMMA AppendTyped ==
    ASSUME TypeOK, NEW account \in Accounts, NEW action \in WriteActions, NEW actor \in Actors,
           NEW newRevision \in Nat, NEW changed \in SUBSET Keys,
           AppendEvent(account, action, actor, newRevision, changed)
    PROVE  events' \subseteq Event /\ lastSequence' \in 0..MaxSequence
<1>1. lastSequence + 1 \in 1..MaxSequence /\ lastSequence' = lastSequence + 1
  BY CapsAssumption DEF AppendEvent, TypeOK
<1>2. events' \subseteq events \cup {[account  |-> account,
                                     sequence |-> lastSequence + 1,
                                     action   |-> action,
                                     actor    |-> actor,
                                     revision |-> newRevision,
                                     changed  |-> changed]}
  BY DEF AppendEvent, Trim
<1> QED
  BY <1>1, <1>2, CapsAssumption DEF TypeOK, Event

LEMMA ApplyTyped ==
    ASSUME TypeOK, NEW account \in Accounts, NEW changes \in ChangeLists,
           NEW action \in WriteActions, NEW actor \in Actors, NEW ifRevision,
           Apply(account, changes, action, actor, ifRevision)
    PROVE  TypeOK'
<1>1. rows[account] \in StoredRows /\ revision[account] + 1 \in Nat
  BY DEF TypeOK, StoredRows
<1>2. accounts' \subseteq Accounts
  BY DEF Apply, TypeOK
<1>3. CASE UNCHANGED <<revision, rows, events, lastSequence>>
  BY <1>2, <1>3 DEF TypeOK
<1>4. CASE /\ rows' = [rows EXCEPT ![account] = RowsAfter(rows[account], changes)]
           /\ revision' = [revision EXCEPT ![account] = @ + 1]
           /\ AppendEvent(account, action, actor, revision[account] + 1,
                          ChangedKeys(rows[account], changes))
  <2>1. rows' \in [Accounts -> StoredRows]
    BY <1>1, <1>4, RowsAfterTyped DEF TypeOK, StoredRows
  <2>2. revision' \in [Accounts -> Nat]
    BY <1>1, <1>4 DEF TypeOK
  <2>3. ChangedKeys(rows[account], changes) \in SUBSET Keys
    BY <1>1, ChangedKeysTyped
  <2>4. events' \subseteq Event /\ lastSequence' \in 0..MaxSequence
    BY <1>1, <1>4, <2>3, AppendTyped
  <2> QED
    BY <1>2, <2>1, <2>2, <2>4 DEF TypeOK, StoredRows
<1> QED
  BY <1>3, <1>4 DEF Apply

LEMMA ForgetTyped ==
    ASSUME TypeOK, NEW account \in Accounts, Forget(account)
    PROVE  TypeOK'
BY DEF TypeOK, Forget

(* A key's affected rows are finite in number, so they can be numbered.    *)
LEMMA AffectedFinite ==
    ASSUME NEW key \in Keys
    PROVE  /\ IsFiniteSet(AffectedRows(key))
           /\ Cardinality(AffectedRows(key)) \in Nat
<1>1. IsFiniteSet(Profiles \cup {ACCOUNT_PROFILE})
  BY FiniteAssumption, FS_AddElement
<1>2. IsFiniteSet(RowKeys)
  BY <1>1, FiniteAssumption, FS_Product DEF RowKeys
<1>3. IsFiniteSet(Accounts \X RowKeys)
  BY <1>2, FiniteAssumption, FS_Product
<1>4. AffectedRows(key) \in SUBSET (Accounts \X RowKeys)
  BY DEF AffectedRows
<1> QED
  BY <1>3, <1>4, FS_Subset, FS_CardinalityType

LEMMA PurgeTyped ==
    ASSUME TypeOK, NEW key \in Keys, PurgeSetting(key)
    PROVE  TypeOK'
<1> DEFINE affected == AffectedRows(key)
           n        == Cardinality(affected)
<1>1. n \in Nat
  BY AffectedFinite
<1>2. lastSequence' = lastSequence + n /\ lastSequence + n <= MaxSequence
  BY DEF PurgeSetting
<1>3. rows' \in [Accounts -> [RowKeys -> Values \cup {Unset}]]
  BY DEF PurgeSetting, TypeOK
<1>4. PICK position \in Numberings(affected) :
         events' = Trim(events \cup
                        {[account  |-> ar[1],
                          sequence |-> lastSequence + position[ar],
                          action   |-> PURGE_RETIRED,
                          actor    |-> SWEEPER,
                          revision |-> revision[ar[1]],
                          changed  |-> {key}] : ar \in affected},
                        {ar[1] : ar \in affected})
  BY DEF PurgeSetting
<1>5. \A ar \in affected : [account  |-> ar[1],
                            sequence |-> lastSequence + position[ar],
                            action   |-> PURGE_RETIRED,
                            actor    |-> SWEEPER,
                            revision |-> revision[ar[1]],
                            changed  |-> {key}] \in Event
  <2> SUFFICES ASSUME NEW ar \in affected
               PROVE  /\ ar[1] \in Accounts
                      /\ lastSequence + position[ar] \in 1..MaxSequence
                      /\ revision[ar[1]] \in Nat
    BY DEF Event
  <2>1. ar[1] \in Accounts
    BY DEF AffectedRows
  <2>2. position[ar] \in 1..n
    BY DEF Numberings
  <2> QED
    BY <2>1, <2>2, <1>1, <1>2, CapsAssumption DEF TypeOK
<1>6. events' \subseteq Event
  BY <1>4, <1>5 DEF TypeOK, Trim
<1>7. lastSequence' \in 0..MaxSequence
  BY <1>1, <1>2, CapsAssumption DEF TypeOK
<1> QED
  BY <1>3, <1>6, <1>7 DEF PurgeSetting, TypeOK

LEMMA NextTypeOK == TypeOK /\ [Next]_tables => TypeOK'
<1> SUFFICES ASSUME TypeOK, [Next]_tables PROVE TypeOK'
  OBVIOUS
<1>1. CASE ApplySome
  BY <1>1, ApplyTyped DEF ApplySome
<1>2. ASSUME NEW account \in Accounts, Forget(account) PROVE TypeOK'
  BY <1>2, ForgetTyped
<1>3. ASSUME NEW key \in Keys, PurgeSetting(key) PROVE TypeOK'
  BY <1>3, PurgeTyped
<1>4. CASE UNCHANGED tables
  BY <1>4 DEF tables, TypeOK
<1> QED
  BY <1>1, <1>2, <1>3, <1>4 DEF Next

(* Type correctness, for any accounts, keys, profiles, values and caps.    *)
THEOREM TypeCorrect == Spec => []TypeOK
BY InitTypeOK, NextTypeOK, PTL DEF Spec
-----------------------------------------------------------------------------
(* The settings rows and the account row go together.                      *)

LEMMA RowsStep == TypeOK /\ RowsBelongToAccounts /\ [Next]_tables => RowsBelongToAccounts'
<1> SUFFICES ASSUME TypeOK, RowsBelongToAccounts, [Next]_tables
             PROVE  RowsBelongToAccounts'
  OBVIOUS
<1>1. ASSUME NEW account \in Accounts, NEW changes \in ChangeLists,
             NEW action \in WriteActions, NEW actor \in Actors, NEW ifRevision,
             Apply(account, changes, action, actor, ifRevision)
      PROVE  RowsBelongToAccounts'
  <2>1. accounts' = accounts \cup {account}
    BY <1>1 DEF Apply
  <2>2. CASE UNCHANGED <<revision, rows, events, lastSequence>>
    BY <2>1, <2>2 DEF RowsBelongToAccounts
  <2>3. CASE /\ rows' = [rows EXCEPT ![account] = RowsAfter(rows[account], changes)]
             /\ revision' = [revision EXCEPT ![account] = @ + 1]
    BY <2>1, <2>3 DEF RowsBelongToAccounts, TypeOK
  <2> QED
    BY <1>1, <2>2, <2>3 DEF Apply
<1>2. ASSUME NEW account \in Accounts, Forget(account)
      PROVE  RowsBelongToAccounts'
  BY <1>2 DEF Forget, RowsBelongToAccounts, TypeOK
<1>3. ASSUME NEW key \in Keys, PurgeSetting(key)
      PROVE  RowsBelongToAccounts'
  BY <1>3 DEF PurgeSetting, RowsBelongToAccounts, TypeOK
<1>4. CASE UNCHANGED tables
  BY <1>4 DEF tables, RowsBelongToAccounts
<1> QED
  BY <1>1, <1>2, <1>3, <1>4 DEF Next, ApplySome

(* No setting is ever stored for an account without an account row: the    *)
(* foreign key holds, and so a forget leaves nothing behind.               *)
THEOREM RowsAlwaysBelong == Spec => []RowsBelongToAccounts
<1>1. Init => RowsBelongToAccounts
  BY DEF Init, RowsBelongToAccounts
<1> QED
  BY <1>1, RowsStep, TypeCorrect, PTL DEF Spec
-----------------------------------------------------------------------------
(* The profile cap.                                                        *)

LEMMA ProfilesFinite ==
    ASSUME NEW stored \in StoredRows
    PROVE  /\ StoredProfiles(stored) \subseteq Profiles
           /\ IsFiniteSet(StoredProfiles(stored))
           /\ Cardinality(StoredProfiles(stored)) \in Nat
<1>1. StoredProfiles(stored) \in SUBSET Profiles
  BY DEF StoredProfiles, RowKeys
<1> QED
  BY <1>1, FiniteAssumption, FS_Subset, FS_CardinalityType

(* A write uses no profile but those in use already and those it names.    *)
LEMMA ProfilesAfterApply ==
    ASSUME NEW stored \in StoredRows, NEW changes \in ChangeLists
    PROVE  StoredProfiles(RowsAfter(stored, changes))
               \subseteq StoredProfiles(stored) \cup IncomingProfiles(changes)
<1> SUFFICES ASSUME NEW row \in RowKeys, RowsAfter(stored, changes)[row] # Unset,
                    row[1] # ACCOUNT_PROFILE
             PROVE  row[1] \in StoredProfiles(stored) \cup IncomingProfiles(changes)
  BY DEF StoredProfiles
<1>1. RowAfter(RealChanges(stored, changes), stored, changes, row) # Unset
  BY DEF RowsAfter
<1>2. CASE RowAfter(RealChanges(stored, changes), stored, changes, row) = stored[row]
  BY <1>1, <1>2 DEF StoredProfiles
<1>3. ASSUME NEW i \in DOMAIN changes, changes[i].row = row,
             RowAfter(RealChanges(stored, changes), stored, changes, row) = changes[i].value
      PROVE  row[1] \in IncomingProfiles(changes)
  BY <1>1, <1>3 DEF IncomingProfiles
<1> QED
  BY <1>2, <1>3, RowAfterIsStoredOrWritten

LEMMA IncomingFinite ==
    ASSUME NEW changes \in ChangeLists
    PROVE  IsFiniteSet(IncomingProfiles(changes))
<1>1. IncomingProfiles(changes) \in SUBSET Profiles
  BY ChangesTyped DEF IncomingProfiles, Change, RowKeys
<1> QED
  BY <1>1, FiniteAssumption, FS_Subset

LEMMA ApplyKeepsCap ==
    ASSUME NEW stored \in StoredRows, NEW changes \in ChangeLists,
           Cardinality(StoredProfiles(stored)) <= MAX_PROFILES_PER_ACCOUNT,
           WithinProfileCap(stored, changes)
    PROVE  Cardinality(StoredProfiles(RowsAfter(stored, changes)))
               <= MAX_PROFILES_PER_ACCOUNT
<1> DEFINE before   == StoredProfiles(stored)
           after    == StoredProfiles(RowsAfter(stored, changes))
           incoming == IncomingProfiles(changes)
<1>1. IsFiniteSet(before) /\ IsFiniteSet(incoming) /\ after \subseteq before \cup incoming
  BY ProfilesFinite, IncomingFinite, ProfilesAfterApply
<1>2. IsFiniteSet(before \cup incoming)
  BY <1>1, FS_Union
<1>3. /\ Cardinality(after) <= Cardinality(before \cup incoming)
      /\ Cardinality(before \cup incoming) \in Nat
      /\ Cardinality(after) \in Nat
  BY <1>1, <1>2, FS_Subset, FS_CardinalityType
<1>4. Cardinality(before \cup incoming) <= MAX_PROFILES_PER_ACCOUNT
  <2>1. CASE incoming = {}
    BY <2>1
  <2>2. CASE incoming # {}
    BY <2>2 DEF WithinProfileCap
  <2> QED
    BY <2>1, <2>2
<1> QED
  BY <1>3, <1>4, CapsAssumption

(* Removing rows never needs another profile.                              *)
LEMMA FewerRowsFewerProfiles ==
    ASSUME NEW stored \in StoredRows, NEW fewer \in StoredRows,
           \A r \in RowKeys : fewer[r] # Unset => stored[r] # Unset,
           Cardinality(StoredProfiles(stored)) <= MAX_PROFILES_PER_ACCOUNT
    PROVE  Cardinality(StoredProfiles(fewer)) <= MAX_PROFILES_PER_ACCOUNT
<1>1. StoredProfiles(fewer) \subseteq StoredProfiles(stored)
  BY DEF StoredProfiles
<1>2. /\ Cardinality(StoredProfiles(fewer)) <= Cardinality(StoredProfiles(stored))
      /\ Cardinality(StoredProfiles(fewer)) \in Nat
      /\ Cardinality(StoredProfiles(stored)) \in Nat
  BY <1>1, ProfilesFinite, FS_Subset
<1> QED
  BY <1>2, CapsAssumption

LEMMA ProfilesStep == TypeOK /\ ProfilesStayCapped /\ [Next]_tables => ProfilesStayCapped'
<1> SUFFICES ASSUME TypeOK, ProfilesStayCapped, [Next]_tables, NEW a \in Accounts
             PROVE  Cardinality(StoredProfiles(rows'[a])) <= MAX_PROFILES_PER_ACCOUNT
  BY DEF ProfilesStayCapped
<1>1. /\ rows \in [Accounts -> StoredRows]
      /\ rows' \in [Accounts -> StoredRows]
      /\ Cardinality(StoredProfiles(rows[a])) <= MAX_PROFILES_PER_ACCOUNT
  BY NextTypeOK DEF TypeOK, StoredRows, ProfilesStayCapped
<1>2. ASSUME NEW account \in Accounts, NEW changes \in ChangeLists,
             NEW action \in WriteActions, NEW actor \in Actors, NEW ifRevision,
             Apply(account, changes, action, actor, ifRevision)
      PROVE  Cardinality(StoredProfiles(rows'[a])) <= MAX_PROFILES_PER_ACCOUNT
  <2>1. CASE rows'[a] = rows[a]
    BY <1>1, <2>1
  <2>2. CASE rows'[a] = RowsAfter(rows[a], changes) /\ a = account
    BY <1>1, <1>2, <2>2, ApplyKeepsCap DEF Apply
  <2> QED
    BY <1>1, <1>2, <2>1, <2>2 DEF Apply
<1>3. ASSUME NEW account \in Accounts, Forget(account)
      PROVE  Cardinality(StoredProfiles(rows'[a])) <= MAX_PROFILES_PER_ACCOUNT
  <2>1. \A r \in RowKeys : rows'[a][r] # Unset => rows[a][r] # Unset
    BY <1>1, <1>3 DEF Forget
  <2> QED
    BY <1>1, <2>1, FewerRowsFewerProfiles
<1>4. ASSUME NEW key \in Keys, PurgeSetting(key)
      PROVE  Cardinality(StoredProfiles(rows'[a])) <= MAX_PROFILES_PER_ACCOUNT
  <2>1. \A r \in RowKeys : rows'[a][r] # Unset => rows[a][r] # Unset
    BY <1>1, <1>4 DEF PurgeSetting
  <2> QED
    BY <1>1, <2>1, FewerRowsFewerProfiles
<1>5. CASE UNCHANGED tables
  BY <1>1, <1>5 DEF tables
<1> QED
  BY <1>2, <1>3, <1>4, <1>5 DEF Next, ApplySome

(* No sequence of writes, resets, imports, forgets and purges leaves an    *)
(* account with more profiles than the cap.                                *)
THEOREM ProfilesAlwaysCapped == Spec => []ProfilesStayCapped
<1>1. Init => ProfilesStayCapped
  <2>1. Init => \A a \in Accounts : StoredProfiles(rows[a]) = {}
    BY DEF Init, StoredProfiles
  <2> QED
    BY <2>1, FS_EmptySet, CapsAssumption DEF ProfilesStayCapped
<1> QED
  BY <1>1, ProfilesStep, TypeCorrect, PTL DEF Spec
-----------------------------------------------------------------------------
(* A set of numbered events has a newest and an oldest, and what is among  *)
(* the k newest of it is newer than everything else, and is k events       *)
(* unless it is all of them.                                               *)

LEMMA NewestOf ==
    ASSUME NEW S, S \subseteq Event, S # {}
    PROVE  \E m \in S : \A e \in S : e.sequence <= m.sequence
<1> DEFINE numbers == {e.sequence : e \in S}
<1>1. numbers \subseteq 1..MaxSequence /\ numbers # {} /\ MaxSequence \in Nat
  BY CapsAssumption DEF Event
<1>2. PICK n \in numbers : \A j \in numbers : j <= n
  BY <1>1, LastPosition
<1> QED
  BY <1>2

LEMMA OldestOf ==
    ASSUME NEW S, S \subseteq Event, S # {}
    PROVE  \E m \in S : \A e \in S : m.sequence <= e.sequence
<1> DEFINE numbers == {e.sequence : e \in S}
<1>1. numbers \subseteq Nat /\ numbers # {}
  BY CapsAssumption DEF Event
<1>2. \E x \in numbers : \A y \in numbers : ~ (<<y, x>> \in OpToRel(<, Nat))
  BY <1>1, NatLessThanWellFounded, WFMin, Zenon
<1>3. PICK x \in numbers : \A y \in numbers : ~ (y < x)
  BY <1>1, <1>2 DEF OpToRel
<1>4. PICK m \in S : m.sequence = x
  OBVIOUS
<1>5. \A e \in S : m.sequence <= e.sequence
  <2> SUFFICES ASSUME NEW e \in S PROVE m.sequence <= e.sequence
    OBVIOUS
  <2>1. e.sequence \in numbers /\ m.sequence \in Nat /\ e.sequence \in Nat
    BY <1>1
  <2> QED
    BY <1>3, <1>4, <2>1
<1> QED
  BY <1>5

Above(S, e) == {f \in S : f.sequence > e.sequence}
Top(S, k) == {e \in S : Cardinality(Above(S, e)) < k}

LEMMA TopOf ==
    ASSUME NEW S, S \subseteq Event, IsFiniteSet(S), NEW k \in Nat \ {0},
           \A e, f \in S : e.sequence = f.sequence => e = f
    PROVE  /\ \A x \in S \ Top(S, k), y \in Top(S, k) : y.sequence > x.sequence
           /\ IsFiniteSet(Top(S, k)) /\ Cardinality(Top(S, k)) \in Nat
           /\ Cardinality(Top(S, k)) <= k
           /\ Top(S, k) # S => Cardinality(Top(S, k)) = k
           /\ S # {} => Top(S, k) # {}
<1> DEFINE K == Top(S, k)
<1>1. \A e \in S : e.sequence \in Nat
  BY CapsAssumption DEF Event
<1>2. \A e \in S : IsFiniteSet(Above(S, e)) /\ Cardinality(Above(S, e)) \in Nat
  <2> SUFFICES ASSUME NEW e \in S
               PROVE  IsFiniteSet(Above(S, e)) /\ Cardinality(Above(S, e)) \in Nat
    OBVIOUS
  <2>1. Above(S, e) \in SUBSET S
    BY DEF Above
  <2> QED
    BY <2>1, FS_Subset, FS_CardinalityType
<1>3. K \subseteq S /\ IsFiniteSet(K) /\ Cardinality(K) \in Nat
  <2>1. K \in SUBSET S
    BY DEF Top
  <2> QED
    BY <2>1, FS_Subset, FS_CardinalityType
<1>4. ASSUME NEW x \in S \ K, NEW y \in K
      PROVE  y.sequence > x.sequence
  <2> SUFFICES ASSUME ~ (y.sequence > x.sequence) PROVE FALSE
    OBVIOUS
  <2>1. x \in S /\ y \in S /\ x.sequence \in Nat /\ y.sequence \in Nat
    BY <1>1, <1>3
  <2>2. Above(S, x) \in SUBSET Above(S, y)
    <3> SUFFICES ASSUME NEW f \in S, f.sequence > x.sequence PROVE f.sequence > y.sequence
      BY DEF Above
    <3>1. f.sequence \in Nat
      BY <1>1
    <3> QED
      BY <2>1, <3>1
  <2>3. Cardinality(Above(S, x)) <= Cardinality(Above(S, y))
    BY <1>2, <2>1, <2>2, FS_Subset
  <2>4. Cardinality(Above(S, y)) < k /\ ~ (Cardinality(Above(S, x)) < k)
    BY <2>1 DEF Top
  <2> QED
    BY <1>2, <2>1, <2>3, <2>4
<1>5. Cardinality(K) <= k
  <2>1. CASE K = {}
    BY <2>1, FS_EmptySet
  <2>2. CASE K # {}
    <3>1. PICK oldest \in K : \A e \in K : oldest.sequence <= e.sequence
      BY <1>3, <2>2, OldestOf
    <3>2. K \ {oldest} \in SUBSET Above(S, oldest)
      <4> SUFFICES ASSUME NEW e \in K, e # oldest PROVE e \in S /\ e.sequence > oldest.sequence
        BY DEF Above
      <4>1. e \in S /\ oldest \in S /\ e.sequence # oldest.sequence
        BY <1>3
      <4> QED
        BY <1>1, <3>1, <4>1
    <3>3. oldest \in S /\ Cardinality(Above(S, oldest)) < k
      BY DEF Top
    <3>4. Cardinality(K \ {oldest}) <= Cardinality(Above(S, oldest))
      BY <1>2, <3>2, <3>3, FS_Subset
    <3>5. Cardinality(K \ {oldest}) = Cardinality(K) - 1
      BY <1>3, FS_RemoveElement
    <3> QED
      BY <1>2, <1>3, <3>3, <3>4, <3>5
  <2> QED
    BY <2>1, <2>2
<1>6. ASSUME K # S PROVE Cardinality(K) = k
  <2>1. S \ K \subseteq Event /\ S \ K # {}
    BY <1>3, <1>6
  <2>2. PICK x \in S \ K : \A e \in S \ K : e.sequence <= x.sequence
    BY <2>1, NewestOf
  <2>3. Above(S, x) \in SUBSET K
    <3> SUFFICES ASSUME NEW f \in S, f.sequence > x.sequence, f \notin K PROVE FALSE
      BY DEF Above
    <3>1. f.sequence <= x.sequence /\ f.sequence \in Nat /\ x.sequence \in Nat
      BY <1>1, <2>2
    <3> QED
      BY <3>1
  <2>4. Cardinality(Above(S, x)) <= Cardinality(K)
    BY <1>3, <2>3, FS_Subset
  <2>5. ~ (Cardinality(Above(S, x)) < k)
    BY DEF Top
  <2> QED
    BY <1>2, <1>3, <1>5, <2>4, <2>5
<1>7. ASSUME S # {} PROVE K # {}
  <2>1. PICK m \in S : \A e \in S : e.sequence <= m.sequence
    BY <1>7, NewestOf
  <2>2. Above(S, m) = {}
    <3> SUFFICES ASSUME NEW f \in S, f.sequence > m.sequence PROVE FALSE
      BY DEF Above
    <3>1. f.sequence <= m.sequence /\ f.sequence \in Nat /\ m.sequence \in Nat
      BY <1>1, <2>1
    <3> QED
      BY <3>1
  <2>3. Cardinality(Above(S, m)) < k
    BY <2>2, FS_EmptySet
  <2> QED
    BY <2>3 DEF Top
<1> QED
  BY <1>3, <1>4, <1>5, <1>6, <1>7
-----------------------------------------------------------------------------
(* The event log.  Its cap holds because events are numbered once: what the*)
(* trim keeps of an account is its EventCap newest.                        *)

NumberedOnce ==
    /\ IsFiniteSet(events)
    /\ \A e, f \in events : e.sequence = f.sequence => e = f
    /\ \A e \in events : e.sequence <= lastSequence

LEMMA TrimKeepsTheTop ==
    ASSUME NEW log, NEW appendedTo, NEW a \in appendedTo
    PROVE  EventsOf(Trim(log, appendedTo), a) = Top(EventsOf(log, a), EventCap)
<1>1. \A e \in EventsOf(log, a) : NewerThan(log, e) = Above(EventsOf(log, a), e)
  BY DEF NewerThan, EventsOf, Above
<1> QED
  BY <1>1 DEF EventsOf, Trim, Top

LEMMA TrimmedLogIsCapped ==
    ASSUME NEW log, log \subseteq Event, IsFiniteSet(log),
           \A e, f \in log : e.sequence = f.sequence => e = f,
           NEW appendedTo, NEW a \in appendedTo
    PROVE  Cardinality(EventsOf(Trim(log, appendedTo), a)) <= EventCap
<1> DEFINE S == EventsOf(log, a)
<1>1. S \in SUBSET log
  BY DEF EventsOf
<1>2. S \subseteq Event /\ IsFiniteSet(S) /\ \A e, f \in S : e.sequence = f.sequence => e = f
  BY <1>1, FS_Subset
<1> QED
  BY <1>2, TopOf, TrimKeepsTheTop, CapsAssumption

(* The events that reach the log in one step are numbered once, above all  *)
(* that were ever numbered, and the accounts they are of are trimmed.      *)
Grown(new, appendedTo) ==
    /\ new \subseteq Event
    /\ IsFiniteSet(new)
    /\ \A e \in new : lastSequence < e.sequence /\ e.sequence <= lastSequence'
    /\ \A e, f \in new : e.sequence = f.sequence => e = f
    /\ lastSequence <= lastSequence' /\ lastSequence' \in Nat
    /\ \A e \in new : e.account \in appendedTo
    /\ events' = Trim(events \cup new, appendedTo)

LEMMA GrownSources ==
    ASSUME TypeOK, NumberedOnce, NEW new, NEW appendedTo, Grown(new, appendedTo)
    PROVE  LET log == events \cup new
           IN  /\ log \subseteq Event
               /\ IsFiniteSet(log)
               /\ \A e \in log : e.sequence \in Nat
               /\ \A e, f \in log : e.sequence = f.sequence => e = f
               /\ events' \subseteq log
               /\ \A e \in events, f \in new : e.sequence < f.sequence
<1> DEFINE log == events \cup new
<1>1. log \subseteq Event /\ IsFiniteSet(log)
  BY FS_Union DEF TypeOK, NumberedOnce, Grown
<1>2. \A e \in log : e.sequence \in Nat /\ lastSequence \in Nat
  BY <1>1, CapsAssumption DEF Event, TypeOK
<1>3. \A e \in events, f \in new : e.sequence < f.sequence
  BY <1>2 DEF NumberedOnce, Grown
<1>4. \A e, f \in log : e.sequence = f.sequence => e = f
  BY <1>2 DEF NumberedOnce, Grown
<1>5. events' \subseteq log
  BY DEF Trim, Grown
<1> QED
  BY <1>1, <1>2, <1>3, <1>4, <1>5

(* Such a step leaves a log numbered once and capped.                      *)
LEMMA GrownLog ==
    ASSUME TypeOK, NumberedOnce, LogStaysCapped, NEW new, NEW appendedTo, Grown(new, appendedTo)
    PROVE  NumberedOnce' /\ LogStaysCapped'
<1> DEFINE log == events \cup new
<1>1. /\ log \subseteq Event /\ IsFiniteSet(log)
      /\ \A e, f \in log : e.sequence = f.sequence => e = f
      /\ events' \in SUBSET log
  BY GrownSources
<1>2. \A e \in log : e.sequence \in Nat /\ lastSequence \in Nat
  BY <1>1, CapsAssumption DEF Event, TypeOK
<1>3. \A e \in log : e.sequence <= lastSequence'
  BY <1>2 DEF NumberedOnce, Grown
<1>4. NumberedOnce'
  BY <1>1, <1>3, FS_Subset DEF NumberedOnce
<1>5. ASSUME NEW a \in Accounts
      PROVE  Cardinality(EventsOf(events', a)) <= EventCap
  <2>1. CASE a \in appendedTo
    BY <1>1, <2>1, TrimmedLogIsCapped DEF Grown
  <2>2. CASE a \notin appendedTo
    <3>1. EventsOf(events', a) = EventsOf(events, a)
      BY <2>2 DEF EventsOf, Trim, Grown
    <3> QED
      BY <3>1 DEF LogStaysCapped
  <2> QED
    BY <2>1, <2>2
<1> QED
  BY <1>4, <1>5 DEF LogStaysCapped

(* The record an apply appends, and the one a purge appends for a row.     *)
Written(account, changes, action, actor) ==
    [account  |-> account,
     sequence |-> lastSequence + 1,
     action   |-> action,
     actor    |-> actor,
     revision |-> revision[account] + 1,
     changed  |-> ChangedKeys(rows[account], changes)]

Purged(key, position, ar) ==
    [account  |-> ar[1],
     sequence |-> lastSequence + position[ar],
     action   |-> PURGE_RETIRED,
     actor    |-> SWEEPER,
     revision |-> revision[ar[1]],
     changed  |-> {key}]

LEMMA ApplyGrows ==
    ASSUME TypeOK, NEW account \in Accounts, NEW changes \in ChangeLists,
           NEW action \in WriteActions, NEW actor \in Actors,
           AppendEvent(account, action, actor, revision[account] + 1,
                       ChangedKeys(rows[account], changes))
    PROVE  Grown({Written(account, changes, action, actor)}, {account})
<1> DEFINE e == Written(account, changes, action, actor)
<1>1. lastSequence \in Nat /\ lastSequence' = lastSequence + 1
      /\ lastSequence + 1 \in 1..MaxSequence
  BY CapsAssumption DEF AppendEvent, TypeOK
<1>2. e \in Event
  <2>1. ChangedKeys(rows[account], changes) \in SUBSET Keys
    BY ChangedKeysTyped DEF TypeOK, StoredRows
  <2> QED
    BY <1>1, <2>1 DEF Event, TypeOK, Written
<1>3. events' = Trim(events \cup {e}, {account})
  BY DEF AppendEvent, Written
<1>4. IsFiniteSet({e})
  BY FS_Singleton
<1>5. \A x \in {e} : /\ lastSequence < x.sequence
                     /\ x.sequence <= lastSequence'
                     /\ x.account \in {account}
  BY <1>1 DEF Written
<1>6. Grown({e}, {account})
  <2> HIDE DEF e
  <2> QED
    BY <1>1, <1>2, <1>3, <1>4, <1>5 DEF Grown
<1> QED
  BY <1>6

LEMMA PurgeGrows ==
    ASSUME TypeOK, NEW key \in Keys, PurgeSetting(key)
    PROVE  \E position \in Numberings(AffectedRows(key)) :
               Grown({Purged(key, position, ar) : ar \in AffectedRows(key)},
                     {ar[1] : ar \in AffectedRows(key)})
<1> DEFINE affected == AffectedRows(key)
           n        == Cardinality(affected)
<1>1. n \in Nat /\ IsFiniteSet(affected)
  BY AffectedFinite
<1>2. /\ lastSequence \in Nat /\ lastSequence' = lastSequence + n
      /\ lastSequence + n <= MaxSequence
  BY DEF PurgeSetting, TypeOK
<1>3. PICK position \in Numberings(affected) :
         events' = Trim(events \cup {Purged(key, position, ar) : ar \in affected},
                        {ar[1] : ar \in affected})
  BY DEF PurgeSetting, Purged
<1> DEFINE record(ar) == Purged(key, position, ar)
           new == {record(ar) : ar \in affected}
           appendedTo == {ar[1] : ar \in affected}
<1>4. \A ar \in affected : position[ar] \in 1..n /\ ar[1] \in Accounts
  BY DEF Numberings, AffectedRows
<1>5. new \subseteq Event
  <2> SUFFICES ASSUME NEW ar \in affected PROVE record(ar) \in Event
    OBVIOUS
  <2>1. lastSequence + position[ar] \in 1..MaxSequence
    BY <1>1, <1>2, <1>4, CapsAssumption
  <2>2. revision[ar[1]] \in Nat
    BY <1>4 DEF TypeOK
  <2> QED
    BY <1>4, <2>1, <2>2 DEF Event, Purged
<1>6. IsFiniteSet(new)
  <2> DEFINE f == [ar \in affected |-> record(ar)]
  <2>1. f \in Surjection(affected, new)
    BY DEF Surjection
  <2> QED
    BY <1>1, <2>1, FS_Surjection
<1>7. \A e \in new : lastSequence < e.sequence /\ e.sequence <= lastSequence'
  BY <1>1, <1>2, <1>4 DEF Purged
<1>8. \A e, f \in new : e.sequence = f.sequence => e = f
  <2> SUFFICES ASSUME NEW x \in affected, NEW y \in affected,
                      lastSequence + position[x] = lastSequence + position[y]
               PROVE  x = y
    BY DEF Purged
  <2>1. position[x] = position[y]
    BY <1>1, <1>2, <1>4
  <2> QED
    BY <2>1 DEF Numberings
<1>9. lastSequence <= lastSequence' /\ lastSequence' \in Nat
  BY <1>1, <1>2
<1>10. \A e \in new : e.account \in appendedTo
  BY DEF Purged
<1>11. Grown(new, appendedTo)
  <2>1. events' = Trim(events \cup new, appendedTo)
    BY <1>3
  <2> HIDE DEF new, appendedTo
  <2> QED
    BY <1>5, <1>6, <1>7, <1>8, <1>9, <1>10, <2>1 DEF Grown
<1> QED
  BY <1>11

LEMMA ApplyLog ==
    ASSUME TypeOK, NumberedOnce, LogStaysCapped,
           NEW account \in Accounts, NEW changes \in ChangeLists,
           NEW action \in WriteActions, NEW actor \in Actors, NEW ifRevision,
           Apply(account, changes, action, actor, ifRevision)
    PROVE  NumberedOnce' /\ LogStaysCapped'
<1>1. CASE UNCHANGED <<revision, rows, events, lastSequence>>
  BY <1>1 DEF NumberedOnce, LogStaysCapped
<1>2. CASE AppendEvent(account, action, actor, revision[account] + 1,
                       ChangedKeys(rows[account], changes))
  BY <1>2, ApplyGrows, GrownLog
<1> QED
  BY <1>1, <1>2 DEF Apply

LEMMA PurgeLog ==
    ASSUME TypeOK, NumberedOnce, LogStaysCapped, NEW key \in Keys, PurgeSetting(key)
    PROVE  NumberedOnce' /\ LogStaysCapped'
BY PurgeGrows, GrownLog

LEMMA LogStep ==
    TypeOK /\ NumberedOnce /\ LogStaysCapped /\ [Next]_tables
        => NumberedOnce' /\ LogStaysCapped'
<1> SUFFICES ASSUME TypeOK, NumberedOnce, LogStaysCapped, [Next]_tables
             PROVE  NumberedOnce' /\ LogStaysCapped'
  OBVIOUS
<1>1. CASE ApplySome
  BY <1>1, ApplyLog DEF ApplySome
<1>2. ASSUME NEW account \in Accounts, Forget(account)
      PROVE  NumberedOnce' /\ LogStaysCapped'
  <2>1. events' \in SUBSET events /\ lastSequence' = lastSequence
    BY <1>2 DEF Forget
  <2>2. NumberedOnce'
    BY <2>1, FS_Subset DEF NumberedOnce
  <2>3. ASSUME NEW a \in Accounts
        PROVE  Cardinality(EventsOf(events', a)) <= EventCap
    <3>1. CASE a = account
      <4>1. EventsOf(events', a) = {}
        BY <1>2, <3>1 DEF Forget, EventsOf
      <4> QED
        BY <4>1, FS_EmptySet, CapsAssumption
    <3>2. CASE a # account
      <4>1. EventsOf(events', a) = EventsOf(events, a)
        BY <1>2, <3>2 DEF Forget, EventsOf
      <4> QED
        BY <4>1 DEF LogStaysCapped
    <3> QED
      BY <3>1, <3>2
  <2> QED
    BY <2>2, <2>3 DEF LogStaysCapped
<1>3. ASSUME NEW key \in Keys, PurgeSetting(key)
      PROVE  NumberedOnce' /\ LogStaysCapped'
  BY <1>3, PurgeLog
<1>4. CASE UNCHANGED tables
  BY <1>4 DEF tables, NumberedOnce, LogStaysCapped
<1> QED
  BY <1>1, <1>2, <1>3, <1>4 DEF Next

LEMMA AlwaysNumbered == Spec => [](NumberedOnce /\ LogStaysCapped)
<1>1. Init => NumberedOnce /\ LogStaysCapped
  <2>1. Init => \A a \in Accounts : EventsOf(events, a) = {}
    BY DEF Init, EventsOf
  <2> QED
    BY <2>1, FS_EmptySet, CapsAssumption DEF Init, NumberedOnce, LogStaysCapped
<1> QED
  BY <1>1, LogStep, TypeCorrect, PTL DEF Spec

(* The log of an account is never over its cap, whatever the order of      *)
(* writes and purges and however many rows one purge destroys.             *)
THEOREM LogAlwaysCapped == Spec => []LogStaysCapped
BY AlwaysNumbered, PTL
-----------------------------------------------------------------------------
(* What a step that grows the log leaves of it: of an account appended to, *)
(* the newest are new ones, and whatever is newer than an event that is    *)
(* kept is kept; other accounts keep what they had.                        *)

LEMMA GrownUpwards ==
    ASSUME TypeOK, NumberedOnce, NEW new, NEW appendedTo, Grown(new, appendedTo)
    PROVE  \A e \in events' : NewerThan(events', e) = NewerThan(events \cup new, e)
<1> DEFINE log == events \cup new
<1>1. /\ log \subseteq Event /\ IsFiniteSet(log)
      /\ \A e \in log : e.sequence \in Nat
      /\ \A e, f \in log : e.sequence = f.sequence => e = f
      /\ events' = Trim(log, appendedTo) /\ events' \subseteq log
  BY GrownSources DEF Grown
<1> HIDE DEF log
<1>2. ASSUME NEW e \in events', NEW g \in log, g.account = e.account, g.sequence > e.sequence
      PROVE  g \in events'
  <2>1. CASE e.account \notin appendedTo
    BY <1>1, <1>2, <2>1 DEF Trim
  <2>2. CASE e.account \in appendedTo
    <3> DEFINE S == EventsOf(log, e.account)
    <3>1. S \in SUBSET log
      BY DEF EventsOf
    <3>2. S \subseteq Event /\ IsFiniteSet(S) /\ \A x, y \in S : x.sequence = y.sequence => x = y
      BY <1>1, <3>1, FS_Subset
    <3>3. \A x \in S \ Top(S, EventCap), y \in Top(S, EventCap) : y.sequence > x.sequence
      BY <3>2, TopOf, CapsAssumption
    <3>4. EventsOf(events', e.account) = Top(S, EventCap)
      BY <1>1, <2>2, TrimKeepsTheTop
    <3>5. e \in Top(S, EventCap) /\ g \in S
      BY <1>2, <3>4 DEF EventsOf
    <3>6. ~ (e.sequence > g.sequence)
      BY <1>1, <1>2
    <3> QED
      BY <3>3, <3>4, <3>5, <3>6 DEF EventsOf
  <2> QED
    BY <2>1, <2>2
<1>3. ASSUME NEW e \in events'
      PROVE  NewerThan(events', e) = NewerThan(log, e)
  BY <1>1, <1>2 DEF NewerThan, EventsOf
<1> QED
  BY <1>3 DEF log

LEMMA GrownNewest ==
    ASSUME TypeOK, NumberedOnce, NEW new, NEW appendedTo, Grown(new, appendedTo),
           NEW w \in new
    PROVE  /\ EventsOf(events', w.account) # {}
           /\ \A e \in EventsOf(events', w.account) : NewerThan(events', e) = {} => e \in new
<1> DEFINE log == events \cup new
           a == w.account
           S == EventsOf(log, a)
<1>1. /\ log \subseteq Event /\ IsFiniteSet(log)
      /\ \A e \in log : e.sequence \in Nat
      /\ \A e, f \in log : e.sequence = f.sequence => e = f
      /\ events' = Trim(log, appendedTo) /\ events' \subseteq log
      /\ \A e \in events, f \in new : e.sequence < f.sequence
      /\ a \in appendedTo
  BY GrownSources DEF Grown
<1>2. S \in SUBSET log /\ w \in S
  BY DEF EventsOf
<1>3. S \subseteq Event /\ IsFiniteSet(S) /\ \A x, y \in S : x.sequence = y.sequence => x = y
  BY <1>1, <1>2, FS_Subset
<1>4. EventsOf(events', a) # {}
  <2>1. Top(S, EventCap) # {}
    BY <1>2, <1>3, TopOf, CapsAssumption
  <2> QED
    BY <1>1, <2>1, TrimKeepsTheTop
<1>5. ASSUME NEW e \in EventsOf(events', a), NewerThan(events', e) = {}
      PROVE  e \in new
  <2> SUFFICES ASSUME e \notin new PROVE FALSE
    OBVIOUS
  <2>1. e \in events /\ e \in events' /\ e.account = a
    BY <1>1 DEF EventsOf
  <2>2. w \in NewerThan(log, e)
    <3>1. w.sequence > e.sequence
      BY <1>1, <2>1
    <3> QED
      BY <2>1, <3>1 DEF NewerThan, EventsOf
  <2> QED
    BY <1>5, <2>1, <2>2, GrownUpwards
<1> QED
  BY <1>4, <1>5

LEMMA GrownOthers ==
    ASSUME NEW new, NEW appendedTo, Grown(new, appendedTo), NEW a, a \notin appendedTo
    PROVE  EventsOf(events', a) = EventsOf(events, a)
BY DEF EventsOf, Trim, Grown
-----------------------------------------------------------------------------
(* The revision and the history agree.                                     *)

RevisionsBelong == \A a \in Accounts : revision[a] # 0 => a \in accounts

Sound ==
    /\ TypeOK
    /\ NumberedOnce
    /\ RowsBelongToAccounts
    /\ RevisionsBelong

LEMMA RevisionsStep == TypeOK /\ RevisionsBelong /\ [Next]_tables => RevisionsBelong'
<1> SUFFICES ASSUME TypeOK, RevisionsBelong, [Next]_tables PROVE RevisionsBelong'
  OBVIOUS
<1>1. ASSUME NEW account \in Accounts, NEW changes \in ChangeLists,
             NEW action \in WriteActions, NEW actor \in Actors, NEW ifRevision,
             Apply(account, changes, action, actor, ifRevision)
      PROVE  RevisionsBelong'
  BY <1>1 DEF Apply, RevisionsBelong, TypeOK
<1>2. ASSUME NEW account \in Accounts, Forget(account)
      PROVE  RevisionsBelong'
  BY <1>2 DEF Forget, RevisionsBelong, TypeOK
<1>3. ASSUME NEW key \in Keys, PurgeSetting(key)
      PROVE  RevisionsBelong'
  BY <1>3 DEF PurgeSetting, RevisionsBelong
<1>4. CASE UNCHANGED tables
  BY <1>4 DEF tables, RevisionsBelong
<1> QED
  BY <1>1, <1>2, <1>3, <1>4 DEF Next, ApplySome

LEMMA AlwaysStoreSound == Spec => []Sound
<1>1. Init => RevisionsBelong
  BY DEF Init, RevisionsBelong
<1>2. Spec => []RevisionsBelong
  BY <1>1, RevisionsStep, TypeCorrect, PTL DEF Spec
<1>3. TypeOK /\ NumberedOnce /\ RowsBelongToAccounts /\ RevisionsBelong => Sound
  BY DEF Sound
<1> QED
  BY <1>2, <1>3, TypeCorrect, RowsAlwaysBelong, AlwaysNumbered, PTL

(* An account that a purge writes about has a row, and so a revision.      *)
LEMMA AffectedAccounts ==
    ASSUME TypeOK, RowsBelongToAccounts, NEW key, NEW ar \in AffectedRows(key)
    PROVE  ar[1] \in Accounts /\ revision[ar[1]] # 0
<1>1. ar[1] \in Accounts /\ ar[2] \in RowKeys /\ rows[ar[1]][ar[2]] # Unset
  BY DEF AffectedRows
<1> QED
  BY <1>1 DEF RowsBelongToAccounts, TypeOK

AgreesAt(a) ==
    /\ revision[a] = 0 <=> EventsOf(events, a) = {}
    /\ \A e \in EventsOf(events, a) : NewerThan(events, e) = {} => e.revision = revision[a]

LEMMA Untouched ==
    ASSUME NEW a \in Accounts, AgreesAt(a), EventsOf(events', a) = EventsOf(events, a),
           revision'[a] = revision[a]
    PROVE  AgreesAt(a)'
BY DEF AgreesAt, NewerThan, EventsOf

LEMMA AgreementStep == Sound /\ NewestEventCarriesTheRevision /\ [Next]_tables
                           => NewestEventCarriesTheRevision'
<1> SUFFICES ASSUME Sound, \A b \in Accounts : AgreesAt(b), [Next]_tables, NEW a \in Accounts
             PROVE  AgreesAt(a)'
  BY DEF NewestEventCarriesTheRevision, AgreesAt
<1>1. TypeOK /\ NumberedOnce /\ RowsBelongToAccounts
  BY DEF Sound
<1>2. ASSUME NEW account \in Accounts, NEW changes \in ChangeLists,
             NEW action \in WriteActions, NEW actor \in Actors, NEW ifRevision,
             Apply(account, changes, action, actor, ifRevision)
      PROVE  AgreesAt(a)'
  <2>1. CASE UNCHANGED <<revision, rows, events, lastSequence>>
    BY <2>1, Untouched
  <2>2. CASE /\ revision' = [revision EXCEPT ![account] = @ + 1]
             /\ AppendEvent(account, action, actor, revision[account] + 1,
                            ChangedKeys(rows[account], changes))
    <3> DEFINE w == Written(account, changes, action, actor)
    <3>1. Grown({w}, {account})
      BY <1>1, <2>2, ApplyGrows
    <3>2. CASE a # account
      <4>1. revision'[a] = revision[a]
        BY <1>1, <2>2, <3>2 DEF TypeOK
      <4> QED
        BY <3>1, <3>2, <4>1, GrownOthers, Untouched
    <3>3. CASE a = account
      <4>1. revision'[a] = revision[a] + 1 /\ revision[a] \in Nat
        BY <1>1, <2>2, <3>3 DEF TypeOK
      <4>2. w.account = a /\ w.revision = revision[a] + 1
        BY <3>3 DEF Written
      <4> HIDE DEF w
      <4>3. /\ EventsOf(events', a) # {}
            /\ \A e \in EventsOf(events', a) : NewerThan(events', e) = {} => e \in {w}
        BY <1>1, <3>1, <4>2, GrownNewest
      <4> QED
        BY <4>1, <4>2, <4>3 DEF AgreesAt
    <3> QED
      BY <3>2, <3>3
  <2> QED
    BY <1>2, <2>1, <2>2 DEF Apply
<1>3. ASSUME NEW account \in Accounts, Forget(account)
      PROVE  AgreesAt(a)'
  <2>1. CASE a # account
    <3>1. EventsOf(events', a) = EventsOf(events, a) /\ revision'[a] = revision[a]
      BY <1>1, <1>3, <2>1 DEF Forget, EventsOf, TypeOK
    <3> QED
      BY <3>1, Untouched
  <2>2. CASE a = account
    <3>1. EventsOf(events', a) = {} /\ revision'[a] = 0
      BY <1>1, <1>3, <2>2 DEF Forget, EventsOf, TypeOK
    <3> QED
      BY <3>1 DEF AgreesAt
  <2> QED
    BY <2>1, <2>2
<1>4. ASSUME NEW key \in Keys, PurgeSetting(key)
      PROVE  AgreesAt(a)'
  <2>1. PICK position \in Numberings(AffectedRows(key)) :
            Grown({Purged(key, position, ar) : ar \in AffectedRows(key)},
                  {ar[1] : ar \in AffectedRows(key)})
    BY <1>1, <1>4, PurgeGrows
  <2> DEFINE new == {Purged(key, position, ar) : ar \in AffectedRows(key)}
             appendedTo == {ar[1] : ar \in AffectedRows(key)}
  <2>2. revision' = revision
    BY <1>4 DEF PurgeSetting
  <2>3. CASE a \notin appendedTo
    BY <2>1, <2>2, <2>3, GrownOthers, Untouched
  <2>4. CASE a \in appendedTo
    <3>1. PICK ar \in AffectedRows(key) : ar[1] = a
      BY <2>4
    <3>2. revision[a] # 0
      BY <1>1, <3>1, AffectedAccounts
    <3>3. Purged(key, position, ar) \in new /\ Purged(key, position, ar).account = a
      BY <3>1 DEF Purged
    <3>4. \A e \in new : e.revision = revision[e.account]
      BY DEF Purged
    <3> HIDE DEF new, appendedTo
    <3>5. /\ EventsOf(events', a) # {}
          /\ \A e \in EventsOf(events', a) : NewerThan(events', e) = {} => e \in new
      BY <1>1, <2>1, <3>3, GrownNewest DEF new, appendedTo
    <3>6. \A e \in EventsOf(events', a) : e.account = a
      BY DEF EventsOf
    <3> QED
      BY <2>2, <3>2, <3>4, <3>5, <3>6 DEF AgreesAt
  <2> QED
    BY <2>3, <2>4
<1>5. CASE UNCHANGED tables
  BY <1>5, Untouched DEF tables
<1> QED
  BY <1>2, <1>3, <1>4, <1>5 DEF Next, ApplySome

(* The newest event of an account carries the revision the account is at,  *)
(* whichever of apply and the sweeper wrote it, and there is none exactly  *)
(* at revision 0 (NewestEventCarriesTheRevision).                          *)
THEOREM NewestEventAlwaysCarriesTheRevision == Spec => []NewestEventCarriesTheRevision
<1>1. Init => NewestEventCarriesTheRevision
  BY DEF Init, NewestEventCarriesTheRevision, EventsOf
<1> QED
  BY <1>1, AgreementStep, AlwaysStoreSound, PTL DEF Spec
-----------------------------------------------------------------------------
(* What is kept of the history of requests has no gap.                     *)

(* f is the request that follows e in a log.                               *)
Follows(log, e, f) ==
    /\ e \in RequestEvents(log) /\ f \in RequestEvents(log)
    /\ f.account = e.account
    /\ f.sequence > e.sequence
    /\ NewerThan(RequestEvents(log), e) \ NewerThan(RequestEvents(log), f) = {f}

LEMMA GapsAsFollows ==
    /\ HistoryHasNoGaps <=> \A e, f : Follows(events, e, f) => f.revision = e.revision + 1
    /\ HistoryHasNoGaps' <=> \A e, f : Follows(events', e, f) => f.revision = e.revision + 1
BY DEF HistoryHasNoGaps, Follows, EventsOf

(* The last request an account made left it at the revision it is at.      *)
LastRequest(log, e) == e \in RequestEvents(log) /\ NewerThan(RequestEvents(log), e) = {}

LastRequestsAgree == \A e : LastRequest(events, e) => e.revision = revision[e.account]

(* The requests newer than an event that is kept are kept.                 *)
LEMMA GrownRequests ==
    ASSUME TypeOK, NumberedOnce, NEW new, NEW appendedTo, Grown(new, appendedTo)
    PROVE  \A e \in events' : NewerThan(RequestEvents(events'), e)
                                  = NewerThan(RequestEvents(events \cup new), e)
<1> SUFFICES ASSUME NEW e \in events'
             PROVE  NewerThan(RequestEvents(events'), e)
                        = NewerThan(RequestEvents(events \cup new), e)
  OBVIOUS
<1>1. NewerThan(events', e) = NewerThan(events \cup new, e)
  BY GrownUpwards
<1>2. /\ NewerThan(RequestEvents(events'), e)
            = {g \in NewerThan(events', e) : g.action # PURGE_RETIRED}
      /\ NewerThan(RequestEvents(events \cup new), e)
            = {g \in NewerThan(events \cup new, e) : g.action # PURGE_RETIRED}
  BY DEF NewerThan, EventsOf, RequestEvents
<1> QED
  BY <1>1, <1>2

(* Of two neighbours in a grown log, both were neighbours, or the newer is *)
(* new and the older is new too or was the last request.                   *)
LEMMA GrownNeighbours ==
    ASSUME TypeOK, NumberedOnce, NEW new, NEW appendedTo, Grown(new, appendedTo),
           NEW e, NEW f, Follows(events', e, f)
    PROVE  \/ Follows(events, e, f)
           \/ f \in new /\ f.action # PURGE_RETIRED /\ (e \in new \/ LastRequest(events, e))
<1> DEFINE log == events \cup new
<1>1. /\ log \subseteq Event
      /\ \A x \in log : x.sequence \in Nat
      /\ \A x, y \in log : x.sequence = y.sequence => x = y
      /\ events' \subseteq log
      /\ \A x \in events, y \in new : x.sequence < y.sequence
  BY GrownSources
<1>2. /\ e \in events' /\ f \in events' /\ e \in log /\ f \in log
      /\ e.action # PURGE_RETIRED /\ f.action # PURGE_RETIRED
  BY <1>1 DEF Follows, RequestEvents
<1>3. /\ f.account = e.account /\ f.sequence > e.sequence
      /\ NewerThan(RequestEvents(log), e) \ NewerThan(RequestEvents(log), f) = {f}
  BY <1>2, GrownRequests DEF Follows
<1>4. CASE f \in events
  <2>1. e \in events
    <3>1. e \notin new
      BY <1>1, <1>2, <1>3, <1>4
    <3> QED
      BY <1>2, <3>1
  <2>2. /\ NewerThan(RequestEvents(events), e) = NewerThan(RequestEvents(log), e) \cap events
        /\ NewerThan(RequestEvents(events), f) = NewerThan(RequestEvents(log), f) \cap events
    BY DEF NewerThan, EventsOf, RequestEvents
  <2>3. NewerThan(RequestEvents(events), e) \ NewerThan(RequestEvents(events), f) = {f}
    BY <1>3, <1>4, <2>2
  <2> QED
    BY <1>2, <1>3, <1>4, <2>1, <2>3 DEF Follows, RequestEvents
<1>5. CASE f \in new
  <2>1. CASE e \in new
    BY <1>2, <1>5, <2>1
  <2>2. CASE e \in events
    <3>1. ASSUME NEW g \in NewerThan(RequestEvents(events), e) PROVE FALSE
      <4>1. /\ g \in events /\ g.action # PURGE_RETIRED
            /\ g.account = e.account /\ g.sequence > e.sequence
        BY <3>1 DEF NewerThan, EventsOf, RequestEvents
      <4>2. g.sequence < f.sequence /\ g.sequence \in Nat /\ f.sequence \in Nat
        BY <1>1, <1>5, <4>1
      <4>3. g \in NewerThan(RequestEvents(log), e) /\ g \notin NewerThan(RequestEvents(log), f)
        BY <4>1, <4>2 DEF NewerThan, EventsOf, RequestEvents
      <4>4. g = f
        BY <1>3, <4>3
      <4> QED
        BY <4>2, <4>4
    <3> QED
      BY <1>2, <1>5, <2>2, <3>1 DEF LastRequest, RequestEvents
  <2> QED
    BY <1>2, <2>1, <2>2
<1> QED
  BY <1>2, <1>4, <1>5

(* The last request of a grown log is new, or was the last and nothing new *)
(* is a request of its account.                                            *)
LEMMA GrownLastRequest ==
    ASSUME TypeOK, NumberedOnce, NEW new, NEW appendedTo, Grown(new, appendedTo),
           NEW e, LastRequest(events', e)
    PROVE  \/ e \in new /\ e.action # PURGE_RETIRED
           \/ /\ LastRequest(events, e)
              /\ \A w \in new : w.account = e.account => w.action = PURGE_RETIRED
<1> DEFINE log == events \cup new
<1>1. /\ events' \subseteq log
      /\ \A x \in events, y \in new : x.sequence < y.sequence
      /\ \A x \in log : x.sequence \in Nat
  BY GrownSources
<1>2. e \in events' /\ e \in log /\ e.action # PURGE_RETIRED
  BY <1>1 DEF LastRequest, RequestEvents
<1>3. NewerThan(RequestEvents(log), e) = {}
  BY <1>2, GrownRequests DEF LastRequest
<1>4. CASE e \in events
  <2>1. LastRequest(events, e)
    BY <1>2, <1>3, <1>4 DEF LastRequest, NewerThan, EventsOf, RequestEvents
  <2>2. ASSUME NEW w \in new, w.account = e.account, w.action # PURGE_RETIRED PROVE FALSE
    <3>1. w.sequence > e.sequence
      BY <1>1, <1>4
    <3>2. w \in NewerThan(RequestEvents(log), e)
      BY <2>2, <3>1 DEF NewerThan, EventsOf, RequestEvents
    <3> QED
      BY <1>3, <3>2
  <2> QED
    BY <2>1, <2>2
<1> QED
  BY <1>2, <1>4

(* A step leaves the requests of the log neighbours as they were and the   *)
(* last of them at its account's revision, forgets an account, appends one *)
(* request one revision on, or appends purges.                             *)
LEMMA RequestsStep ==
    ASSUME Sound, [Next]_tables
    PROVE  \/ UNCHANGED <<events, revision>>
           \/ \E account \in Accounts : Forget(account)
           \/ \E new, appendedTo :
                 /\ Grown(new, appendedTo)
                 /\ \/ \E w : /\ new = {w}
                              /\ w.account \in Accounts /\ w.action # PURGE_RETIRED
                              /\ w.revision = revision[w.account] + 1
                              /\ revision' = [revision EXCEPT ![w.account] = @ + 1]
                    \/ /\ \A w \in new : w.action = PURGE_RETIRED
                       /\ revision' = revision
<1>1. TypeOK
  BY DEF Sound
<1>2. ASSUME NEW account \in Accounts, NEW changes \in ChangeLists,
             NEW action \in WriteActions, NEW actor \in Actors, NEW ifRevision,
             Apply(account, changes, action, actor, ifRevision)
      PROVE  \/ UNCHANGED <<events, revision>>
             \/ \E new, appendedTo :
                   /\ Grown(new, appendedTo)
                   /\ \E w : /\ new = {w}
                             /\ w.account \in Accounts /\ w.action # PURGE_RETIRED
                             /\ w.revision = revision[w.account] + 1
                             /\ revision' = [revision EXCEPT ![w.account] = @ + 1]
  <2>1. CASE UNCHANGED <<revision, rows, events, lastSequence>>
    BY <2>1
  <2>2. CASE /\ revision' = [revision EXCEPT ![account] = @ + 1]
             /\ AppendEvent(account, action, actor, revision[account] + 1,
                            ChangedKeys(rows[account], changes))
    <3> DEFINE w == Written(account, changes, action, actor)
    <3>1. Grown({w}, {account})
      BY <1>1, <2>2, ApplyGrows
    <3>2. w.account = account /\ w.revision = revision[account] + 1 /\ w.action # PURGE_RETIRED
      BY ActionsAssumption DEF Written, PURGE_RETIRED
    <3> HIDE DEF w
    <3> QED
      BY <2>2, <3>1, <3>2
  <2> QED
    BY <1>2, <2>1, <2>2 DEF Apply
<1>3. ASSUME NEW key \in Keys, PurgeSetting(key)
      PROVE  \E new, appendedTo : /\ Grown(new, appendedTo)
                                  /\ \A w \in new : w.action = PURGE_RETIRED
                                  /\ revision' = revision
  <2>1. PICK position \in Numberings(AffectedRows(key)) :
            Grown({Purged(key, position, ar) : ar \in AffectedRows(key)},
                  {ar[1] : ar \in AffectedRows(key)})
    BY <1>1, <1>3, PurgeGrows
  <2> DEFINE new == {Purged(key, position, ar) : ar \in AffectedRows(key)}
             appendedTo == {ar[1] : ar \in AffectedRows(key)}
  <2>2. \A w \in new : w.action = PURGE_RETIRED
    BY DEF Purged
  <2>3. revision' = revision
    BY <1>3 DEF PurgeSetting
  <2>4. Grown(new, appendedTo)
    BY <2>1
  <2> HIDE DEF new, appendedTo
  <2> QED
    BY <2>2, <2>3, <2>4
<1>4. CASE UNCHANGED tables
  BY <1>4 DEF tables
<1> QED
  BY <1>2, <1>3, <1>4 DEF Next, ApplySome

(* What Forget leaves of the log is of other accounts, with all that was   *)
(* newer.                                                                  *)
LEMMA ForgottenRequests ==
    ASSUME NEW account, Forget(account), NEW e \in events'
    PROVE  /\ e \in events /\ e.account # account
           /\ NewerThan(RequestEvents(events'), e) = NewerThan(RequestEvents(events), e)
<1>1. events' = events \ EventsOf(events, account)
  BY DEF Forget
<1> QED
  BY <1>1 DEF NewerThan, EventsOf, RequestEvents

LEMMA LastRequestsStep == Sound /\ LastRequestsAgree /\ [Next]_tables => LastRequestsAgree'
<1> SUFFICES ASSUME Sound, LastRequestsAgree, [Next]_tables, NEW e, LastRequest(events', e)
             PROVE  e.revision = revision'[e.account]
  BY DEF LastRequestsAgree, LastRequest, RequestEvents, NewerThan, EventsOf
<1>1. TypeOK /\ NumberedOnce
  BY DEF Sound
<1>2. CASE UNCHANGED <<events, revision>>
  BY <1>2 DEF LastRequestsAgree
<1>3. ASSUME NEW account \in Accounts, Forget(account)
      PROVE  e.revision = revision'[e.account]
  <2>1. e \in events' /\ e \in RequestEvents(events')
    BY DEF LastRequest, RequestEvents
  <2>2. /\ e \in events /\ e.account # account
        /\ NewerThan(RequestEvents(events'), e) = NewerThan(RequestEvents(events), e)
    BY <1>3, <2>1, ForgottenRequests
  <2>3. LastRequest(events, e)
    BY <2>1, <2>2 DEF LastRequest, RequestEvents
  <2>4. e.account \in Accounts /\ revision'[e.account] = revision[e.account]
    BY <1>1, <1>3, <2>2 DEF Forget, TypeOK, Event
  <2> QED
    BY <2>3, <2>4 DEF LastRequestsAgree
<1>4. ASSUME NEW new, NEW appendedTo, Grown(new, appendedTo), NEW w, new = {w},
             w.account \in Accounts, w.action # PURGE_RETIRED,
             w.revision = revision[w.account] + 1,
             revision' = [revision EXCEPT ![w.account] = @ + 1]
      PROVE  e.revision = revision'[e.account]
  <2>1. \/ e = w
        \/ LastRequest(events, e) /\ (w.account = e.account => w.action = PURGE_RETIRED)
    BY <1>1, <1>4, GrownLastRequest
  <2>2. CASE e = w
    BY <1>1, <1>4, <2>2 DEF TypeOK
  <2>3. CASE LastRequest(events, e) /\ w.account # e.account
    <3>1. revision'[e.account] = revision[e.account]
      <4>1. e.account \in Accounts
        BY <1>1, <2>3 DEF LastRequest, RequestEvents, TypeOK, Event
      <4> QED
        BY <1>1, <1>4, <2>3, <4>1 DEF TypeOK
    <3> QED
      BY <2>3, <3>1 DEF LastRequestsAgree
  <2> QED
    BY <1>4, <2>1, <2>2, <2>3
<1>5. ASSUME NEW new, NEW appendedTo, Grown(new, appendedTo),
             \A w \in new : w.action = PURGE_RETIRED, revision' = revision
      PROVE  e.revision = revision'[e.account]
  <2>1. LastRequest(events, e)
    BY <1>1, <1>5, GrownLastRequest
  <2> QED
    BY <1>5, <2>1 DEF LastRequestsAgree
<1> QED
  BY <1>2, <1>3, <1>4, <1>5, RequestsStep

LEMMA GapsStep == Sound /\ LastRequestsAgree /\ HistoryHasNoGaps /\ [Next]_tables
                      => HistoryHasNoGaps'
<1> SUFFICES ASSUME Sound, LastRequestsAgree, HistoryHasNoGaps, [Next]_tables,
                    NEW e, NEW f, Follows(events', e, f)
             PROVE  f.revision = e.revision + 1
  BY GapsAsFollows
<1>1. TypeOK /\ NumberedOnce
  BY DEF Sound
<1>2. \A x, y : Follows(events, x, y) => y.revision = x.revision + 1
  BY GapsAsFollows
<1>3. e \in events' /\ f \in events' /\ f.account = e.account /\ f.sequence > e.sequence
  BY DEF Follows, RequestEvents
<1>4. CASE UNCHANGED <<events, revision>>
  BY <1>2, <1>4
<1>5. ASSUME NEW account \in Accounts, Forget(account)
      PROVE  f.revision = e.revision + 1
  <2>1. /\ e \in events /\ f \in events
        /\ NewerThan(RequestEvents(events'), e) = NewerThan(RequestEvents(events), e)
        /\ NewerThan(RequestEvents(events'), f) = NewerThan(RequestEvents(events), f)
    BY <1>3, <1>5, ForgottenRequests
  <2>2. Follows(events, e, f)
    BY <2>1 DEF Follows, RequestEvents
  <2> QED
    BY <1>2, <2>2
<1>6. ASSUME NEW new, NEW appendedTo, Grown(new, appendedTo), NEW w, new = {w},
             w.account \in Accounts, w.revision = revision[w.account] + 1
      PROVE  f.revision = e.revision + 1
  <2>1. Follows(events, e, f) \/ (f = w /\ (e = w \/ LastRequest(events, e)))
    BY <1>1, <1>6, GrownNeighbours
  <2>2. CASE Follows(events, e, f)
    BY <1>2, <2>2
  <2>3. CASE f = w /\ LastRequest(events, e)
    BY <1>3, <1>6, <2>3 DEF LastRequestsAgree
  <2>4. CASE f = w /\ e = w
    <3>1. w.sequence \in Nat
      BY <1>6, CapsAssumption DEF Grown, Event
    <3> QED
      BY <1>3, <2>4, <3>1
  <2> QED
    BY <2>1, <2>2, <2>3, <2>4
<1>7. ASSUME NEW new, NEW appendedTo, Grown(new, appendedTo),
             \A w \in new : w.action = PURGE_RETIRED
      PROVE  f.revision = e.revision + 1
  <2>1. Follows(events, e, f)
    BY <1>1, <1>7, GrownNeighbours
  <2> QED
    BY <1>2, <2>1
<1> QED
  BY <1>4, <1>5, <1>6, <1>7, RequestsStep

(* From one request of an account to the next that is kept the revision    *)
(* moves by one, whatever the sweeper recorded between them and whatever   *)
(* the trim has cut off (HistoryHasNoGaps).                                *)
THEOREM HistoryNeverHasGaps == Spec => []HistoryHasNoGaps
<1>1. Init => HistoryHasNoGaps
  BY DEF Init, HistoryHasNoGaps, RequestEvents
<1>2. Init => LastRequestsAgree
  BY DEF Init, LastRequestsAgree, LastRequest, RequestEvents
<1>3. Spec => []LastRequestsAgree
  BY <1>2, LastRequestsStep, AlwaysStoreSound, PTL DEF Spec
<1> QED
  BY <1>1, <1>3, GapsStep, AlwaysStoreSound, PTL DEF Spec
-----------------------------------------------------------------------------
(* What a step may never do.  As for the log, a step leaves it, forgets an *)
(* account or grows it.                                                    *)

LEMMA StepOfTheLog ==
    ASSUME TypeOK, [Next]_tables
    PROVE  \/ UNCHANGED <<events, lastSequence>>
           \/ \E account \in Accounts : Forget(account)
           \/ \E new, appendedTo : Grown(new, appendedTo)
<1>1. ASSUME NEW account \in Accounts, NEW changes \in ChangeLists,
             NEW action \in WriteActions, NEW actor \in Actors, NEW ifRevision,
             Apply(account, changes, action, actor, ifRevision)
      PROVE  UNCHANGED <<events, lastSequence>> \/ \E new, appendedTo : Grown(new, appendedTo)
  <2>1. CASE UNCHANGED <<revision, rows, events, lastSequence>>
    BY <2>1
  <2>2. CASE AppendEvent(account, action, actor, revision[account] + 1,
                         ChangedKeys(rows[account], changes))
    BY <2>2, ApplyGrows
  <2> QED
    BY <1>1, <2>1, <2>2 DEF Apply
<1>2. ASSUME NEW key \in Keys, PurgeSetting(key)
      PROVE  \E new, appendedTo : Grown(new, appendedTo)
  BY <1>2, PurgeGrows
<1>3. CASE UNCHANGED tables
  BY <1>3 DEF tables
<1> QED
  BY <1>1, <1>2, <1>3 DEF Next, ApplySome

LEMMA NewSequences ==
    ASSUME TypeOK, NumberedOnce, [Next]_tables
    PROVE  /\ lastSequence' >= lastSequence
           /\ \A e \in events' \ events : e.sequence \in (lastSequence + 1)..lastSequence'
<1>0. lastSequence \in Nat
  BY CapsAssumption DEF TypeOK
<1>1. ASSUME NEW account \in Accounts, Forget(account)
      PROVE  events' \subseteq events /\ lastSequence' = lastSequence
  BY <1>1 DEF Forget
<1>2. ASSUME NEW new, NEW appendedTo, Grown(new, appendedTo)
      PROVE  /\ lastSequence' >= lastSequence
             /\ \A e \in events' \ events : e.sequence \in (lastSequence + 1)..lastSequence'
  <2>1. lastSequence' >= lastSequence /\ lastSequence' \in Nat
    BY <1>0, <1>2 DEF Grown
  <2>2. ASSUME NEW e \in events' \ events
        PROVE  e.sequence \in (lastSequence + 1)..lastSequence'
    <3>1. e \in new /\ e.sequence \in Nat
      BY <1>2, GrownSources
    <3>2. lastSequence < e.sequence /\ e.sequence <= lastSequence'
      BY <1>2, <3>1 DEF Grown
    <3> QED
      BY <1>0, <2>1, <3>1, <3>2
  <2> QED
    BY <2>1, <2>2
<1> QED
  BY <1>0, <1>1, <1>2, StepOfTheLog

(* The counter never falls, and what is appended is numbered above it      *)
(* (SequencesAreNeverReused).                                              *)
THEOREM SequencesOnlyGrow == Spec => SequencesAreNeverReused
<1>1. Sound /\ [Next]_tables =>
        [/\ lastSequence' >= lastSequence
         /\ \A e \in events' \ events :
                e.sequence \in (lastSequence + 1)..lastSequence']_tables
  BY NewSequences DEF Sound
<1> QED
  BY <1>1, AlwaysStoreSound, PTL DEF Spec, SequencesAreNeverReused

(* No other event of the log has the number of this one.                   *)
NumberIsOf(e) == \A f \in events : f.sequence = e.sequence => f = e

(* Once an event has been in the log its number is never that of another,  *)
(* in all that follows: not after the event was trimmed, nor after its     *)
(* account was forgotten and began anew.                                   *)
THEOREM SequencesAreNeverEverReused ==
    ASSUME NEW e \in Event
    PROVE  Spec => []((e \in events) => []NumberIsOf(e))
<1> DEFINE Taken == e.sequence <= lastSequence /\ NumberIsOf(e)
<1>1. Sound /\ e \in events => Taken
  BY DEF Sound, NumberedOnce, NumberIsOf
<1>2. Sound /\ Taken /\ [Next]_tables => Taken'
  <2> SUFFICES ASSUME Sound, Taken, [Next]_tables PROVE Taken'
    OBVIOUS
  <2>1. lastSequence \in Nat /\ e.sequence \in Nat /\ TypeOK /\ NumberedOnce
    BY CapsAssumption DEF Sound, TypeOK, Event
  <2>2. /\ lastSequence' >= lastSequence
        /\ \A f \in events' \ events : f.sequence \in (lastSequence + 1)..lastSequence'
    BY <2>1, NewSequences
  <2>3. lastSequence' \in Nat
    BY NextTypeOK, <2>1, CapsAssumption DEF TypeOK
  <2>4. ASSUME NEW f \in events', f.sequence = e.sequence PROVE f = e
    <3>1. f \in events
      BY <2>1, <2>2, <2>3, <2>4
    <3> QED
      BY <2>4, <3>1 DEF NumberIsOf
  <2> QED
    BY <2>1, <2>2, <2>3, <2>4 DEF NumberIsOf
<1>3. Taken => NumberIsOf(e)
  OBVIOUS
<1> HIDE DEF Taken
<1> QED
  BY <1>1, <1>2, <1>3, AlwaysStoreSound, PTL DEF Spec

LEMMA TrimStep ==
    ASSUME Sound, NewestEventCarriesTheRevision, [Next]_tables, NEW e \in events \ events'
    PROVE  \/ Forgotten(e.account)
           \/ Cardinality({f \in EventsOf(events', e.account) : f.sequence > e.sequence}) = EventCap
<1>1. TypeOK /\ NumberedOnce /\ e.account \in Accounts
  BY DEF Sound, TypeOK, Event
<1>2. ASSUME NEW account \in Accounts, Forget(account) PROVE Forgotten(e.account)
  <2>1. e.account = account /\ e \in EventsOf(events, e.account)
    BY <1>2 DEF Forget, EventsOf
  <2>2. revision[account] # 0
    BY <1>1, <2>1 DEF NewestEventCarriesTheRevision
  <2>3. account \in accounts
    BY <2>2 DEF Sound, RevisionsBelong
  <2> QED
    BY <1>2, <2>1, <2>3 DEF Forget, Forgotten
<1>3. ASSUME NEW new, NEW appendedTo, Grown(new, appendedTo)
      PROVE  Cardinality({f \in EventsOf(events', e.account) : f.sequence > e.sequence}) = EventCap
  <2> DEFINE log == events \cup new
             S == EventsOf(log, e.account)
             K == Top(S, EventCap)
  <2>1. /\ log \subseteq Event /\ IsFiniteSet(log)
        /\ \A x, y \in log : x.sequence = y.sequence => x = y
        /\ events' = Trim(log, appendedTo)
    BY <1>1, <1>3, GrownSources DEF Grown
  <2>2. e \in log /\ e.account \in appendedTo
    BY <2>1 DEF Trim
  <2>3. S \in SUBSET log /\ e \in S
    BY DEF EventsOf
  <2>4. S \subseteq Event /\ IsFiniteSet(S) /\ \A x, y \in S : x.sequence = y.sequence => x = y
    BY <2>1, <2>3, FS_Subset
  <2>5. EventsOf(events', e.account) = K
    BY <2>1, <2>2, TrimKeepsTheTop
  <2>6. e \notin K
    BY <2>5 DEF EventsOf
  <2>7. (\A x \in S \ K, y \in K : y.sequence > x.sequence) /\ (K # S => Cardinality(K) = EventCap)
    BY <2>4, TopOf, CapsAssumption
  <2>8. {f \in K : f.sequence > e.sequence} = K /\ K # S
    BY <2>3, <2>6, <2>7
  <2> QED
    BY <2>5, <2>7, <2>8
<1> QED
  BY <1>1, <1>2, <1>3, StepOfTheLog

(* An event leaves the log of an account that is not forgotten only with   *)
(* EventCap newer ones in its place (TrimTakesTheOldest).                  *)
THEOREM TrimAlwaysTakesTheOldest == Spec => TrimTakesTheOldest
<1>1. Sound /\ NewestEventCarriesTheRevision /\ [Next]_tables =>
        [\A e \in events \ events' :
            \/ Forgotten(e.account)
            \/ Cardinality({f \in EventsOf(events', e.account) : f.sequence > e.sequence})
                   = EventCap]_tables
  BY TrimStep
<1> QED
  BY <1>1, AlwaysStoreSound, NewestEventAlwaysCarriesTheRevision, PTL DEF Spec, TrimTakesTheOldest

LEMMA RevisionStep ==
    ASSUME Sound, [Next]_tables, NEW a \in Accounts
    PROVE  /\ revision'[a] # revision[a]
                  => Forgotten(a) \/ revision'[a] = revision[a] + 1
           /\ (rows'[a] # rows[a] /\ revision'[a] = revision[a])
                  => \E k \in Keys : \A r \in RowKeys :
                         rows'[a][r] = IF r[2] = k THEN Unset ELSE rows[a][r]
<1> DEFINE Moves == /\ revision'[a] # revision[a]
                           => Forgotten(a) \/ revision'[a] = revision[a] + 1
                    /\ (rows'[a] # rows[a] /\ revision'[a] = revision[a])
                           => \E k \in Keys : \A r \in RowKeys :
                                  rows'[a][r] = IF r[2] = k THEN Unset ELSE rows[a][r]
<1>1. TypeOK /\ revision[a] \in Nat
  BY DEF Sound, TypeOK
<1>2. ASSUME NEW account \in Accounts, NEW changes \in ChangeLists,
             NEW action \in WriteActions, NEW actor \in Actors, NEW ifRevision,
             Apply(account, changes, action, actor, ifRevision)
      PROVE  Moves
  <2>1. CASE UNCHANGED <<revision, rows, events, lastSequence>>
    BY <2>1
  <2>2. CASE /\ rows' = [rows EXCEPT ![account] = RowsAfter(rows[account], changes)]
             /\ revision' = [revision EXCEPT ![account] = @ + 1]
    <3>1. a # account => rows'[a] = rows[a] /\ revision'[a] = revision[a]
      BY <1>1, <2>2 DEF TypeOK
    <3>2. a = account => revision'[a] = revision[a] + 1
      BY <1>1, <2>2 DEF TypeOK
    <3> QED
      BY <1>1, <3>1, <3>2
  <2> QED
    BY <1>2, <2>1, <2>2 DEF Apply
<1>3. ASSUME NEW account \in Accounts, Forget(account) PROVE Moves
  <2>1. CASE a # account
    BY <1>1, <1>3, <2>1 DEF Forget, TypeOK
  <2>2. CASE a = account
    <3>1. /\ revision'[a] = 0 /\ rows'[a] = [r \in RowKeys |-> Unset] /\ a \notin accounts'
          /\ rows[a] \in [RowKeys -> Values \cup {Unset}]
      BY <1>1, <1>3, <2>2 DEF Forget, TypeOK
    <3>2. revision[a] # 0 => Forgotten(a)
      BY <3>1 DEF Sound, RevisionsBelong, Forgotten
    <3>3. rows'[a] # rows[a] => revision[a] # 0
      <4> SUFFICES ASSUME rows'[a] # rows[a] PROVE revision[a] # 0
        OBVIOUS
      <4>1. \E r \in RowKeys : rows[a][r] # Unset
        BY <3>1
      <4> QED
        BY <1>1, <4>1 DEF Sound, RowsBelongToAccounts
    <3> QED
      BY <3>1, <3>2, <3>3
  <2> QED
    BY <2>1, <2>2
<1>4. ASSUME NEW key \in Keys, PurgeSetting(key) PROVE Moves
  BY <1>4 DEF PurgeSetting
<1>5. CASE UNCHANGED tables
  BY <1>5 DEF tables
<1> QED
  BY <1>2, <1>3, <1>4, <1>5 DEF Next, ApplySome

(* The revision moves by one at a time, and under an unmoved revision rows *)
(* move only as a purge (RevisionMovesWithTheRows).                        *)
THEOREM RevisionAlwaysMovesWithTheRows == Spec => RevisionMovesWithTheRows
<1>1. Sound /\ [Next]_tables =>
        [\A a \in Accounts :
            /\ revision'[a] # revision[a]
                   => Forgotten(a) \/ revision'[a] = revision[a] + 1
            /\ (rows'[a] # rows[a] /\ revision'[a] = revision[a])
                   => \E k \in Keys : \A r \in RowKeys :
                          rows'[a][r] = IF r[2] = k THEN Unset ELSE rows[a][r]]_tables
  BY RevisionStep
<1> QED
  BY <1>1, AlwaysStoreSound, PTL DEF Spec, RevisionMovesWithTheRows
-----------------------------------------------------------------------------
(* No setting changes without an event that names it.                      *)

(* A row that an apply leaves different has its key among the changed.     *)
LEMMA ChangedRowsAreNamed ==
    ASSUME NEW stored \in StoredRows, NEW changes \in ChangeLists, NEW row \in RowKeys,
           RowsAfter(stored, changes)[row] # stored[row]
    PROVE  row[2] \in ChangedKeys(stored, changes)
<1>1. RowAfter(RealChanges(stored, changes), stored, changes, row) # stored[row]
  BY DEF RowsAfter
<1>2. PICK i \in DOMAIN changes :
          /\ changes[i].row = row
          /\ RowAfter(RealChanges(stored, changes), stored, changes, row) = changes[i].value
  BY <1>1, RowAfterIsStoredOrWritten
<1>3. i \in RealChanges(stored, changes)
  BY <1>1, <1>2 DEF RealChanges
<1> QED
  BY <1>2, <1>3 DEF ChangedKeys

(* An account that is appended to has a new newest event.                  *)
LEMMA NewestIsNew ==
    ASSUME Sound, NEW new, NEW appendedTo, Grown(new, appendedTo), NEW w \in new
    PROVE  \E e \in EventsOf(events', w.account) :
               e \in new /\ e \notin events /\ NewerThan(events', e) = {}
<1> DEFINE kept == EventsOf(events', w.account)
<1>1. TypeOK /\ NumberedOnce
  BY DEF Sound
<1>2. kept # {} /\ \A e \in kept : NewerThan(events', e) = {} => e \in new
  BY <1>1, GrownNewest
<1>3. /\ kept \subseteq Event
      /\ \A e \in kept : e.sequence \in Nat /\ e.account = w.account
  BY <1>1, GrownSources DEF EventsOf
<1>4. PICK e \in kept : \A f \in kept : f.sequence <= e.sequence
  BY <1>2, <1>3, NewestOf
<1>5. NewerThan(events', e) = {}
  <2> SUFFICES ASSUME NEW f \in kept, f.sequence > e.sequence PROVE FALSE
    BY <1>3 DEF NewerThan
  <2> QED
    BY <1>3, <1>4
<1>6. e \in new
  BY <1>2, <1>5
<1>7. e \notin events
  <2> SUFFICES ASSUME e \in events PROVE FALSE
    OBVIOUS
  <2>1. e.sequence < e.sequence /\ e.sequence \in Nat
    BY <1>1, <1>3, <1>6, GrownSources
  <2> QED
    BY <2>1
<1> QED
  BY <1>5, <1>6, <1>7

(* The newest event of an account is new, and the new ones name all of     *)
(* moved.                                                                  *)
NewestNames(a, moved) ==
    \E e \in EventsOf(events', a) :
        /\ NewerThan(events', e) = {}
        /\ e \notin events
        /\ moved \subseteq UNION {f.changed : f \in EventsOf(events', a) \ events}

(* It is so if every new event of the account names them.                  *)
LEMMA NewEventNames ==
    ASSUME Sound, NEW new, NEW appendedTo, Grown(new, appendedTo), NEW w \in new, NEW moved,
           \A e \in new : e.account = w.account => moved \subseteq e.changed
    PROVE  NewestNames(w.account, moved)
<1>1. PICK e \in EventsOf(events', w.account) :
          e \in new /\ e \notin events /\ NewerThan(events', e) = {}
  BY NewestIsNew
<1>2. moved \subseteq e.changed
  BY <1>1 DEF EventsOf
<1> QED
  BY <1>1, <1>2 DEF NewestNames

Moved(a) == {r[2] : r \in {x \in RowKeys : rows'[a][x] # rows[a][x]}}

LEMMA RecordedStep ==
    ASSUME Sound, [Next]_tables, NEW a \in Accounts, rows'[a] # rows[a]
    PROVE  \/ /\ Forgotten(a)
              /\ \A r \in RowKeys : rows'[a][r] = Unset
              /\ EventsOf(events', a) = {}
              /\ revision'[a] = 0
           \/ NewestNames(a, Moved(a))
<1>1. TypeOK /\ NumberedOnce /\ RowsBelongToAccounts /\ rows[a] \in StoredRows
  BY DEF Sound, TypeOK, StoredRows
<1>2. ASSUME NEW account \in Accounts, NEW changes \in ChangeLists,
             NEW action \in WriteActions, NEW actor \in Actors, NEW ifRevision,
             Apply(account, changes, action, actor, ifRevision)
      PROVE  NewestNames(a, Moved(a))
  <2>1. /\ rows' = [rows EXCEPT ![account] = RowsAfter(rows[account], changes)]
        /\ AppendEvent(account, action, actor, revision[account] + 1,
                       ChangedKeys(rows[account], changes))
    BY <1>2 DEF Apply
  <2>2. a = account /\ rows'[a] = RowsAfter(rows[a], changes)
    BY <1>1, <2>1 DEF TypeOK
  <2> DEFINE w == Written(account, changes, action, actor)
  <2>3. Grown({w}, {account})
    BY <1>1, <2>1, ApplyGrows
  <2>4. w.account = a /\ w.changed = ChangedKeys(rows[a], changes)
    BY <2>2 DEF Written
  <2>5. Moved(a) \subseteq w.changed
    BY <1>1, <2>2, <2>4, ChangedRowsAreNamed DEF Moved
  <2> HIDE DEF w
  <2> QED
    BY <2>3, <2>4, <2>5, NewEventNames
<1>3. ASSUME NEW account \in Accounts, Forget(account)
      PROVE  /\ Forgotten(a)
             /\ \A r \in RowKeys : rows'[a][r] = Unset
             /\ EventsOf(events', a) = {}
             /\ revision'[a] = 0
  <2>1. a = account
    BY <1>1, <1>3 DEF Forget, TypeOK
  <2>2. rows'[a] = [r \in RowKeys |-> Unset] /\ revision'[a] = 0 /\ a \notin accounts'
    BY <1>1, <1>3, <2>1 DEF Forget, TypeOK
  <2>3. \E r \in RowKeys : rows[a][r] # Unset
    BY <1>1, <2>2 DEF StoredRows
  <2>4. a \in accounts
    BY <1>1, <2>3 DEF RowsBelongToAccounts
  <2>5. EventsOf(events', a) = {}
    BY <1>3, <2>1 DEF Forget, EventsOf
  <2> QED
    BY <2>2, <2>4, <2>5 DEF Forgotten
<1>4. ASSUME NEW key \in Keys, PurgeSetting(key)
      PROVE  NewestNames(a, Moved(a))
  <2>1. rows'[a] = [r \in RowKeys |-> IF r[2] = key THEN Unset ELSE rows[a][r]]
    BY <1>4 DEF PurgeSetting
  <2>2. PICK row \in RowKeys : rows'[a][row] # rows[a][row]
    BY <1>1, <2>1 DEF StoredRows
  <2>3. row[2] = key /\ rows[a][row] # Unset
    BY <2>1, <2>2
  <2>4. Moved(a) \subseteq {key}
    BY <2>1 DEF Moved
  <2>5. <<a, row>> \in AffectedRows(key)
    BY <2>3 DEF AffectedRows
  <2>6. PICK position \in Numberings(AffectedRows(key)) :
            Grown({Purged(key, position, ar) : ar \in AffectedRows(key)},
                  {ar[1] : ar \in AffectedRows(key)})
    BY <1>1, <1>4, PurgeGrows
  <2> DEFINE new == {Purged(key, position, ar) : ar \in AffectedRows(key)}
             appendedTo == {ar[1] : ar \in AffectedRows(key)}
             w == Purged(key, position, <<a, row>>)
  <2>7. w \in new /\ w.account = a
    BY <2>5 DEF Purged
  <2>8. \A e \in new : e.changed = {key}
    BY DEF Purged
  <2>9. Grown(new, appendedTo)
    BY <2>6
  <2> HIDE DEF new, appendedTo, w
  <2> QED
    BY <2>4, <2>7, <2>8, <2>9, NewEventNames
<1>5. CASE UNCHANGED tables
  BY <1>5 DEF tables
<1> QED
  BY <1>2, <1>3, <1>4, <1>5 DEF Next, ApplySome

(* Of an account that is forgotten nothing is left.                        *)
LEMMA ForgottenStep ==
    ASSUME TypeOK, [Next]_tables, NEW a \in Accounts, Forgotten(a)
    PROVE  /\ \A r \in RowKeys : rows'[a][r] = Unset
           /\ EventsOf(events', a) = {}
           /\ revision'[a] = 0
<1>1. ASSUME NEW account \in Accounts, NEW changes \in ChangeLists,
             NEW action \in WriteActions, NEW actor \in Actors, NEW ifRevision,
             Apply(account, changes, action, actor, ifRevision)
      PROVE  FALSE
  BY <1>1 DEF Apply, Forgotten
<1>2. ASSUME NEW account \in Accounts, Forget(account)
      PROVE  /\ \A r \in RowKeys : rows'[a][r] = Unset
             /\ EventsOf(events', a) = {}
             /\ revision'[a] = 0
  BY <1>2 DEF Forget, Forgotten, TypeOK, EventsOf
<1>3. ASSUME NEW key \in Keys, PurgeSetting(key)
      PROVE  FALSE
  BY <1>3 DEF PurgeSetting, Forgotten
<1>4. CASE UNCHANGED tables
  BY <1>4 DEF tables, Forgotten
<1> QED
  BY <1>1, <1>2, <1>3, <1>4 DEF Next, ApplySome

(* No setting changes behind the person's back (EveryChangeIsRecorded).    *)
THEOREM EveryChangeIsAlwaysRecorded == Spec => EveryChangeIsRecorded
<1>1. Sound /\ [Next]_tables =>
        [\A a \in Accounts :
            /\ Forgotten(a) => /\ \A r \in RowKeys : rows'[a][r] = Unset
                               /\ EventsOf(events', a) = {}
                               /\ revision'[a] = 0
            /\ rows'[a] # rows[a] =>
                  \/ Forgotten(a)
                  \/ \E e \in EventsOf(events', a) :
                        /\ NewerThan(events', e) = {}
                        /\ e \notin events
                        /\ {r[2] : r \in {x \in RowKeys : rows'[a][x] # rows[a][x]}}
                               \subseteq UNION {f.changed : f \in EventsOf(events', a) \ events}
          ]_tables
  BY RecordedStep, ForgottenStep DEF Sound, Moved, NewestNames
<1> QED
  BY <1>1, AlwaysStoreSound, PTL DEF Spec, EveryChangeIsRecorded
-----------------------------------------------------------------------------
(* Paging: the cursor of a full page is the least sequence on it, and both *)
(* pages are the newest of what is older than their cursors.               *)

LEMMA PageIsTop ==
    ASSUME NEW log, NEW account, NEW before, NEW limit
    PROVE  Page(log, account, before, limit) = Top(Older(log, account, before), limit)
BY DEF Page, Top, Above

LEMMA PagedSet ==
    ASSUME NEW log, log \subseteq Event, IsFiniteSet(log),
           \A e, f \in log : e.sequence = f.sequence => e = f,
           NEW account, NEW before, NEW limit \in Nat \ {0}
    PROVE  LET S == Older(log, account, before)
               page == Page(log, account, before, limit)
           IN  /\ page \subseteq S /\ S \subseteq log
               /\ \A x \in S \ page, y \in page : y.sequence > x.sequence
               /\ page # S => Cardinality(page) = limit
<1> DEFINE S == Older(log, account, before)
<1>1. S \in SUBSET log
  BY DEF Older, EventsOf
<1>2. S \subseteq Event /\ IsFiniteSet(S) /\ \A e, f \in S : e.sequence = f.sequence => e = f
  BY <1>1, FS_Subset
<1>3. Top(S, limit) \subseteq S
  BY DEF Top
<1> HIDE DEF S
<1>4. /\ \A x \in S \ Top(S, limit), y \in Top(S, limit) : y.sequence > x.sequence
      /\ Top(S, limit) # S => Cardinality(Top(S, limit)) = limit
  BY <1>2, TopOf
<1> QED
  BY <1>1, <1>3, <1>4, PageIsTop DEF S

LEMMA CursorOf ==
    ASSUME NEW page, page \subseteq Event, NEW limit \in Nat \ {0},
           NextBefore(page, limit) # NoCursor
    PROVE  /\ \E e \in page : e.sequence = NextBefore(page, limit)
           /\ \A e \in page : NextBefore(page, limit) <= e.sequence
<1>1. /\ Cardinality(page) = limit
      /\ NextBefore(page, limit)
             = CHOOSE s \in {e.sequence : e \in page} : \A e \in page : s <= e.sequence
  BY DEF NextBefore
<1>2. page # {}
  BY <1>1, FS_EmptySet
<1>3. \E s \in {e.sequence : e \in page} : \A e \in page : s <= e.sequence
  BY <1>2, OldestOf
<1> QED
  BY <1>1, <1>3

LEMMA PagesStep ==
    ASSUME TypeOK, NumberedOnce, NumberedOnce', TypeOK', [Next]_tables,
           NEW account \in Accounts, NEW limit \in 1..EventCap, NEW before \in 1..Newest,
           NEW page, page = Page(events, account, before, limit),
           NEW cursor, cursor = NextBefore(page, limit), cursor # NoCursor,
           NEW next, next = Page(events', account, cursor, limit),
           NEW left, left = EventsOf(events, account) \cap events'
    PROVE  /\ page \cap next = {}
           /\ next \subseteq left
           /\ \A e \in left : e.sequence < before =>
                  \/ e \in page \cup next
                  \/ /\ Cardinality(next) = limit
                     /\ \A f \in next : f.sequence > e.sequence
<1> DEFINE S == Older(events, account, before)
           T == Older(events', account, cursor)
<1>1. limit \in Nat \ {0} /\ lastSequence \in Nat
  BY CapsAssumption DEF TypeOK
<1>2. events \subseteq Event /\ events' \subseteq Event
      /\ \A e \in events \cup events' : e.sequence \in Nat
  BY CapsAssumption DEF TypeOK, Event
<1>3. /\ page \subseteq S /\ S \subseteq events
      /\ \A x \in S \ page, y \in page : y.sequence > x.sequence
  BY <1>1, <1>2, PagedSet DEF NumberedOnce
<1>4. /\ next \subseteq T /\ T \subseteq events'
      /\ \A x \in T \ next, y \in next : y.sequence > x.sequence
      /\ next # T => Cardinality(next) = limit
  BY <1>1, <1>2, PagedSet DEF NumberedOnce
<1>5. PICK last \in page : last.sequence = cursor
  BY <1>1, <1>2, <1>3, CursorOf
<1>6. \A e \in page : cursor <= e.sequence
  BY <1>1, <1>2, <1>3, CursorOf
<1>7. cursor \in Nat /\ cursor <= lastSequence
  BY <1>1, <1>2, <1>3, <1>5 DEF NumberedOnce
<1>8. \A e \in T : e.account = account /\ e.sequence < cursor
  BY DEF Older, EventsOf
<1>9. page \cap next = {}
  <2> SUFFICES ASSUME NEW e \in page, e \in next PROVE FALSE
    OBVIOUS
  <2>1. cursor <= e.sequence /\ e.sequence < cursor /\ e.sequence \in Nat
    BY <1>2, <1>3, <1>4, <1>6, <1>8
  <2> QED
    BY <1>7, <2>1
<1>10. next \subseteq left
  <2> SUFFICES ASSUME NEW e \in next PROVE e \in left
    OBVIOUS
  <2>1. e \in events' /\ e.account = account /\ e.sequence < cursor /\ e.sequence \in Nat
    BY <1>2, <1>4, <1>8
  <2>2. e.sequence \notin (lastSequence + 1)..lastSequence'
    BY <1>1, <1>7, <2>1, CapsAssumption DEF TypeOK
  <2>3. e \in events
    BY <2>1, <2>2, NewSequences
  <2> QED
    BY <2>1, <2>3 DEF EventsOf
<1>11. ASSUME NEW e \in left, e.sequence < before, e \notin page \cup next
       PROVE  Cardinality(next) = limit /\ \A f \in next : f.sequence > e.sequence
  <2>1. e \in S /\ e \in events' /\ e.account = account
    BY <1>11 DEF Older, EventsOf
  <2>2. e.sequence < cursor
    <3>1. last.sequence > e.sequence /\ e.sequence \in Nat
      BY <1>2, <1>3, <1>11, <2>1
    <3> QED
      BY <1>5, <1>7, <3>1
  <2>3. e \in T
    BY <2>1, <2>2 DEF Older, EventsOf
  <2> QED
    BY <1>4, <1>11, <2>3
<1> QED
  BY <1>9, <1>10, <1>11

(* Somebody who pages through a history that is appended to, trimmed,      *)
(* purged and erased meets no event twice and misses none that is still    *)
(* there (PagesNeitherSkipNorRepeat).                                      *)
THEOREM PagesNeverSkipNorRepeat == Spec => PagesNeitherSkipNorRepeat
<1>1. TypeOK /\ NumberedOnce /\ TypeOK' /\ NumberedOnce' /\ [Next]_tables =>
        [\A account \in Accounts, limit \in 1..EventCap, before \in 1..Newest :
            LET page == Page(events, account, before, limit)
                cursor == NextBefore(page, limit)
                next == Page(events', account, cursor, limit)
                left == EventsOf(events, account) \cap events'
            IN  cursor # NoCursor =>
                    /\ page \cap next = {}
                    /\ next \subseteq left
                    /\ \A e \in left : e.sequence < before =>
                           \/ e \in page \cup next
                           \/ /\ Cardinality(next) = limit
                              /\ \A f \in next : f.sequence > e.sequence
          ]_tables
  <2> SUFFICES ASSUME TypeOK, NumberedOnce, TypeOK', NumberedOnce', [Next]_tables,
                      NEW account \in Accounts, NEW limit \in 1..EventCap, NEW before \in 1..Newest
               PROVE  LET page == Page(events, account, before, limit)
                          cursor == NextBefore(page, limit)
                          next == Page(events', account, cursor, limit)
                          left == EventsOf(events, account) \cap events'
                      IN  cursor # NoCursor =>
                              /\ page \cap next = {}
                              /\ next \subseteq left
                              /\ \A e \in left : e.sequence < before =>
                                     \/ e \in page \cup next
                                     \/ /\ Cardinality(next) = limit
                                        /\ \A f \in next : f.sequence > e.sequence
    OBVIOUS
  <2> DEFINE page == Page(events, account, before, limit)
             cursor == NextBefore(page, limit)
             next == Page(events', account, cursor, limit)
             left == EventsOf(events, account) \cap events'
  <2>1. ASSUME cursor # NoCursor
        PROVE  /\ page \cap next = {}
               /\ next \subseteq left
               /\ \A e \in left : e.sequence < before =>
                      \/ e \in page \cup next
                      \/ /\ Cardinality(next) = limit
                         /\ \A f \in next : f.sequence > e.sequence
    <3>1. /\ page = Page(events, account, before, limit)
          /\ cursor = NextBefore(page, limit)
          /\ next = Page(events', account, cursor, limit)
          /\ left = EventsOf(events, account) \cap events'
      OBVIOUS
    <3> HIDE DEF page, cursor, next, left
    <3> QED
      BY <2>1, <3>1, PagesStep
  <2> QED
    BY <2>1
<1> QED
  BY <1>1, TypeCorrect, AlwaysNumbered, PTL DEF Spec, PagesNeitherSkipNorRepeat
=============================================================================
