---------------------------- MODULE Policy_proofs ----------------------------
(***************************************************************************)
(* A policy narrows: whatever clauses are accepted, in whatever order they *)
(* are written, the entry that is left admits only values the catalogue's  *)
(* entry admits, and the pin and the default it was given are among them.  *)
(* Of an assembled build this holds for every live entry, because a        *)
(* qualified name finds one entry only.                                    *)
(***************************************************************************)
EXTENDS Policy, TLAPS

(* Narrowing rewrites five attributes and no other.                        *)
LEMMA NarrowedAttributes ==
    ASSUME NEW e \in SettingDef, NEW c
    PROVE  /\ Narrowed(e, c).minimum = IF "minimum" \in DOMAIN c THEN c["minimum"].is ELSE e.minimum
           /\ Narrowed(e, c).maximum = IF "maximum" \in DOMAIN c THEN c["maximum"].is ELSE e.maximum
           /\ Narrowed(e, c).max_items = IF "max_items" \in DOMAIN c THEN c["max_items"].is ELSE e.max_items
           /\ Narrowed(e, c).choices = IF "choices" \in DOMAIN c
                                       THEN e.choices \cap Range(c["choices"].is) ELSE e.choices
           /\ Narrowed(e, c).default = IF "default" \in DOMAIN c THEN c["default"] ELSE e.default
           /\ Narrowed(e, c).value_type = e.value_type
           /\ Narrowed(e, c).nullable = e.nullable
           /\ Narrowed(e, c).max_chars = e.max_chars
           /\ Narrowed(e, c).max_item_chars = e.max_item_chars
           /\ Narrowed(e, c).pattern = e.pattern
           /\ Narrowed(e, c).timezone = e.timezone
           /\ Narrowed(e, c).scope = e.scope
BY DEF SettingDef, Narrowed

LEMMA WholeJson ==
    ASSUME NEW v \in Json, v.kind = "int"
    PROVE  v.is \in Int
BY DEF Json, Value, Null

LEMMA ListValue ==
    ASSUME NEW v \in Value, v.kind = "list"
    PROVE  v.is \in Seq(Texts)
BY DEF Value, Null

(* What a policy leaves of an entry admits nothing new.                    *)
THEOREM NarrowingNeverWidens ==
    ASSUME NEW e \in SettingDef, NEW c, ClausesAreJson(c), AcceptsClauses(e, c),
           NEW v \in Value, Validate(Narrowed(e, c), v)
    PROVE  Validate(e, v)
<1> DEFINE n == Narrowed(e, c)
<1>1. CASE v.kind = "null" /\ n.nullable
  BY <1>1, NarrowedAttributes DEF Validate
<1>2. CASE n.value_type = "bool" /\ v.kind = "bool"
  BY <1>2, NarrowedAttributes DEF Validate
<1>3. CASE n.value_type = "int" /\ CheckInt(n, v)
  <2>1. v.kind = "int" /\ v.is \in Int
    BY <1>3, WholeJson DEF CheckInt, Json
  <2>2. AtLeast(v.is, e.minimum)
    <3>1. CASE "minimum" \in DOMAIN c
      <4>1. Raised(e, c["minimum"]) /\ c["minimum"] \in Json
        BY <3>1 DEF AcceptsClauses, ClausesAreJson
      <4>2. c["minimum"].is \in Int
        BY <4>1, WholeJson DEF Raised
      <4>3. v.is >= c["minimum"].is
        BY <1>3, <3>1, <4>2, NarrowedAttributes, NamesAssumption DEF CheckInt, AtLeast
      <4>4. CASE e.minimum = None
        BY <4>4 DEF AtLeast
      <4>5. CASE e.minimum # None
        <5>1. e.minimum \in Int
          BY <4>5 DEF SettingDef, Bound
        <5>2. c["minimum"].is >= e.minimum
          BY <4>1, <4>5 DEF Raised, AtLeast
        <5> QED
          BY <2>1, <4>2, <4>3, <5>1, <5>2 DEF AtLeast
      <4> QED
        BY <4>4, <4>5
    <3>2. CASE "minimum" \notin DOMAIN c
      BY <1>3, <3>2, NarrowedAttributes DEF CheckInt
    <3> QED
      BY <3>1, <3>2
  <2>3. AtMost(v.is, e.maximum)
    <3>1. CASE "maximum" \in DOMAIN c
      <4>1. Lowered(e, c["maximum"]) /\ c["maximum"] \in Json
        BY <3>1 DEF AcceptsClauses, ClausesAreJson
      <4>2. c["maximum"].is \in Int
        BY <4>1, WholeJson DEF Lowered
      <4>3. v.is <= c["maximum"].is
        BY <1>3, <3>1, <4>2, NarrowedAttributes, NamesAssumption DEF CheckInt, AtMost
      <4>4. CASE e.maximum = None
        BY <4>4 DEF AtMost
      <4>5. CASE e.maximum # None
        <5>1. e.maximum \in Int
          BY <4>5 DEF SettingDef, Bound
        <5>2. c["maximum"].is <= e.maximum
          BY <4>1, <4>5 DEF Lowered, AtMost
        <5> QED
          BY <2>1, <4>2, <4>3, <5>1, <5>2 DEF AtMost
      <4> QED
        BY <4>4, <4>5
    <3>2. CASE "maximum" \notin DOMAIN c
      BY <1>3, <3>2, NarrowedAttributes DEF CheckInt
    <3> QED
      BY <3>1, <3>2
  <2>4. e.value_type = "int"
    BY <1>3, NarrowedAttributes
  <2> QED
    BY <2>1, <2>2, <2>3, <2>4 DEF Validate, CheckInt
<1>4. CASE n.value_type = "str" /\ CheckStr(n, v)
  BY <1>4, NarrowedAttributes DEF Validate, CheckStr, AtMost
<1>5. CASE n.value_type = "enum" /\ CheckEnum(n, v)
  <2>1. n.choices \subseteq e.choices
    BY NarrowedAttributes
  <2> QED
    BY <1>5, <2>1, NarrowedAttributes DEF Validate, CheckEnum
<1>6. CASE n.value_type = "str_list" /\ CheckStrList(n, v)
  <2>1. v.kind = "list" /\ v.is \in Seq(Texts)
    BY <1>6, ListValue DEF CheckStrList
  <2>2. Len(v.is) \in Int
    BY <2>1
  <2>3. AtMost(Len(v.is), e.max_items)
    <3>1. CASE "max_items" \in DOMAIN c
      <4>1. Fewer(e, c["max_items"]) /\ c["max_items"] \in Json
        BY <3>1 DEF AcceptsClauses, ClausesAreJson
      <4>2. c["max_items"].is \in Int
        BY <4>1, WholeJson DEF Fewer
      <4>3. Len(v.is) <= c["max_items"].is
        BY <1>6, <3>1, <4>2, NarrowedAttributes, NamesAssumption DEF CheckStrList, AtMost
      <4>4. CASE e.max_items = None
        BY <4>4 DEF AtMost
      <4>5. CASE e.max_items # None
        <5>1. e.max_items \in Int
          BY <4>5 DEF SettingDef, Bound
        <5>2. c["max_items"].is <= e.max_items
          BY <4>1, <4>5 DEF Fewer, AtMost
        <5> QED
          BY <2>2, <4>2, <4>3, <5>1, <5>2 DEF AtMost
      <4> QED
        BY <4>4, <4>5
    <3>2. CASE "max_items" \notin DOMAIN c
      BY <1>6, <3>2, NarrowedAttributes DEF CheckStrList
    <3> QED
      BY <3>1, <3>2
  <2>4. CheckStrList(e, v)
    BY <1>6, <2>3, NarrowedAttributes DEF CheckStrList, AtMost
  <2> QED
    BY <1>6, <2>4, NarrowedAttributes DEF Validate
<1> QED
  BY <1>1, <1>2, <1>3, <1>4, <1>5, <1>6 DEF Validate
-----------------------------------------------------------------------------
(* In a build that assembles, a qualified name is that of one entry.       *)
LEMMA OneEntryPerName ==
    ASSUME NEW build, Assembles(build), NEW e \in LiveEntries(build),
           NEW f \in LiveEntriesIn(build, e.namespace), f.key = e.key
    PROVE  f = e
<1>1. PICK i \in DOMAIN build : e \in Range(build[i].settings)
  BY DEF LiveEntries, EveryEntry
<1>2. PICK x \in DOMAIN build[i].settings : e = build[i].settings[x]
  BY <1>1 DEF Range
<1>3. PICK m \in Range(build) : m.namespace = e.namespace /\ f \in Range(m.settings)
  BY DEF LiveEntriesIn
<1>4. PICK j \in DOMAIN build : m = build[j]
  BY <1>3 DEF Range
<1>5. PICK y \in DOMAIN build[j].settings : f = build[j].settings[y]
  BY <1>3, <1>4 DEF Range
<1>6. e.namespace = build[i].namespace
  BY <1>2 DEF Assembles, ModuleIsSound
<1>7. i = j
  BY <1>3, <1>4, <1>6 DEF Assembles
<1>8. x = y
  BY <1>2, <1>5, <1>7 DEF Assembles, ModuleIsSound
<1> QED
  BY <1>2, <1>5, <1>7, <1>8

LEMMA LiveEntriesTyped ==
    ASSUME NEW build \in Seq(Module), NEW e \in LiveEntries(build)
    PROVE  e \in SettingDef
<1>1. PICK i \in DOMAIN build : e \in Range(build[i].settings)
  BY DEF LiveEntries, EveryEntry
<1>2. build[i] \in Module
  BY <1>1
<1>3. build[i].settings \in Seq(SettingDef)
  BY <1>2 DEF Module
<1> QED
  BY <1>1, <1>3 DEF Range

LEMMA LiveEntriesChecked ==
    ASSUME NEW build, Assembles(build), NEW e \in LiveEntries(build)
    PROVE  Check(e)
<1>1. PICK i \in DOMAIN build : e \in Range(build[i].settings)
  BY DEF LiveEntries, EveryEntry
<1> QED
  BY <1>1 DEF Range, Assembles, ModuleIsSound

(* A policy that is loaded leaves of every live entry one that admits no   *)
(* more than the catalogue, admits its own pin and its own default, and    *)
(* keeps what is common to one account in one place.                       *)
THEOREM LoadedPolicyNarrows ==
    ASSUME NEW build \in Seq(Module), Assembles(build), NEW file, Loads(build, file),
           \A q \in DOMAIN file.clauses : ClausesAreJson(file.clauses[q]),
           NEW e \in LiveEntries(build)
    PROVE  LET served == DefinitionOf(file, e)
           IN  /\ \A v \in Value : Validate(served, v) => Validate(e, v)
               /\ IsPinned(file, e) => Validate(served, PinOn(file, e))
               /\ served.default # e.default => Validate(served, served.default)
               /\ e.namespace = COMMON => served.scope = "account"
<1> DEFINE q == Qualified(e)
           c == file.clauses[q]
<1>1. e \in SettingDef /\ Check(e)
  BY LiveEntriesTyped, LiveEntriesChecked
<1>2. e.namespace = COMMON => e.scope = "account"
  BY <1>1 DEF Check, EntryScope
<1>3. CASE q \notin DOMAIN file.clauses
  BY <1>2, <1>3 DEF DefinitionOf, IsPinned
<1>4. CASE q \in DOMAIN file.clauses
  <2>1. PICK f \in LiveEntriesIn(build, q[1]) : f.key = q[2] /\ AcceptsClauses(f, c)
    BY <1>4 DEF Loads
  <2>2. q[1] = e.namespace /\ q[2] = e.key
    BY DEF Qualified
  <2>3. AcceptsClauses(e, c)
    BY <2>1, <2>2, OneEntryPerName
  <2>4. DefinitionOf(file, e) = Narrowed(e, c)
    BY <1>4 DEF DefinitionOf
  <2>5. \A v \in Value : Validate(Narrowed(e, c), v) => Validate(e, v)
    BY <1>1, <1>4, <2>3, NarrowingNeverWidens
  <2>6. IsPinned(file, e) => Validate(Narrowed(e, c), PinOn(file, e))
    BY <2>3 DEF IsPinned, PinOn, AcceptsClauses
  <2>7. Narrowed(e, c).default # e.default => Validate(Narrowed(e, c), Narrowed(e, c).default)
    BY <1>1, <2>3, NarrowedAttributes DEF AcceptsClauses
  <2>8. e.namespace = COMMON => Narrowed(e, c).scope = "account"
    BY <1>1, <1>2, NarrowedAttributes
  <2> HIDE DEF q, c
  <2> QED
    BY <2>4, <2>5, <2>6, <2>7, <2>8
<1> QED
  BY <1>3, <1>4
=============================================================================
