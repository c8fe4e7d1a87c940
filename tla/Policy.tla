------------------------------- MODULE Policy -------------------------------
(***************************************************************************)
(* The catalogue a build assembles and the policy file that narrows it for *)
(* one deployment: which values an entry admits, which entries and which   *)
(* catalogues are refused at import, which clauses a policy may hold, and  *)
(* what is left of an entry once they are applied.                         *)
(*                                                                         *)
(* A value is a tagged record, because the checks turn on its JSON type.   *)
(* A text is an element of Texts with a length; a pattern is the set of    *)
(* texts it matches.  The spelling of names and the prose of entries are   *)
(* left out, and with them the rules _entry_names and _entry_prose.        *)
(***************************************************************************)
EXTENDS Integers, Sequences, FiniteSets, Functions

CONSTANTS
    Texts,         \* strings, as far as settings tell them apart
    Chars,         \* text -> its length in characters
    Zones,         \* the texts zoneinfo can resolve
    Credentials,   \* the texts looks_like_a_credential has a reason for
    None,          \* an absent bound, pattern or pin
    COMMON,        \* the namespace every service may read
    Names,         \* the names of namespaces and keys
    DEFAULT_PROFILE \* the key that names a profile

ASSUME TextsAssumption ==
    /\ Chars \in [Texts -> Nat]
    /\ Zones \subseteq Texts
    /\ Credentials \subseteq Texts

ASSUME NamesAssumption ==
    /\ {COMMON, DEFAULT_PROFILE} \subseteq Names
    /\ None \notin Int

(* A JSON value.  "other" is everything that is no settings value: floats, *)
(* objects, and lists of anything but strings.                             *)
Null == [kind |-> "null"]
Whole(n) == [kind |-> "int", is |-> n]
Text(t) == [kind |-> "str", is |-> t]
TextList(s) == [kind |-> "list", is |-> s]

Value ==
    {Null} \cup [kind : {"bool"}, is : BOOLEAN] \cup [kind : {"int"}, is : Int]
           \cup [kind : {"str"}, is : Texts] \cup [kind : {"list"}, is : Seq(Texts)]

SettingType == {"bool", "int", "str", "enum", "str_list"}

Bound == Int \cup {None}

SettingDef ==
    [namespace : Names, key : Names, value_type : SettingType, default : Value,
     minimum : Bound, maximum : Bound, choices : SUBSET Texts, max_chars : Bound,
     pattern : {None} \cup SUBSET Texts, max_items : Bound, max_item_chars : Bound,
     nullable : BOOLEAN, timezone : BOOLEAN, operator_clampable : BOOLEAN,
     owner_writable_only : BOOLEAN, scope : {"account", "profile"},
     agent_writable : {"never", "with_approval", "freely"},
     on_unavailable : {"use_default", "refuse"}, conservative_values : SUBSET Value,
     retired : BOOLEAN]

Qualified(e) == <<e.namespace, e.key>>
-----------------------------------------------------------------------------
(* Which values an entry admits: SettingDef.validate and its checkers.     *)

AtLeast(n, bound) == bound # None => n >= bound
AtMost(n, bound) == bound # None => n <= bound

CheckInt(e, v) ==
    /\ v.kind = "int"
    /\ AtLeast(v.is, e.minimum)
    /\ AtMost(v.is, e.maximum)

CheckStr(e, v) ==
    /\ v.kind = "str"
    /\ AtMost(Chars[v.is], e.max_chars)
    /\ e.pattern # None => v.is \in e.pattern
    /\ e.timezone => v.is \in Zones

CheckEnum(e, v) == v.kind = "str" /\ v.is \in e.choices

CheckStrList(e, v) ==
    /\ v.kind = "list"
    /\ AtMost(Len(v.is), e.max_items)
    /\ \A i \in DOMAIN v.is : AtMost(Chars[v.is[i]], e.max_item_chars)
    /\ \A i, j \in DOMAIN v.is : v.is[i] = v.is[j] => i = j

Validate(e, v) ==
    \/ v.kind = "null" /\ e.nullable
    \/ e.value_type = "bool" /\ v.kind = "bool"
    \/ e.value_type = "int" /\ CheckInt(e, v)
    \/ e.value_type = "str" /\ CheckStr(e, v)
    \/ e.value_type = "enum" /\ CheckEnum(e, v)
    \/ e.value_type = "str_list" /\ CheckStrList(e, v)

StringsIn(v) ==
    CASE v.kind = "str" -> {v.is} [] v.kind = "list" -> Range(v.is) [] OTHER -> {}

(* What a write checks of a value; its serialized size is not modelled.    *)
ValidateWrite(e, v) == Validate(e, v) /\ StringsIn(v) \cap Credentials = {}
-----------------------------------------------------------------------------
(* Which entries a build may hold: SettingDef.check.                       *)

EntryBounds(e) ==
    /\ e.value_type = "enum" <=> e.choices # {}
    /\ e.value_type # "int" => e.minimum = None /\ e.maximum = None
    /\ e.minimum # None /\ e.maximum # None => e.minimum <= e.maximum

EntryFallback(e) == e.on_unavailable = "use_default" => e.default \in e.conservative_values

EntryAgentAccess(e) ==
    /\ e.owner_writable_only \/ e.on_unavailable = "refuse" => e.agent_writable # "freely"
    /\ e.retired => e.agent_writable = "never"

EntryScope(e) ==
    e.namespace = COMMON \/ e.key = DEFAULT_PROFILE => e.scope = "account"

Check(e) ==
    /\ EntryBounds(e)
    /\ Validate(e, e.default)
    /\ EntryFallback(e)
    /\ EntryAgentAccess(e)
    /\ EntryScope(e)

(* A build: its own namespace modules and then the discovered ones, each a *)
(* namespace and a sequence of entries.  _assemble refuses a build whole.  *)
Module == [namespace : Names, settings : Seq(SettingDef)]

ModuleIsSound(m) ==
    \A i \in DOMAIN m.settings :
        /\ m.settings[i].namespace = m.namespace
        /\ \A j \in DOMAIN m.settings : m.settings[i].key = m.settings[j].key => i = j
        /\ Check(m.settings[i])

Assembles(build) ==
    /\ \A i, j \in DOMAIN build : build[i].namespace = build[j].namespace => i = j
    /\ \A i \in DOMAIN build : ModuleIsSound(build[i])

NamespacesOf(build) == {build[i].namespace : i \in DOMAIN build}
EveryEntry(build) == UNION {Range(build[i].settings) : i \in DOMAIN build}
LiveEntries(build) == {e \in EveryEntry(build) : ~ e.retired}

LiveEntriesIn(build, namespace) ==
    UNION {{e \in Range(m.settings) : ~ e.retired} : m \in {n \in Range(build) : n.namespace = namespace}}
-----------------------------------------------------------------------------
(* What a policy may say.  The clauses on a setting are a function from    *)
(* clause names to JSON values.                                            *)

CLAMPING == {"minimum", "maximum", "choices", "max_items"}
CLAUSES == CLAMPING \cup {"pin", "default"}

Raised(e, v) ==
    /\ v.kind = "int" /\ e.value_type = "int"
    /\ AtLeast(v.is, e.minimum)

Lowered(e, v) ==
    /\ v.kind = "int" /\ e.value_type = "int"
    /\ AtMost(v.is, e.maximum)

Subset(e, v) ==
    /\ e.value_type = "enum"
    /\ v.kind = "list" /\ v.is # <<>>
    /\ Range(v.is) \subseteq e.choices

Fewer(e, v) ==
    /\ e.value_type = "str_list"
    /\ v.kind = "int"
    /\ AtMost(v.is, e.max_items)

(* _narrow, when every clause is accepted.                                 *)
Narrowed(e, c) ==
    LET Clause(name, old) == IF name \in DOMAIN c THEN c[name].is ELSE old
    IN  [e EXCEPT !.minimum = Clause("minimum", e.minimum),
                  !.maximum = Clause("maximum", e.maximum),
                  !.max_items = Clause("max_items", e.max_items),
                  !.choices = IF "choices" \in DOMAIN c THEN e.choices \cap Range(c["choices"].is)
                              ELSE e.choices,
                  !.default = IF "default" \in DOMAIN c THEN c["default"] ELSE e.default]

(* Mutant of AcceptsClauses: the default and the pin are held against the  *)
(* catalogue's entry.                                                      *)
AcceptsClauses_Catalogue(e, c) ==
    /\ DOMAIN c \subseteq CLAUSES
    /\ DOMAIN c \cap CLAMPING # {} => e.operator_clampable
    /\ "minimum" \in DOMAIN c => Raised(e, c["minimum"])
    /\ "maximum" \in DOMAIN c => Lowered(e, c["maximum"])
    /\ "choices" \in DOMAIN c => Subset(e, c["choices"])
    /\ "max_items" \in DOMAIN c => Fewer(e, c["max_items"])
    /\ \A clause \in {"default", "pin"} \cap DOMAIN c : Validate(e, c[clause])

(* A default and a pin are held against the entry as narrowed; a default   *)
(* that the catalogue gave and the bounds now leave outside is not.        *)
AcceptsClauses(e, c) ==
    /\ DOMAIN c \subseteq CLAUSES
    /\ DOMAIN c \cap CLAMPING # {} => e.operator_clampable
    /\ "minimum" \in DOMAIN c => Raised(e, c["minimum"])
    /\ "maximum" \in DOMAIN c => Lowered(e, c["maximum"])
    /\ "choices" \in DOMAIN c => Subset(e, c["choices"])
    /\ "max_items" \in DOMAIN c => Fewer(e, c["max_items"])
    /\ \A clause \in {"default", "pin"} \cap DOMAIN c : Validate(Narrowed(e, c), c[clause])

(* What JSON may say of a setting, clause by clause.                       *)
Json == Value \cup {[kind |-> "other"]}
ClausesAreJson(c) == \A name \in DOMAIN c : c[name] \in Json

(* A policy file: absent, unreadable (missing, not JSON, not an object of  *)
(* objects), or the namespaces it names and the clauses on each setting.   *)
NO_POLICY == [state |-> "read", namespaces |-> {}, clauses |-> <<>>]

Loads(build, file) ==
    /\ file.state = "read"
    /\ file.namespaces \subseteq NamespacesOf(build)
    /\ \A q \in DOMAIN file.clauses :
           \E e \in LiveEntriesIn(build, q[1]) : e.key = q[2] /\ AcceptsClauses(e, file.clauses[q])

DefinitionOf(file, e) ==
    IF Qualified(e) \in DOMAIN file.clauses THEN Narrowed(e, file.clauses[Qualified(e)]) ELSE e

IsPinned(file, e) ==
    Qualified(e) \in DOMAIN file.clauses /\ "pin" \in DOMAIN file.clauses[Qualified(e)]

PinOn(file, e) == IF IsPinned(file, e) THEN file.clauses[Qualified(e)]["pin"] ELSE None
=============================================================================
