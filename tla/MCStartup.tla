----------------------------- MODULE MCStartup -----------------------------
(***************************************************************************)
(* Two processes over one file.  The shipped build has common.retention (a *)
(* clampable number) and spotify.market (a nullable text, profile-scoped); *)
(* a package adds lab.mode (a clampable enum), another claims spotify.     *)
(* Some of what an operator installs is refused, and as a start reads the  *)
(* build, the environment and the policy one after the other, it may meet  *)
(* any mixture of two installations.                                       *)
(***************************************************************************)
EXTENDS Startup, TLC

CONSTANTS a, b, p1

MCTexts == {"PT", "fast", "safe", "sk-x"}
MCChars == [t \in MCTexts |-> 2]
MCNames == {"common", "spotify", "lab", "retention", "market", "mode", "default_profile"}

Base ==
    [namespace |-> "common", key |-> "retention", value_type |-> "int", default |-> Whole(30),
     minimum |-> None, maximum |-> None, choices |-> {}, max_chars |-> None, pattern |-> None,
     max_items |-> None, max_item_chars |-> None, nullable |-> FALSE, timezone |-> FALSE,
     operator_clampable |-> FALSE, owner_writable_only |-> FALSE, scope |-> "account",
     agent_writable |-> "never", on_unavailable |-> "refuse", conservative_values |-> {},
     retired |-> FALSE]

Retention == [Base EXCEPT !.minimum = 0, !.maximum = 365, !.operator_clampable = TRUE]

Market ==
    [Base EXCEPT !.namespace = "spotify", !.key = "market", !.value_type = "str",
                 !.default = Null, !.nullable = TRUE, !.max_chars = 2, !.scope = "profile"]

Mode ==
    [Base EXCEPT !.namespace = "lab", !.key = "mode", !.value_type = "enum",
                 !.default = Text("safe"), !.choices = {"fast", "safe"},
                 !.operator_clampable = TRUE, !.on_unavailable = "use_default",
                 !.conservative_values = {Text("safe")}]

Shipped == <<[namespace |-> "common", settings |-> <<Retention>>],
             [namespace |-> "spotify", settings |-> <<Market>>]>>
Extended == Append(Shipped, [namespace |-> "lab", settings |-> <<Mode>>])
Clashing == Append(Shipped, [namespace |-> "spotify", settings |-> <<Market>>])

File(namespaces, clauses) == [state |-> "read", namespaces |-> namespaces, clauses |-> clauses]
retention == <<"common", "retention">>
market == <<"spotify", "market">>
mode == <<"lab", "mode">>

Narrowing == File({"common", "spotify"},
    retention :> [maximum |-> Whole(20), default |-> Whole(10)]
    @@ market :> [pin |-> Text("PT")])
PinnedOutside == File({"common"}, retention :> [maximum |-> Whole(20), pin |-> Whole(30)])
ForTheLab == File({"lab"}, mode :> [choices |-> TextList(<<"safe">>)])

Service(token, namespace) ==
    [token |-> token, audience_prefix |-> "spotify-api", namespaces |-> <<namespace>>]

Environment ==
    [names |-> {"SETTINGS_API_SERVICES"}, audience_prefix |-> "settings",
     allowed_namespaces |-> <<"common", "spotify">>,
     services |-> ("one" :> Service("t1", "spotify") @@ "two" :> Service("t2", "common")),
     limits |-> [max_events |-> 2000]]
Misspelt == [Environment EXCEPT !.names = {"SETTINGS_API_ALOWED_NAMESPACES"}]
SharedToken == [Environment EXCEPT !.services["two"] = Service("t1", "common")]
LabService == [Environment EXCEPT !.allowed_namespaces = <<"common", "spotify", "lab">>,
                                  !.services["two"] = Service("t2", "lab")]

Installed(build, environment, policy) ==
    [build |-> build, environment |-> environment, policy |-> policy]

MCInstallations ==
    {Installed(Shipped, Environment, Narrowing),
     Installed(Shipped, SharedToken, PinnedOutside),
     Installed(Extended, LabService, ForTheLab),
     Installed(Clashing, Misspelt, [NO_POLICY EXCEPT !.state = "unreadable"])}

MCDisks ==
    {[versioned |-> FALSE, applied |-> {}, layout |-> 0, rows |-> {}],
     [versioned |-> TRUE, applied |-> {1}, layout |-> 1,
      rows |-> {[profile |-> NoColumn, key |-> market, value |-> Text("PT")]}]}

MCCandidates == {Whole(10), Text("PT"), Text("sk-x"), Text("fast")}
MCKnownEnvNames == {"SETTINGS_API_SERVICES", "SETTINGS_API_ALLOWED_NAMESPACES"}
MCTokenChars == [t \in {"t1", "t2"} |-> 32]
=============================================================================
