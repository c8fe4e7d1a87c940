----------------------------- MODULE MCRequests -----------------------------
(***************************************************************************)
(* Two requests at a time to a process with two consuming services, of     *)
(* which one is granted spotify and the other keyring.  Its catalogue is   *)
(* the shipped one's part that the calls name.  The policy pins one        *)
(* setting and narrows another.  A second deployment, in which the two     *)
(* services share a token, must not start.                                 *)
(***************************************************************************)
EXTENDS Requests, Catalogue, TLC

CONSTANTS a1, a2, i1, i2, r1, r2

MCTexts == {"UTC", "personal", "anthropic:claude-opus-5", "", "en", "us", "PT", "PTX", "imperial",
            "off", "sk-x"}
MCChars ==
    "UTC" :> 3 @@ "personal" :> 8 @@ "anthropic:claude-opus-5" :> 23 @@ "" :> 0 @@ "en" :> 2
    @@ "us" :> 2 @@ "PT" :> 2 @@ "PTX" :> 3 @@ "imperial" :> 8 @@ "off" :> 3 @@ "sk-x" :> 4

MCMatching(pattern) ==
    CASE pattern = "^[a-z0-9](?:[a-z0-9._-]*[a-z0-9])?$" -> 
             Texts \ {"UTC", "anthropic:claude-opus-5", "", "PT", "PTX"}
      [] pattern = "^[a-z]{2,3}(?:-[a-z0-9]{2,4})?$" -> {"en", "us"}
      [] pattern = "^[a-z]{2}$" -> {"en", "us"}
      [] pattern = "^[A-Z]{2}$" -> {"PT"}
      [] pattern = "^[A-Z]{3}$" -> {"UTC", "PTX"}
      [] pattern = "^[a-z0-9][a-z0-9-]*:[A-Za-z0-9][A-Za-z0-9._-]*$" -> {"anthropic:claude-opus-5"}
      [] pattern = "^$|^([01]\\d|2[0-3]):[0-5]\\d-([01]\\d|2[0-3]):[0-5]\\d$" -> {""}
      [] OTHER -> {}

MCNames ==
    {"common", "keyring", "spotify", "github", "nowhere", "timezone", "units", "repeat_mode",
     "default_market", "require_reauth_for_credential_changes", "max_sessions", "default_profile",
     "typo"}

(* The build as shipped passes its own checks.                             *)
ASSUME ShippedAssembles == Assembles(Shipped)

Excerpt ==
    <<In("common", CommonSettings), In("keyring", KeyringSettings), In("spotify", SpotifySettings)>>

Service(token, prefix, namespace) ==
    [token |-> token, audience_prefix |-> prefix, namespaces |-> <<namespace>>]

Environment ==
    [names |-> {"SETTINGS_API_SERVICES"}, audience_prefix |-> "settings",
     allowed_namespaces |-> <<"common", "spotify", "keyring">>,
     services |-> ("music" :> Service("t1", "spotify-api", "spotify")
                   @@ "login" :> Service("t2", "keyring-api", "keyring")),
     limits |-> [max_events |-> 2000]]

PinsRepeat ==
    [state |-> "read", namespaces |-> {"spotify"},
     clauses |-> (<<"spotify", "repeat_mode">> :> [pin |-> Text("off")]
                  @@ <<"keyring", "max_sessions">> :> [maximum |-> Whole(5), default |-> Whole(5)])]

AsPlanned == [build |-> Excerpt, environment |-> Environment, policy |-> PinsRepeat]
SharedToken ==
    [AsPlanned EXCEPT !.environment.services["login"] = Service("t1", "keyring-api", "keyring")]
MCDeployments == "planned" :> AsPlanned @@ "shared token" :> SharedToken

Token(account, head, scope, state) ==
    [account |-> account, head |-> head, scope |-> scope, state |-> state]
Owner == Token(a1, "settings", None, "good")
Other == Token(a2, "settings", None, "good")
Scoped == Token(a1, "settings", "spotify", "good")
Misnamed == Token(a1, "settings", "github", "good")
ForMusic == Token(a1, "spotify-api", None, "good")
ForLogin == Token(a2, "keyring-api", None, "good")
Expired == Token(a2, "settings", None, "refused")
Garbage == Token(a1, "settings", None, "malformed")

NoTag == [form |-> "absent", account |-> a1, revision |-> 0]
Strong(account, n) == [form |-> "strong", account |-> account, revision |-> n]
Item1(namespace, key, value) == [namespace |-> namespace, key |-> key, value |-> value]

Plain ==
    [operation |-> "get_settings", token |-> Owner, service_token |-> None, namespace |-> "common",
     items |-> <<>>, profile |-> None, body |-> "fine", tag |-> NoTag]
Of(operation, token) == [Plain EXCEPT !.operation = operation, !.token = token]
Names1(operation, token, item) == [Of(operation, token) EXCEPT !.items = <<item>>]
By(service_token, operation, token) ==
    [Of(operation, token) EXCEPT !.service_token = service_token, !.namespace = "spotify"]
Sets(service_token, item) ==
    [By(service_token, "set_setting_for_user", ForLogin) EXCEPT !.items = <<item>>]

Units == Item1("common", "units", Text("imperial"))
Market == Item1("spotify", "default_market", Text("PT"))
Sessions == Item1("keyring", "max_sessions", Whole(10))
Reauth == Item1("keyring", "require_reauth_for_credential_changes", True)

MCCalls ==
    {Of("get_settings", None), Of("get_settings", Misnamed),
     Of("get_settings", ForMusic), Of("get_settings", Garbage),
     [Of("get_namespace", Scoped) EXCEPT !.namespace = "keyring"],
     Names1("get_setting", Owner, Item1("common", "typo", Null)),
     [Names1("set_setting", Scoped, Market) EXCEPT !.profile = "home"],
     [Names1("set_setting", Owner, Units) EXCEPT !.tag = Strong(a1, 0)],
     [Names1("set_setting", Other, Units) EXCEPT !.tag = Strong(a1, 0)],
     [Names1("set_setting", Owner, Units) EXCEPT !.tag = [NoTag EXCEPT !.form = "digit"]],
     [Of("update_settings", Owner) EXCEPT !.items = <<Units, Sessions>>],
     [Of("update_settings", Owner) EXCEPT !.body = "not_json"],
     Names1("reset_setting", Other, Item1("spotify", "repeat_mode", Null)),
     [Of("reset_namespace", Other) EXCEPT !.namespace = "nowhere"],
     Of("forget_settings", Other), Of("forget_settings", Expired),
     By("t1", "resolve_settings", ForMusic),
     [By("t1", "resolve_settings", ForMusic) EXCEPT !.namespace = "common", !.tag = Strong(a1, 0)],
     By("t1", "resolve_settings", ForLogin), By("t2", "resolve_settings", ForLogin),
     By("t3", "resolve_settings", Owner), By(None, "resolve_settings", Owner),
     Sets("t2", Reauth), Sets("t2", [Sessions EXCEPT !.value = Whole(5)])}

MCTokenChars == [t \in {"t1", "t2", "t3"} |-> 32]
Symmetry == Permutations(Slots) \cup Permutations(RequestIds)
=============================================================================
