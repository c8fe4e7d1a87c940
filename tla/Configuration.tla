--------------------------- MODULE Configuration ---------------------------
(***************************************************************************)
(* The environment of a process and which environments its configuration   *)
(* accepts, given the namespaces of the build it runs: the checks of       *)
(* Settings and ServiceConfig.                                             *)
(*                                                                         *)
(* Variables are known by their upper-case names, as pydantic compares     *)
(* them.  A prefix is an element of Prefixes, with the texts that are not  *)
(* trimmed or hold a dot set apart; a token has an identity and a length.  *)
(***************************************************************************)
EXTENDS Policy

CONSTANTS
    KnownEnvNames,            \* what known_env_names() enumerates
    WellFormedPrefixes,       \* non-empty, trimmed, without a dot
    TokenChars,               \* service token -> its length
    MIN_SERVICE_TOKEN_CHARS

ASSUME TokensAssumption ==
    /\ MIN_SERVICE_TOKEN_CHARS \in Nat
    /\ TokenChars \in [DOMAIN TokenChars -> Nat]

POSITIVE == {"max_events", "max_value_bytes", "jwks_cache_seconds", "jwks_min_refetch_seconds",
             "keyring_http_timeout_seconds", "sweep_interval_seconds", "port"}
NON_NEGATIVE == {"cache_ttl_seconds", "retired_retention_days"}

CheckNamespaceNames(build, names) ==
    /\ names # <<>>
    /\ Range(names) \subseteq NamespacesOf(build)
    /\ \A i, j \in DOMAIN names : names[i] = names[j] => i = j

CheckService(build, service) ==
    /\ service.audience_prefix \in WellFormedPrefixes
    /\ CheckNamespaceNames(build, service.namespaces)
    /\ TokenChars[service.token] >= MIN_SERVICE_TOKEN_CHARS

(* Mutant of CheckServices: two services may share a token.                *)
CheckServices_Shared(environment) ==
    \A s \in DOMAIN environment.services :
        Range(environment.services[s].namespaces) \subseteq Range(environment.allowed_namespaces)

(* _check_services: the rules between services.                            *)
CheckServices(environment) ==
    LET services == environment.services
    IN  /\ \A s, t \in DOMAIN services : services[s].token = services[t].token => s = t
        /\ \A s \in DOMAIN services :
               Range(services[s].namespaces) \subseteq Range(environment.allowed_namespaces)

(* An unset variable has its default, and every default is accepted.       *)
LoadsSettings(build, environment) ==
    /\ environment.names \subseteq KnownEnvNames
    /\ environment.audience_prefix \in WellFormedPrefixes
    /\ CheckNamespaceNames(build, environment.allowed_namespaces)
    /\ \A s \in DOMAIN environment.services : CheckService(build, environment.services[s])
    /\ CheckServices(environment)
    /\ \A field \in POSITIVE \cap DOMAIN environment.limits : environment.limits[field] > 0
    /\ \A field \in NON_NEGATIVE \cap DOMAIN environment.limits : environment.limits[field] >= 0
=============================================================================
