------------------------------ MODULE Requests ------------------------------
(***************************************************************************)
(* A request on its way through the HTTP layer: the middleware binds an id *)
(* and runs the application in a task with a copy of its context, the      *)
(* dependencies turn one or two tokens into an identity, the handler's     *)
(* checks run in the order the code has them, and what goes wrong becomes  *)
(* a status.  Requests overlap wherever one of them awaits: fetching keys, *)
(* the database, and the way between middleware and application.           *)
(*                                                                         *)
(* What a request reads and stores is in SettingsService; of the tables    *)
(* there is only each account's revision.  An audience is its part before  *)
(* the first dot, head, and the rest, scope.                               *)
(***************************************************************************)
EXTENDS Configuration

CONSTANTS
    Deployments,    \* names -> the build, environment and policy a process is started with
    Accounts,
    Profiles,
    Slots,          \* requests that can be under way at once
    RequestIds,     \* supplied by callers, where they may repeat, or generated
    Calls,          \* what callers send
    MaxRevision     \* bound: writes that change something, per account

VARIABLES
    deployment,   \* the name of what this process was started with
    task,         \* slot -> the request in it and how far it has come
    outer,        \* slot -> context variables in the middleware's task
    inner,        \* slot -> context variables in the application's task
    revision,     \* account -> revision
    record        \* what the last step logged, or None

vars == <<deployment, task, outer, inner, revision, record>>

Deployed == Deployments[deployment]
Services == Deployed.environment.services
Allowed == Range(Deployed.environment.allowed_namespaces)

Statuses == {200, 304, 400, 401, 403, 404, 409, 412, 422, 500, 503}

(* A user token is good, refused by the shared verifier for itself, or not *)
(* a token at all, which is seen before any key is asked for.              *)
UserToken ==
    [account : Accounts, head : WellFormedPrefixes, scope : Names \cup {None},
     state : {"good", "refused", "malformed"}]

(* An If-Match or If-None-Match: strong names an account's revision; a     *)
(* digit is a revision in digits that int() does not take.                 *)
Tag ==
    [form : {"absent", "strong", "weak", "malformed", "digit", "star"},
     account : Accounts, revision : 0..MaxRevision]

Item == [namespace : Names, key : Names, value : Value]

READS == {"get_settings", "get_namespace", "get_setting", "resolve_settings"}
WRITES == {"set_setting", "set_setting_for_user", "update_settings", "reset_setting",
           "reset_namespace"}
INTERNAL == {"resolve_settings", "set_setting_for_user"}

(* get_settings stands for describe, export and the event history too; an  *)
(* import is checked like an update.  The user's token is the bearer token *)
(* of a person's call and a header of its own beside a service's.          *)
Call ==
    [operation : READS \cup WRITES \cup {"forget_settings"},
     token : UserToken \cup {None}, service_token : DOMAIN TokenChars \cup {None},
     namespace : Names, items : Seq(Item), profile : Profiles \cup {None},
     body : {"fine", "not_json", "invalid"}, tag : Tag]

ASSUME RequestsAssumption ==
    /\ Calls \subseteq Call
    /\ \A c \in Calls :
           /\ c.operation \notin INTERNAL => c.service_token = None
           /\ c.operation \in {"get_setting", "set_setting", "set_setting_for_user", "reset_setting"}
                  => Len(c.items) = 1
    /\ MaxRevision \in Nat
    /\ None \notin Accounts \cup RequestIds
    /\ None \notin DOMAIN TokenChars
    /\ None \notin Calls
    /\ \A d \in DOMAIN Deployments :
           /\ None \notin DOMAIN Deployments[d].environment.services
           /\ NamespacesOf(Deployments[d].build) \subseteq Names

Identity == [account : Accounts, namespaces : SUBSET Names, service : {None} \cup DOMAIN Services]

Unbound == [request |-> None, account |-> None, service |-> None]
Idle == [phase |-> "free", request |-> None, call |-> None, grant |-> None,
         identity |-> None, status |-> None]

Quiet == record' = None
Logs(event, r, context) == record' = [event |-> event, slot |-> r, context |-> context]

Answered(r, status) == [task EXCEPT ![r].phase = "answered", ![r].status = status]
Refuse(r, status) == task' = Answered(r, status)
-----------------------------------------------------------------------------
(* The middleware, and the application's task with its copy of the         *)
(* context.  A body that is no JSON is refused before any dependency runs. *)
Arrive(r, call, id) ==
    LET bound == [Unbound EXCEPT !.request = id]
    IN  /\ task[r].phase = "free"
        /\ task' = [task EXCEPT ![r] =
               [Idle EXCEPT !.phase = IF call.body = "not_json" THEN "answered" ELSE "arrived",
                            !.status = IF call.body = "not_json" THEN 422 ELSE None,
                            !.request = id, !.call = call]]
        /\ outer' = [outer EXCEPT ![r] = bound]
        /\ inner' = [inner EXCEPT ![r] = bound]
        /\ Quiet
        /\ UNCHANGED <<deployment, revision>>

(* identify: the services that hold a token.  There is one or none, by     *)
(* CheckServices.                                                          *)
Holders(token) == {s \in DOMAIN Services : Services[s].token = token}

(* Mutant of Authenticate: the person's token is looked at first.          *)
Authenticate_UserFirst(r) ==
    LET call == task[r].call
    IN  /\ task[r].phase = "arrived"
        /\ IF call.token = None \/ (call.operation \in INTERNAL /\ call.service_token = None)
           THEN Refuse(r, 401)
           ELSE \E grant \in IF call.operation \in INTERNAL THEN DOMAIN Services ELSE {None} :
                    task' = [task EXCEPT ![r].phase = "verifying", ![r].grant = grant]
        /\ Quiet
        /\ UNCHANGED <<deployment, outer, inner, revision>>

(* get_identity and get_service_identity up to the user's token.           *)
Authenticate(r) ==
    LET call == task[r].call
    IN  /\ task[r].phase = "arrived"
        /\ IF call.operation \notin INTERNAL
           THEN IF call.token = None THEN Refuse(r, 401)
                ELSE task' = [task EXCEPT ![r].phase = "verifying"]
           ELSE IF Holders(call.service_token) = {} \/ call.token = None
                THEN Refuse(r, 401)
                ELSE \E s \in Holders(call.service_token) :
                         task' = [task EXCEPT ![r].phase = "verifying", ![r].grant = s]
        /\ Quiet
        /\ UNCHANGED <<deployment, outer, inner, revision>>

(* AudienceFamily.accepts and ServiceGrant.accepts_audience.               *)
AcceptsAudience(grant, token) ==
    token.head = IF grant = None THEN Deployed.environment.audience_prefix
                 ELSE Services[grant].audience_prefix

(* granted_namespaces; everything when the audience is the bare prefix.    *)
GrantedNamespaces(token) ==
    IF token.scope = None THEN Allowed ELSE {token.scope, COMMON}

IdentityOf(grant, token) ==
    [account |-> token.account, service |-> grant,
     namespaces |-> IF grant = None THEN GrantedNamespaces(token)
                    ELSE Range(Services[grant].namespaces) \cup {COMMON}]

(* Mutant of Bind: module variables where the context variables are.       *)
Bind_Shared(r, identity) ==
    inner' = [s \in Slots |-> [inner[s] EXCEPT !.account = identity.account,
                                               !.service = identity.service]]

(* set_account_id and set_service, in the task of the one request.         *)
Bind(r, identity) ==
    inner' = [inner EXCEPT ![r].account = identity.account, ![r].service = identity.service]

(* The shared verifier's answer, which may take a fetch of keyring's keys: *)
(* without keys nothing is known of the token.                             *)
KeysUnavailable(r) ==
    /\ task[r].phase = "verifying"
    /\ task[r].call.token.state # "malformed"
    /\ Refuse(r, 503)
    /\ Quiet
    /\ UNCHANGED <<deployment, outer, inner, revision>>

TokenRefused(r) ==
    LET token == task[r].call.token
    IN  /\ task[r].phase = "verifying"
        /\ token.state # "good" \/ ~ AcceptsAudience(task[r].grant, token)
        /\ Refuse(r, 401)
        /\ Quiet
        /\ UNCHANGED <<deployment, outer, inner, revision>>

(* An audience of the family that names no namespace of this deployment.   *)
ScopeRefused(r) ==
    LET token == task[r].call.token
    IN  /\ task[r].phase = "verifying"
        /\ token.state = "good" /\ AcceptsAudience(task[r].grant, token)
        /\ task[r].grant = None /\ token.scope \notin Allowed \cup {None}
        /\ Refuse(r, 401)
        /\ Logs("token_rejected", r, inner[r])
        /\ UNCHANGED <<deployment, outer, inner, revision>>

TokenAccepted(r) ==
    LET token == task[r].call.token
        identity == IdentityOf(task[r].grant, token)
    IN  /\ task[r].phase = "verifying"
        /\ token.state = "good" /\ AcceptsAudience(task[r].grant, token)
        /\ task[r].grant = None => token.scope \in Allowed \cup {None}
        /\ task' = [task EXCEPT ![r].phase = "authorised", ![r].identity = identity]
        /\ Bind(r, identity)
        /\ Quiet
        /\ UNCHANGED <<deployment, outer, revision>>
-----------------------------------------------------------------------------
(* The handlers' checks.  Each is a status when it fails and 200 when it   *)
(* does not; the first that fails is the answer.                           *)

Unless(holds, status) == IF holds THEN 200 ELSE status

Refusals == {400, 403, 404, 409, 412, 422, 500}

FirstOf == [checks \in Seq({200} \cup Refusals) |->
    IF \A i \in DOMAIN checks : checks[i] = 200 THEN 200
    ELSE checks[CHOOSE i \in DOMAIN checks :
             checks[i] # 200 /\ \A j \in DOMAIN checks : checks[j] # 200 => i <= j]]

(* revision_from_if_match.                                                 *)
TagChecks(tag, who) ==
    LET own == tag.account = who.account
    IN  <<Unless(tag.form \in {"absent", "strong", "digit"}, 412),
          Unless(tag.form # "absent" => own, 412),
          Unless(tag.form # "digit", 500)>>

Permit(namespace, who) ==
    <<Unless(namespace \in NamespacesOf(Deployed.build), 404),
      Unless(namespace \in who.namespaces, 403)>>

Entries(item) ==
    {e \in LiveEntriesIn(Deployed.build, item.namespace) : e.key = item.key}

Definition(item, who, missing) ==
    Permit(item.namespace, who) \o <<Unless(Entries(item) # {}, missing)>>

CheckWritable(item, who) ==
    <<Unless(\A e \in Entries(item) : ~ IsPinned(Deployed.policy, e), 409),
      Unless(\A e \in Entries(item) : ~ (e.owner_writable_only /\ who.service # None), 403)>>

StorageProfile(item, profile) ==
    <<Unless(\A e \in Entries(item) : e.scope = "profile" => profile # None, 422)>>

ChangeFor(item, who, profile) ==
    CheckWritable(item, who)
    \o <<Unless(\A e \in Entries(item) :
                    ValidateWrite(DefinitionOf(Deployed.policy, e), item.value), 422)>>
    \o StorageProfile(item, profile)

(* _changes_for: the whole document is addressed before any of it is       *)
(* checked, and every unknown key is one 400.                              *)
ChangesFor(items, who, profile) ==
    <<FirstOf[[i \in DOMAIN items |-> FirstOf[Permit(items[i].namespace, who)]]],
      FirstOf[[i \in DOMAIN items |-> Unless(Entries(items[i]) # {}, 400)]],
      FirstOf[[i \in DOMAIN items |-> FirstOf[StorageProfile(items[i], profile)]]],
      FirstOf[[i \in DOMAIN items |-> FirstOf[ChangeFor(items[i], who, profile)]]]>>

Checks(call, who) ==
    LET op == call.operation
    IN  <<Unless(call.body # "invalid", 422)>>
        \o (IF op \in WRITES \ INTERNAL THEN TagChecks(call.tag, who) ELSE <<>>)
        \o (CASE op \in {"get_settings", "forget_settings"} -> <<>>
             [] op \in {"get_namespace", "resolve_settings", "reset_namespace"} ->
                    Permit(call.namespace, who)
             [] op = "get_setting" -> Definition(call.items[1], who, 404)
             [] op = "reset_setting" ->
                    Definition(call.items[1], who, 404) \o CheckWritable(call.items[1], who)
                    \o StorageProfile(call.items[1], call.profile)
             [] op \in {"set_setting", "set_setting_for_user"} ->
                    Definition(call.items[1], who, 404) \o ChangeFor(call.items[1], who, call.profile)
             [] op = "update_settings" -> ChangesFor(call.items, who, call.profile))
-----------------------------------------------------------------------------
Verdict(r) == FirstOf[Checks(task[r].call, task[r].identity)]

(* The handler up to the store: what it refuses it refuses here.           *)
HandlerRefuses(r) ==
    /\ task[r].phase = "authorised"
    /\ Verdict(r) # 200
    /\ Refuse(r, Verdict(r))
    /\ IF Verdict(r) = 500 THEN Logs("unhandled_exception", r, outer[r]) ELSE Quiet
    /\ UNCHANGED <<deployment, outer, inner, revision>>

(* The database fails: an unexpected exception, answered in the            *)
(* middleware, outside the application's task.                             *)
StoreFails(r) ==
    /\ task[r].phase = "authorised"
    /\ Verdict(r) = 200
    /\ Refuse(r, 500)
    /\ Logs("unhandled_exception", r, outer[r])
    /\ UNCHANGED <<deployment, outer, inner, revision>>

(* _matches: star is anything, and a tag is compared as it is written.     *)
Matches(tag, account) ==
    \/ tag.form = "star"
    \/ tag.form = "strong" /\ tag.account = account /\ tag.revision = revision[account]

Read(r) ==
    LET call == task[r].call
    IN  /\ task[r].phase = "authorised"
        /\ Verdict(r) = 200
        /\ call.operation \in READS
        /\ Refuse(r, IF call.operation = "resolve_settings"
                        /\ Matches(call.tag, task[r].identity.account) THEN 304 ELSE 200)
        /\ Quiet
        /\ UNCHANGED <<deployment, outer, inner, revision>>

Expected(call) ==
    IF call.operation \in WRITES \ INTERNAL /\ call.tag.form = "strong"
    THEN call.tag.revision ELSE None

StoresProfile(call) ==
    /\ call.operation \notin {"reset_setting", "reset_namespace"}
    /\ \E i \in DOMAIN call.items : \E e \in Entries(call.items[i]) : e.scope = "profile"

(* The transaction refuses the revision, or one profile too many.          *)
StoreRefuses(r) ==
    LET account == task[r].identity.account
        expected == Expected(task[r].call)
        moved == expected # None /\ expected # revision[account]
    IN  /\ task[r].phase = "authorised"
        /\ Verdict(r) = 200
        /\ task[r].call.operation \in WRITES
        /\ \/ moved /\ Refuse(r, 412)
           \/ ~ moved /\ StoresProfile(task[r].call) /\ Refuse(r, 422)
        /\ Quiet
        /\ UNCHANGED <<deployment, outer, inner, revision>>

(* Mutant of Write: the expected revision is compared before the           *)
(* transaction, and the transaction does not look again.                   *)
Write_Unconditional(r) ==
    LET account == task[r].identity.account
    IN  /\ task[r].phase = "authorised"
        /\ Verdict(r) = 200
        /\ task[r].call.operation \in WRITES
        /\ \/ revision' = revision
           \/ revision[account] < MaxRevision /\ revision' = [revision EXCEPT ![account] = @ + 1]
        /\ Refuse(r, 200)
        /\ Logs("settings_applied", r, inner[r])
        /\ UNCHANGED <<deployment, outer, inner>>

(* One transaction: something changes, or everything was as it is.         *)
Write(r) ==
    LET account == task[r].identity.account
    IN  /\ task[r].phase = "authorised"
        /\ Verdict(r) = 200
        /\ task[r].call.operation \in WRITES
        /\ Expected(task[r].call) \in {None, revision[account]}
        /\ \/ revision' = revision
           \/ revision[account] < MaxRevision /\ revision' = [revision EXCEPT ![account] = @ + 1]
        /\ Refuse(r, 200)
        /\ Logs("settings_applied", r, inner[r])
        /\ UNCHANGED <<deployment, outer, inner>>

Forget(r) ==
    /\ task[r].phase = "authorised"
    /\ Verdict(r) = 200
    /\ task[r].call.operation = "forget_settings"
    /\ revision' = [revision EXCEPT ![task[r].identity.account] = 0]
    /\ Refuse(r, 200)
    /\ Logs("erasure_completed", r, inner[r])
    /\ UNCHANGED <<deployment, outer, inner>>

(* The response is back in the middleware.                                 *)
Complete(r) ==
    /\ task[r].phase = "answered"
    /\ task' = [task EXCEPT ![r].phase = "completed"]
    /\ Logs("request_completed", r, outer[r])
    /\ UNCHANGED <<deployment, outer, inner, revision>>

(* Mutant of Leave: the binding of the request id is not undone.           *)
Leave_Bound(r) ==
    /\ task[r].phase = "completed"
    /\ task' = [task EXCEPT ![r] = Idle]
    /\ inner' = [inner EXCEPT ![r] = Unbound]
    /\ Quiet
    /\ UNCHANGED <<deployment, outer, revision>>

(* The binding is undone, and the application's task ended with its own.   *)
Leave(r) ==
    /\ task[r].phase = "completed"
    /\ task' = [task EXCEPT ![r] = Idle]
    /\ outer' = [outer EXCEPT ![r] = Unbound]
    /\ inner' = [inner EXCEPT ![r] = Unbound]
    /\ Quiet
    /\ UNCHANGED <<deployment, revision>>
-----------------------------------------------------------------------------
(* What a process serves has been accepted whole: see Startup.             *)
Starts(d) ==
    /\ Assembles(d.build)
    /\ LoadsSettings(d.build, d.environment)
    /\ Loads(d.build, d.policy)

Init ==
    /\ deployment \in {d \in DOMAIN Deployments : Starts(Deployments[d])}
    /\ task = [r \in Slots |-> Idle]
    /\ outer = [r \in Slots |-> Unbound]
    /\ inner = [r \in Slots |-> Unbound]
    /\ revision = [a \in Accounts |-> 0]
    /\ record = None

Step(r) ==
    \/ \E call \in Calls, id \in RequestIds : Arrive(r, call, id)
    \/ Authenticate(r)
    \/ KeysUnavailable(r)
    \/ TokenRefused(r)
    \/ ScopeRefused(r)
    \/ TokenAccepted(r)
    \/ HandlerRefuses(r)
    \/ StoreFails(r)
    \/ Read(r)
    \/ StoreRefuses(r)
    \/ Write(r)
    \/ Forget(r)
    \/ Complete(r)
    \/ Leave(r)

Next == \E r \in Slots : Step(r)

Spec == Init /\ [][Next]_vars
-----------------------------------------------------------------------------
Context ==
    [request : RequestIds \cup {None}, account : Accounts \cup {None},
     service : DOMAIN Services \cup {None}]

Task ==
    [phase : {"free", "arrived", "verifying", "authorised", "answered", "completed"},
     request : RequestIds \cup {None}, call : Calls \cup {None},
     grant : DOMAIN Services \cup {None}, identity : Identity \cup {None},
     status : Statuses \cup {None}]

Events == {"token_rejected", "unhandled_exception", "settings_applied", "erasure_completed",
           "request_completed"}

(* Everything is of its kind, a request has an identity from when it is    *)
(* authorised and a status from when it is answered, and nothing of it is  *)
(* left in the context once it is gone.                                    *)
RequestsTypeOK ==
    /\ deployment \in DOMAIN Deployments
    /\ task \in [Slots -> Task]
    /\ outer \in [Slots -> Context] /\ inner \in [Slots -> Context]
    /\ revision \in [Accounts -> 0..MaxRevision]
    /\ record \in {None} \cup [event : Events, slot : Slots, context : Context]
    /\ \A r \in Slots :
           /\ task[r].phase = "free" <=> task[r].call = None
           /\ task[r].phase = "authorised" => task[r].identity \in Identity
           /\ task[r].phase \in {"answered", "completed"} <=> task[r].status # None
           /\ task[r].phase = "free" => outer[r] = Unbound /\ inner[r] = Unbound

(* Who a call may be for: the account of a token good for this surface.    *)
Admissible(call) ==
    LET token == call.token
    IN  /\ token # None
        /\ token.state = "good"
        /\ IF call.operation \in INTERNAL
           THEN \E s \in DOMAIN Services :
                    Services[s].token = call.service_token /\ Services[s].audience_prefix = token.head
           ELSE /\ token.head = Deployed.environment.audience_prefix
                /\ token.scope \in Allowed \cup {None}

(* What a call may touch, by every service that holds its token.           *)
MayTouch(call, namespace) ==
    LET token == call.token
    IN  IF call.operation \in INTERNAL
        THEN \A s \in Holders(call.service_token) :
                 /\ token.head = Services[s].audience_prefix
                 /\ namespace \in Range(Services[s].namespaces) \cup {COMMON}
        ELSE namespace \in IF token.scope = None THEN Allowed ELSE {token.scope, COMMON}

Touches(call) ==
    CASE call.operation \in {"get_settings", "forget_settings"} -> {}
      [] call.operation \in {"get_namespace", "resolve_settings", "reset_namespace"} ->
             {call.namespace}
      [] OTHER -> {call.items[i].namespace : i \in DOMAIN call.items}

Served(r) == task'[r].status \in {200, 304} /\ task[r].status = None

(* A request is served only if its own tokens are good for this surface    *)
(* and for every namespace it touches, and a revision moves only by a      *)
(* served write for that token's account, whose If-Match, if it had one,   *)
(* named the account and the revision it found, whatever overlaps          *)
(* (get_service_identity, _permit, apply).                                 *)
OnlyTheEntitledAreServed ==
    [][/\ \A r \in Slots : Served(r) =>
              /\ Admissible(task[r].call)
              /\ \A n \in Touches(task[r].call) : MayTouch(task[r].call, n)
       /\ \A a \in Accounts : revision'[a] # revision[a] =>
              \E r \in Slots :
                  LET call == task[r].call
                  IN  /\ Served(r) /\ call.token.account = a
                      /\ \/ call.operation = "forget_settings"
                         \/ call.operation \in INTERNAL
                         \/ call.tag.form = "absent"
                         \/ call.tag.account = a /\ call.tag.revision = revision[a]]_vars

(* A refusal says whose fault it is: 401 is about the tokens alone, tokens *)
(* that are not good never get further, and 503 is said only of a token    *)
(* that needed keys, presented by the person or by a service this          *)
(* deployment knows (the order in get_service_identity).                   *)
RefusalsTellWhose ==
    \A r \in Slots : task[r].phase \in {"answered", "completed"} =>
        LET call == task[r].call
            status == task[r].status
        IN  /\ status = 401 => ~ Admissible(call)
            /\ ~ Admissible(call) =>
                   \/ status \in {401, 503}
                   \/ status = 422 /\ call.body = "not_json"
            /\ status = 503 =>
                   /\ call.token # None /\ call.token.state # "malformed"
                   /\ call.operation \in INTERNAL => Holders(call.service_token) # {}

(* No record is laid at another's door: it carries the id of the request   *)
(* that wrote it and names, if any, the account and the service of its own *)
(* tokens, while others' tasks bind theirs; and what tells of a change     *)
(* names both (set_account_id, set_service and the processors of           *)
(* logging.py).  Which records name nobody: ServiceRecordsNameTheService.  *)
RecordsNameTheirOwnRequest ==
    record # None =>
        LET mine == task[record.slot]
            named == record.context
        IN  /\ named.request = mine.request
            /\ named.account # None => named.account = mine.call.token.account
            /\ named.service # None =>
                   mine.call.operation \in INTERNAL /\ named.service \in Holders(mine.call.service_token)
            /\ record.event \in {"settings_applied", "erasure_completed"} =>
                   /\ named.account # None
                   /\ mine.call.operation \in INTERNAL => named.service # None
-----------------------------------------------------------------------------
(* What the documentation says and the code does not do.                   *)

(* core/context.py: "Every log record from a service-facing request then   *)
(* says which service made it", from when the request is authenticated.    *)
ServiceRecordsNameTheService ==
    record # None =>
        LET mine == task[record.slot]
        IN  (mine.call.operation \in INTERNAL /\ mine.identity # None)
                => record.context.service = mine.identity.service
=============================================================================
