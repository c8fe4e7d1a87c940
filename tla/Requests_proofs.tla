--------------------------- MODULE Requests_proofs ---------------------------
(***************************************************************************)
(* Only the entitled are served, refusals tell whose fault they are and    *)
(* records name their own request: for any number of requests under way,   *)
(* any deployment that starts and anything that callers send.              *)
(*                                                                         *)
(* The invariant follows one slot: what of its tokens has been looked at   *)
(* at each phase, and what each of its two tasks has in its context.  The  *)
(* handlers' checks come in as sequences of statuses: when the first that  *)
(* is not 200 does not exist, every one of them is 200, and the one that   *)
(* asks about a namespace is among them.                                   *)
(***************************************************************************)
EXTENDS Requests, WellFoundedInduction, TLAPS

Judged == {200} \cup Refusals
Passes(checks) == \A i \in DOMAIN checks : checks[i] = 200

LEMMA LeastNat ==
    ASSUME NEW S \in SUBSET Nat, S # {}
    PROVE  \E x \in S : \A y \in S : x <= y
<1> DEFINE R == OpToRel(<, Nat)
<1>1. IsWellFoundedOn(R, Nat)
  BY NatLessThanWellFounded
<1>2. \A x, y \in Nat : <<y, x>> \in R <=> y < x
  BY DEF OpToRel
<1> HIDE DEF R
<1>3. PICK x \in S : \A y \in S : ~ (<<y, x>> \in R)
  BY <1>1, WFMin
<1>4. ASSUME NEW y \in S
      PROVE  x <= y
  <2>1. x \in Nat /\ y \in Nat
    OBVIOUS
  <2>2. ~ (y < x)
    BY <1>2, <1>3, <2>1
  <2> QED
    BY <2>1, <2>2
<1> QED
  BY <1>4

LEMMA FirstOfJudges ==
    ASSUME NEW checks \in Seq(Judged)
    PROVE  /\ FirstOf[checks] \in Judged
           /\ FirstOf[checks] = 200 => Passes(checks)
<1> DEFINE failing == {i \in DOMAIN checks : checks[i] # 200}
<1>1. FirstOf[checks] =
          IF \A i \in DOMAIN checks : checks[i] = 200 THEN 200
          ELSE checks[CHOOSE i \in DOMAIN checks :
                   checks[i] # 200 /\ \A j \in DOMAIN checks : checks[j] # 200 => i <= j]
  BY DEF FirstOf, Judged
<1>2. CASE Passes(checks)
  BY <1>1, <1>2 DEF Passes, Judged
<1>3. CASE ~ Passes(checks)
  <2>1. failing \in SUBSET Nat /\ failing # {}
    BY <1>3 DEF Passes
  <2>2. \E i \in DOMAIN checks :
            checks[i] # 200 /\ \A j \in DOMAIN checks : checks[j] # 200 => i <= j
    <3>1. PICK i \in failing : \A j \in failing : i <= j
      BY <2>1, LeastNat
    <3> QED
      BY <3>1
  <2>3. PICK i \in DOMAIN checks : checks[i] # 200 /\ FirstOf[checks] = checks[i]
    BY <1>1, <1>3, <2>2 DEF Passes
  <2> QED
    BY <2>3
<1> QED
  BY <1>2, <1>3

LEMMA Chained ==
    ASSUME NEW s \in Seq(Judged), NEW t \in Seq(Judged)
    PROVE  /\ s \o t \in Seq(Judged)
           /\ Passes(s \o t) => Passes(s) /\ Passes(t)
<1>1. s \o t \in Seq(Judged) /\ Len(s \o t) = Len(s) + Len(t)
  OBVIOUS
<1>2. \A i \in 1..Len(s) : (s \o t)[i] = s[i] /\ i \in DOMAIN (s \o t)
  OBVIOUS
<1>3. \A i \in 1..Len(t) : (s \o t)[Len(s) + i] = t[i] /\ Len(s) + i \in DOMAIN (s \o t)
  OBVIOUS
<1>4. ASSUME Passes(s \o t), NEW i \in DOMAIN s
      PROVE  s[i] = 200
  BY <1>2, <1>4 DEF Passes
<1>5. ASSUME Passes(s \o t), NEW i \in DOMAIN t
      PROVE  t[i] = 200
  BY <1>3, <1>5 DEF Passes
<1> QED
  BY <1>1, <1>4, <1>5 DEF Passes

LEMMA PermitPasses ==
    ASSUME NEW namespace, NEW who
    PROVE  /\ Permit(namespace, who) \in Seq(Judged)
           /\ Passes(Permit(namespace, who)) => namespace \in who.namespaces
<1>1. Unless(namespace \in NamespacesOf(Deployed.build), 404) \in Judged
  BY DEF Unless, Judged, Refusals
<1>2. Unless(namespace \in who.namespaces, 403) \in Judged
  BY DEF Unless, Judged, Refusals
<1>3. Permit(namespace, who) \in Seq(Judged)
  BY <1>1, <1>2 DEF Permit
<1>4. Passes(Permit(namespace, who)) => Permit(namespace, who)[2] = 200
  BY DEF Passes, Permit
<1>5. Permit(namespace, who)[2] = 200 => namespace \in who.namespaces
  BY DEF Permit, Unless
<1> QED
  BY <1>3, <1>4, <1>5

LEMMA TagPasses ==
    ASSUME NEW tag, NEW who
    PROVE  /\ TagChecks(tag, who) \in Seq(Judged)
           /\ Passes(TagChecks(tag, who)) =>
                  tag.form = "absent" \/ (tag.form = "strong" /\ tag.account = who.account)
<1> DEFINE a == Unless(tag.form \in {"absent", "strong", "digit"}, 412)
           b == Unless(tag.form # "absent" => tag.account = who.account, 412)
           c == Unless(tag.form # "digit", 500)
<1>1. a \in Judged /\ b \in Judged /\ c \in Judged
  BY DEF Unless, Judged, Refusals
<1>2. TagChecks(tag, who) = <<a, b, c>>
  BY DEF TagChecks
<1>3. /\ a = 200 => tag.form \in {"absent", "strong", "digit"}
      /\ b = 200 => tag.form = "absent" \/ tag.account = who.account
      /\ c = 200 => tag.form # "digit"
  BY DEF Unless
<1> HIDE DEF a, b, c
<1>4. Passes(<<a, b, c>>) => a = 200 /\ b = 200 /\ c = 200
  BY DEF Passes
<1> QED
  BY <1>1, <1>2, <1>3, <1>4
-----------------------------------------------------------------------------
(* The sequences of each handler, and what passing them says of the        *)
(* namespaces a call touches.                                              *)

LEMMA ItemChecksJudged ==
    ASSUME NEW item, NEW who, NEW profile
    PROVE  /\ CheckWritable(item, who) \in Seq(Judged)
           /\ StorageProfile(item, profile) \in Seq(Judged)
           /\ ChangeFor(item, who, profile) \in Seq(Judged)
<1> DEFINE pinned == Unless(\A e \in Entries(item) : ~ IsPinned(Deployed.policy, e), 409)
           owned == Unless(\A e \in Entries(item) :
                               ~ (e.owner_writable_only /\ who.service # None), 403)
           placed == Unless(\A e \in Entries(item) : e.scope = "profile" => profile # None, 422)
           valid == Unless(\A e \in Entries(item) :
                               ValidateWrite(DefinitionOf(Deployed.policy, e), item.value), 422)
<1>1. pinned \in Judged /\ owned \in Judged
  BY DEF Unless, Judged, Refusals
<1>2. placed \in Judged
  BY DEF Unless, Judged, Refusals
<1>3. valid \in Judged
  BY DEF Unless, Judged, Refusals
<1>4. /\ CheckWritable(item, who) = <<pinned, owned>>
      /\ StorageProfile(item, profile) = <<placed>>
  BY DEF CheckWritable, StorageProfile
<1>5. ChangeFor(item, who, profile) =
          (CheckWritable(item, who) \o <<valid>>) \o StorageProfile(item, profile)
  BY DEF ChangeFor
<1> HIDE DEF pinned, owned, placed, valid
<1>6. CheckWritable(item, who) \in Seq(Judged) /\ StorageProfile(item, profile) \in Seq(Judged)
  BY <1>1, <1>2, <1>4
<1>7. <<valid>> \in Seq(Judged)
  BY <1>3
<1>8. CheckWritable(item, who) \o <<valid>> \in Seq(Judged)
  BY <1>6, <1>7, Chained
<1> QED
  BY <1>5, <1>6, <1>8, Chained

LEMMA DefinitionPasses ==
    ASSUME NEW item, NEW who
    PROVE  /\ Definition(item, who, 404) \in Seq(Judged)
           /\ Passes(Definition(item, who, 404)) => item.namespace \in who.namespaces
<1> DEFINE found == Unless(Entries(item) # {}, 404)
           allowed == Permit(item.namespace, who)
<1>1. found \in Judged
  BY DEF Unless, Judged, Refusals
<1>2. Definition(item, who, 404) = allowed \o <<found>>
  BY DEF Definition
<1>3. allowed \in Seq(Judged) /\ (Passes(allowed) => item.namespace \in who.namespaces)
  BY PermitPasses
<1> HIDE DEF found, allowed
<1>4. <<found>> \in Seq(Judged)
  BY <1>1
<1> QED
  BY <1>2, <1>3, <1>4, Chained

LEMMA ChangesPass ==
    ASSUME NEW items \in Seq(Item), NEW who, NEW profile
    PROVE  /\ ChangesFor(items, who, profile) \in Seq(Judged)
           /\ Passes(ChangesFor(items, who, profile)) =>
                  \A i \in DOMAIN items : items[i].namespace \in who.namespaces
<1> DEFINE permits == [i \in DOMAIN items |-> FirstOf[Permit(items[i].namespace, who)]]
           known == [i \in DOMAIN items |-> Unless(Entries(items[i]) # {}, 400)]
           stored == [i \in DOMAIN items |-> FirstOf[StorageProfile(items[i], profile)]]
           changes == [i \in DOMAIN items |-> FirstOf[ChangeFor(items[i], who, profile)]]
<1>1. permits \in Seq(Judged) /\ DOMAIN permits = DOMAIN items
  <2>1. \A i \in DOMAIN items : FirstOf[Permit(items[i].namespace, who)] \in Judged
    BY PermitPasses, FirstOfJudges
  <2> QED
    BY <2>1
<1>2. known \in Seq(Judged)
  <2>1. \A i \in DOMAIN items : Unless(Entries(items[i]) # {}, 400) \in Judged
    BY DEF Unless, Judged, Refusals
  <2> QED
    BY <2>1
<1>3. stored \in Seq(Judged)
  <2>1. \A i \in DOMAIN items : FirstOf[StorageProfile(items[i], profile)] \in Judged
    BY ItemChecksJudged, FirstOfJudges
  <2> QED
    BY <2>1
<1>4. changes \in Seq(Judged)
  <2>1. \A i \in DOMAIN items : FirstOf[ChangeFor(items[i], who, profile)] \in Judged
    BY ItemChecksJudged, FirstOfJudges
  <2> QED
    BY <2>1
<1>5. \A i \in DOMAIN items : permits[i] = 200 => items[i].namespace \in who.namespaces
  BY PermitPasses, FirstOfJudges
<1>6. ChangesFor(items, who, profile) =
          <<FirstOf[permits], FirstOf[known], FirstOf[stored], FirstOf[changes]>>
  BY DEF ChangesFor
<1> HIDE DEF permits, known, stored, changes
<1>7. ChangesFor(items, who, profile) \in Seq(Judged)
  <2>1. /\ FirstOf[permits] \in Judged /\ FirstOf[known] \in Judged
        /\ FirstOf[stored] \in Judged /\ FirstOf[changes] \in Judged
    BY <1>1, <1>2, <1>3, <1>4, FirstOfJudges
  <2> QED
    BY <1>6, <2>1
<1>8. Passes(ChangesFor(items, who, profile)) => FirstOf[permits] = 200
  BY <1>6 DEF Passes
<1>9. FirstOf[permits] = 200 => Passes(permits)
  BY <1>1, FirstOfJudges
<1> QED
  BY <1>1, <1>5, <1>7, <1>8, <1>9 DEF Passes

OperationChecks(call, who) ==
    LET op == call.operation
    IN  CASE op \in {"get_settings", "forget_settings"} -> <<>>
          [] op \in {"get_namespace", "resolve_settings", "reset_namespace"} ->
                 Permit(call.namespace, who)
          [] op = "get_setting" -> Definition(call.items[1], who, 404)
          [] op = "reset_setting" ->
                 Definition(call.items[1], who, 404) \o CheckWritable(call.items[1], who)
                 \o StorageProfile(call.items[1], call.profile)
          [] op \in {"set_setting", "set_setting_for_user"} ->
                 Definition(call.items[1], who, 404) \o ChangeFor(call.items[1], who, call.profile)
          [] op = "update_settings" -> ChangesFor(call.items, who, call.profile)

LEMMA OperationPasses ==
    ASSUME NEW call \in Calls, NEW who
    PROVE  /\ OperationChecks(call, who) \in Seq(Judged)
           /\ Passes(OperationChecks(call, who)) =>
                  \A n \in Touches(call) : n \in who.namespaces
<1> DEFINE op == call.operation
<1>1. call \in Call /\ call.items \in Seq(Item)
      /\ op \in READS \cup WRITES \cup {"forget_settings"}
  BY RequestsAssumption DEF Call
<1>2. CASE op \in {"get_settings", "forget_settings"}
  BY <1>2 DEF OperationChecks, Touches
<1>3. CASE op \in {"get_namespace", "resolve_settings", "reset_namespace"}
  <2>1. OperationChecks(call, who) = Permit(call.namespace, who) /\ Touches(call) = {call.namespace}
    BY <1>3 DEF OperationChecks, Touches
  <2> QED
    BY <2>1, PermitPasses
<1>4. CASE op \in {"get_setting", "reset_setting", "set_setting", "set_setting_for_user"}
  <2>1. Len(call.items) = 1
    BY <1>4, RequestsAssumption
  <2>2. Touches(call) = {call.items[1].namespace}
    BY <1>1, <1>4, <2>1 DEF Touches
  <2>3. CASE op = "get_setting"
    <3>1. OperationChecks(call, who) = Definition(call.items[1], who, 404)
      BY <2>3 DEF OperationChecks
    <3> QED
      BY <2>2, <3>1, DefinitionPasses
  <2>4. CASE op = "reset_setting"
    <3> DEFINE rest == CheckWritable(call.items[1], who)
                       \o StorageProfile(call.items[1], call.profile)
    <3>1. rest \in Seq(Judged)
      BY ItemChecksJudged, Chained
    <3>2. OperationChecks(call, who) = Definition(call.items[1], who, 404) \o rest
      <4>1. /\ CheckWritable(call.items[1], who) \in Seq(Judged)
            /\ StorageProfile(call.items[1], call.profile) \in Seq(Judged)
            /\ Definition(call.items[1], who, 404) \in Seq(Judged)
        BY ItemChecksJudged, DefinitionPasses
      <4>2. OperationChecks(call, who) =
                (Definition(call.items[1], who, 404) \o CheckWritable(call.items[1], who))
                \o StorageProfile(call.items[1], call.profile)
        BY <2>4 DEF OperationChecks
      <4> QED
        BY <4>1, <4>2
    <3> HIDE DEF rest
    <3> QED
      BY <2>2, <3>1, <3>2, DefinitionPasses, Chained
  <2>5. CASE op \in {"set_setting", "set_setting_for_user"}
    <3>1. OperationChecks(call, who) =
              Definition(call.items[1], who, 404) \o ChangeFor(call.items[1], who, call.profile)
      BY <2>5 DEF OperationChecks
    <3> QED
      BY <2>2, <3>1, DefinitionPasses, ItemChecksJudged, Chained
  <2> QED
    BY <1>4, <2>3, <2>4, <2>5
<1>5. CASE op = "update_settings"
  <2>1. /\ OperationChecks(call, who) = ChangesFor(call.items, who, call.profile)
        /\ Touches(call) = {call.items[i].namespace : i \in DOMAIN call.items}
    BY <1>5 DEF OperationChecks, Touches
  <2> QED
    BY <1>1, <2>1, ChangesPass
<1> QED
  BY <1>1, <1>2, <1>3, <1>4, <1>5 DEF READS, WRITES

LEMMA ChecksPass ==
    ASSUME NEW call \in Calls, NEW who
    PROVE  /\ Checks(call, who) \in Seq(Judged)
           /\ Passes(Checks(call, who)) =>
                  /\ \A n \in Touches(call) : n \in who.namespaces
                  /\ call.operation \in WRITES \ INTERNAL =>
                         \/ call.tag.form = "absent"
                         \/ call.tag.form = "strong" /\ call.tag.account = who.account
<1> DEFINE body == <<Unless(call.body # "invalid", 422)>>
           tags == IF call.operation \in WRITES \ INTERNAL THEN TagChecks(call.tag, who) ELSE <<>>
<1>1. body \in Seq(Judged)
  <2>1. Unless(call.body # "invalid", 422) \in Judged
    BY DEF Unless, Judged, Refusals
  <2> QED
    BY <2>1
<1>2. /\ tags \in Seq(Judged)
      /\ Passes(tags) => (call.operation \in WRITES \ INTERNAL =>
                              \/ call.tag.form = "absent"
                              \/ call.tag.form = "strong" /\ call.tag.account = who.account)
  BY TagPasses
<1>3. Checks(call, who) = (body \o tags) \o OperationChecks(call, who)
  BY DEF Checks, OperationChecks
<1> HIDE DEF body, tags
<1>4. body \o tags \in Seq(Judged) /\ (Passes(body \o tags) => Passes(tags))
  BY <1>1, <1>2, Chained
<1>5. /\ Checks(call, who) \in Seq(Judged)
      /\ Passes(Checks(call, who)) => Passes(tags) /\ Passes(OperationChecks(call, who))
  BY <1>3, <1>4, OperationPasses, Chained
<1> QED
  BY <1>2, <1>5, OperationPasses

LEMMA VerdictPasses ==
    ASSUME NEW r \in Slots, task[r].call \in Calls
    PROVE  LET call == task[r].call
               who == task[r].identity
           IN  /\ Verdict(r) \in Judged
               /\ Verdict(r) = 200 =>
                      /\ \A n \in Touches(call) : n \in who.namespaces
                      /\ call.operation \in WRITES \ INTERNAL =>
                             \/ call.tag.form = "absent"
                             \/ call.tag.form = "strong" /\ call.tag.account = who.account
<1> DEFINE checks == Checks(task[r].call, task[r].identity)
<1>1. Verdict(r) = FirstOf[checks]
  BY DEF Verdict
<1>2. checks \in Seq(Judged)
  BY ChecksPass
<1>3. FirstOf[checks] \in Judged /\ (FirstOf[checks] = 200 => Passes(checks))
  BY <1>2, FirstOfJudges
<1>4. Passes(checks) =>
          /\ \A n \in Touches(task[r].call) : n \in task[r].identity.namespaces
          /\ task[r].call.operation \in WRITES \ INTERNAL =>
                 \/ task[r].call.tag.form = "absent"
                 \/ /\ task[r].call.tag.form = "strong"
                    /\ task[r].call.tag.account = task[r].identity.account
  BY ChecksPass
<1> HIDE DEF checks
<1> QED
  BY <1>1, <1>3, <1>4
-----------------------------------------------------------------------------
(* What is known of a request at each phase.                               *)

Grantee(call, grant) ==
    IF call.operation \in INTERNAL THEN grant \in Holders(call.service_token) ELSE grant = None

Accepted(call, grant) ==
    /\ call.token.state = "good" /\ AcceptsAudience(grant, call.token)
    /\ grant = None => call.token.scope \in Allowed \cup {None}

FaultNamed(call, status) ==
    /\ status = 401 => ~ Admissible(call)
    /\ ~ Admissible(call) =>
           \/ status \in {401, 503}
           \/ status = 422 /\ call.body = "not_json"
    /\ status = 503 =>
           /\ call.token # None /\ call.token.state # "malformed"
           /\ call.operation \in INTERNAL => Holders(call.service_token) # {}

NamesItsOwn(call, context) ==
    /\ context.account # None => context.account = call.token.account
    /\ context.service # None =>
           call.operation \in INTERNAL /\ context.service \in Holders(call.service_token)

Sound(t, out, in) ==
    /\ t.phase = "free" => t.call = None /\ out = Unbound /\ in = Unbound
    /\ t.phase # "free" =>
           /\ t.call \in Calls
           /\ out = [Unbound EXCEPT !.request = t.request]
           /\ in.request = t.request
           /\ NamesItsOwn(t.call, in)
    /\ t.phase \in {"answered", "completed"} <=> t.status # None
    /\ t.phase = "arrived" => t.grant = None
    /\ t.phase \in {"verifying", "authorised"} =>
           t.call.token # None /\ Grantee(t.call, t.grant)
    /\ t.phase = "authorised" =>
           /\ Accepted(t.call, t.grant)
           /\ t.identity = IdentityOf(t.grant, t.call.token) /\ t.identity \in Identity
           /\ in.account = t.call.token.account /\ in.service = t.grant
    /\ t.phase \in {"answered", "completed"} => FaultNamed(t.call, t.status)

Record == {None} \cup [event : Events, slot : Slots, context : Context]

RequestsInv ==
    /\ deployment \in DOMAIN Deployments
    /\ Starts(Deployed)
    /\ task \in [Slots -> Task]
    /\ outer \in [Slots -> Context] /\ inner \in [Slots -> Context]
    /\ revision \in [Accounts -> 0..MaxRevision]
    /\ record \in Record
    /\ \A r \in Slots : Sound(task[r], outer[r], inner[r])

(* CheckServices: one service at most holds a token.                       *)
LEMMA OneHolder ==
    ASSUME RequestsInv, NEW token, NEW s \in Holders(token), NEW t \in Holders(token)
    PROVE  s = t
BY DEF RequestsInv, Starts, LoadsSettings, CheckServices, Holders, Services

LEMMA HoldersAreServices ==
    ASSUME RequestsInv, NEW token
    PROVE  /\ Holders(token) \subseteq DOMAIN Services
           /\ None \notin DOMAIN Services
BY RequestsAssumption DEF RequestsInv, Holders, Services, Deployed

LEMMA GranteesDiffer ==
    ASSUME RequestsInv, NEW call, NEW grant, Grantee(call, grant)
    PROVE  grant = None <=> call.operation \notin INTERNAL
BY HoldersAreServices DEF Grantee

(* What the last two checks of a token say of it.                          *)
LEMMA AcceptedIsAdmissible ==
    ASSUME RequestsInv, NEW call \in Calls, NEW grant, call.token # None, Grantee(call, grant)
    PROVE  Accepted(call, grant) <=> Admissible(call)
<1>1. CASE call.operation \in INTERNAL
  <2>1. grant \in Holders(call.service_token) /\ grant # None
    BY <1>1, GranteesDiffer DEF Grantee
  <2>2. \A s \in Holders(call.service_token) : s = grant
    BY <2>1, OneHolder
  <2>3. Accepted(call, grant) <=>
            call.token.state = "good" /\ call.token.head = Services[grant].audience_prefix
    BY <2>1 DEF Accepted, AcceptsAudience
  <2>4. Admissible(call) <=>
            /\ call.token.state = "good"
            /\ \E s \in DOMAIN Services :
                   Services[s].token = call.service_token /\ Services[s].audience_prefix = call.token.head
    BY <1>1 DEF Admissible
  <2> QED
    BY <2>1, <2>2, <2>3, <2>4 DEF Holders
<1>2. CASE call.operation \notin INTERNAL
  <2>1. grant = None
    BY <1>2 DEF Grantee
  <2> QED
    BY <1>2, <2>1 DEF Accepted, AcceptsAudience, Admissible
<1> QED
  BY <1>1, <1>2

LEMMA SoundStays ==
    ASSUME NEW t, NEW out, NEW in, Sound(t, out, in), deployment' = deployment
    PROVE  Sound(t, out, in)'
BY DEF Sound, NamesItsOwn, Grantee, Accepted, FaultNamed, Holders, Services, Deployed, Allowed,
       AcceptsAudience, IdentityOf, GrantedNamespaces, Identity, Admissible
-----------------------------------------------------------------------------
(* One request moves; the others, and what is known of them, stay.         *)
LEMMA OneMoves ==
    ASSUME RequestsInv, NEW r \in Slots, NEW t \in Task, NEW out \in Context, NEW in \in Context,
           task' = [task EXCEPT ![r] = t], outer' = [outer EXCEPT ![r] = out],
           inner' = [inner EXCEPT ![r] = in], deployment' = deployment,
           revision' \in [Accounts -> 0..MaxRevision], record' \in Record,
           Sound(t, out, in)
    PROVE  RequestsInv'
<1>1. /\ task' \in [Slots -> Task] /\ task'[r] = t
      /\ outer' \in [Slots -> Context] /\ outer'[r] = out
      /\ inner' \in [Slots -> Context] /\ inner'[r] = in
  BY DEF RequestsInv
<1>2. \A q \in Slots : q # r =>
          task'[q] = task[q] /\ outer'[q] = outer[q] /\ inner'[q] = inner[q]
  BY DEF RequestsInv
<1>3. Task' = Task /\ Context' = Context /\ Record' = Record
  BY DEF Task, Context, Record, Services, Deployed, Identity
<1>4. ASSUME NEW q \in Slots
      PROVE  Sound(task[q], outer[q], inner[q])'
  <2>1. CASE q = r
    <3>1. Sound(t, out, in)'
      BY SoundStays
    <3> QED
      BY <1>1, <2>1, <3>1 DEF Sound
  <2>2. CASE q # r
    <3>1. Sound(task[q], outer[q], inner[q])
      BY DEF RequestsInv
    <3>2. task'[q] = task[q] /\ outer'[q] = outer[q] /\ inner'[q] = inner[q]
      BY <1>2, <2>2
    <3>3. SUFFICES ASSUME NEW t2, NEW out2, NEW in2, t2 = task[q], out2 = outer[q], in2 = inner[q]
                   PROVE  Sound(task[q], outer[q], inner[q])'
      OBVIOUS
    <3>4. Sound(t2, out2, in2)'
      BY <3>1, <3>3, SoundStays
    <3>5. task'[q] = t2 /\ outer'[q] = out2 /\ inner'[q] = in2
      BY <3>2, <3>3
    <3> QED
      BY <3>4, <3>5 DEF Sound
  <2> QED
    BY <2>1, <2>2
<1>5. Starts(Deployed)' /\ deployment' \in DOMAIN Deployments
  BY DEF RequestsInv, Starts, Deployed
<1> QED
  BY <1>1, <1>3, <1>4, <1>5 DEF RequestsInv

LEMMA AnswerMoves ==
    ASSUME RequestsInv, NEW r \in Slots, NEW status \in Statuses,
           task' = Answered(r, status), UNCHANGED <<deployment, outer, inner>>,
           revision' \in [Accounts -> 0..MaxRevision], record' \in Record,
           task[r].phase \in {"arrived", "verifying", "authorised"},
           FaultNamed(task[r].call, status)
    PROVE  RequestsInv'
<1> DEFINE t == [task[r] EXCEPT !.phase = "answered", !.status = status]
<1>1. task[r] \in Task /\ Sound(task[r], outer[r], inner[r])
      /\ outer[r] \in Context /\ inner[r] \in Context
  BY DEF RequestsInv
<1>2. t \in Task /\ t.phase = "answered" /\ t.status = status /\ t.call = task[r].call
      /\ t.request = task[r].request
  BY <1>1 DEF Task
<1>3. task' = [task EXCEPT ![r] = t]
  BY DEF Answered, RequestsInv
<1>4. status # None
  BY NamesAssumption DEF Statuses
<1>5. Sound(t, outer[r], inner[r])
  <2> HIDE DEF t
  <2> QED
    BY <1>1, <1>2, <1>4 DEF Sound
<1>6. outer' = [outer EXCEPT ![r] = outer[r]] /\ inner' = [inner EXCEPT ![r] = inner[r]]
  BY DEF RequestsInv
<1> HIDE DEF t
<1> QED
  BY <1>1, <1>2, <1>3, <1>5, <1>6, OneMoves

(* Once its tokens are accepted a request is refused for other reasons.    *)
LEMMA AuthorisedIsAdmissible ==
    ASSUME RequestsInv, NEW r \in Slots, task[r].phase = "authorised"
    PROVE  /\ task[r].call \in Calls
           /\ Admissible(task[r].call)
           /\ \A status \in Statuses : status \notin {401, 503} => FaultNamed(task[r].call, status)
<1>1. Sound(task[r], outer[r], inner[r])
  BY DEF RequestsInv
<1>2. task[r].call \in Calls /\ task[r].call.token # None
      /\ Grantee(task[r].call, task[r].grant) /\ Accepted(task[r].call, task[r].grant)
  BY <1>1 DEF Sound
<1>3. Admissible(task[r].call)
  BY <1>2, AcceptedIsAdmissible
<1> QED
  BY <1>2, <1>3 DEF FaultNamed

LEMMA InContext ==
    ASSUME RequestsInv, NEW r \in Slots
    PROVE  /\ outer[r] \in Context /\ inner[r] \in Context /\ task[r] \in Task
           /\ \A e \in Events : [event |-> e, slot |-> r, context |-> outer[r]] \in Record
           /\ \A e \in Events : [event |-> e, slot |-> r, context |-> inner[r]] \in Record
           /\ None \in Record
<1>1. outer[r] \in Context /\ inner[r] \in Context /\ task[r] \in Task
  BY DEF RequestsInv
<1> QED
  BY <1>1 DEF Record

LEMMA Recorded ==
    ASSUME RequestsInv, NEW r \in Slots
    PROVE  /\ Quiet => record' \in Record
           /\ \A e \in Events : Logs(e, r, outer[r]) \/ Logs(e, r, inner[r]) => record' \in Record
BY InContext DEF Quiet, Logs

LEMMA ArriveStep ==
    ASSUME RequestsInv, NEW r \in Slots, NEW call \in Calls, NEW id \in RequestIds,
           Arrive(r, call, id)
    PROVE  RequestsInv'
<1> DEFINE bound == [Unbound EXCEPT !.request = id]
           t == [Idle EXCEPT !.phase = IF call.body = "not_json" THEN "answered" ELSE "arrived",
                             !.status = IF call.body = "not_json" THEN 422 ELSE None,
                             !.request = id, !.call = call]
<1>1. bound \in Context /\ bound.request = id /\ bound.account = None /\ bound.service = None
  BY DEF Unbound, Context
<1>2. /\ t.phase = IF call.body = "not_json" THEN "answered" ELSE "arrived"
      /\ t.status = IF call.body = "not_json" THEN 422 ELSE None
      /\ t.request = id /\ t.call = call /\ t.grant = None
  BY DEF Idle
<1>3. t \in Task
  <2>1. PICK phase \in {"answered", "arrived"}, status \in Statuses \cup {None} :
            /\ phase = IF call.body = "not_json" THEN "answered" ELSE "arrived"
            /\ status = IF call.body = "not_json" THEN 422 ELSE None
    BY DEF Statuses
  <2>2. [Idle EXCEPT !.phase = phase, !.status = status, !.request = id, !.call = call] \in Task
    BY DEF Idle, Task
  <2>3. t = [Idle EXCEPT !.phase = phase, !.status = status, !.request = id, !.call = call]
    BY <2>1, Zenon
  <2> HIDE DEF t
  <2> QED
    BY <2>2, <2>3, Zenon
<1>4. task' = [task EXCEPT ![r] = t] /\ outer' = [outer EXCEPT ![r] = bound]
      /\ inner' = [inner EXCEPT ![r] = bound] /\ deployment' = deployment /\ revision' = revision
      /\ record' = None
  BY DEF Arrive, Quiet
<1>5. bound = [Unbound EXCEPT !.request = id]
  OBVIOUS
<1> HIDE DEF bound, t
<1>6. 422 # None
  BY NamesAssumption
<1>7. NamesItsOwn(call, bound)
  BY <1>1 DEF NamesItsOwn
<1>8. call.body = "not_json" => FaultNamed(call, 422)
  BY DEF FaultNamed
<1>9. Sound(t, bound, bound)
  BY <1>1, <1>2, <1>5, <1>6, <1>7, <1>8 DEF Sound
<1>10. revision' \in [Accounts -> 0..MaxRevision] /\ record' \in Record
  BY <1>4 DEF RequestsInv, Record
<1> QED
  BY <1>1, <1>3, <1>4, <1>9, <1>10, OneMoves

LEMMA IdentityTyped ==
    ASSUME RequestsInv, NEW call \in Calls, call.token # None, NEW grant,
           Grantee(call, grant), Accepted(call, grant)
    PROVE  IdentityOf(grant, call.token) \in Identity
<1>1. call.token.account \in Accounts
  BY RequestsAssumption DEF Call, UserToken
<1>2. /\ COMMON \in Names
      /\ Deployed = Deployments[deployment] /\ deployment \in DOMAIN Deployments
      /\ NamespacesOf(Deployed.build) \subseteq Names
  BY NamesAssumption, RequestsAssumption DEF RequestsInv, Deployed
<1>3. Allowed \subseteq Names
  BY <1>2 DEF Allowed, RequestsInv, Starts, LoadsSettings, CheckNamespaceNames
<1>4. CASE grant = None
  <2>1. GrantedNamespaces(call.token) \subseteq Names
    BY <1>2, <1>3, <1>4 DEF GrantedNamespaces, Accepted
  <2> QED
    BY <1>1, <1>4, <2>1 DEF IdentityOf, Identity
<1>5. CASE grant # None
  <2>1. grant \in DOMAIN Services
    BY <1>5, HoldersAreServices DEF Grantee
  <2>2. Range(Services[grant].namespaces) \subseteq Names
    BY <1>2, <2>1 DEF Services, RequestsInv, Starts, LoadsSettings, CheckService,
       CheckNamespaceNames
  <2>3. Range(Services[grant].namespaces) \cup {COMMON} \in SUBSET Names
    BY <1>2, <2>2
  <2> QED
    BY <1>1, <1>5, <2>1, <2>3 DEF IdentityOf, Identity
<1> QED
  BY <1>4, <1>5

LEMMA AuthenticateStep ==
    ASSUME RequestsInv, NEW r \in Slots, Authenticate(r)
    PROVE  RequestsInv'
<1> DEFINE call == task[r].call
<1>1. /\ task[r] \in Task /\ Sound(task[r], outer[r], inner[r])
      /\ task[r].phase = "arrived" /\ call \in Calls /\ task[r].grant = None
  BY DEF RequestsInv, Authenticate, Sound
<1>2. /\ record' \in Record /\ revision' \in [Accounts -> 0..MaxRevision]
      /\ UNCHANGED <<deployment, outer, inner>>
  BY InContext DEF Authenticate, Quiet, RequestsInv
<1>3. CASE Refuse(r, 401) /\ ~ Admissible(call)
  <2>1. FaultNamed(call, 401) /\ 401 \in Statuses
    BY <1>3 DEF FaultNamed, Statuses
  <2> QED
    BY <1>1, <1>2, <1>3, <2>1, AnswerMoves DEF Refuse
<1>4. ASSUME NEW grant \in {None} \cup DOMAIN Services, Grantee(call, grant), call.token # None,
             task' = [task EXCEPT ![r].phase = "verifying", ![r].grant = grant]
      PROVE  RequestsInv'
  <2> DEFINE t == [task[r] EXCEPT !.phase = "verifying", !.grant = grant]
  <2>1. /\ t \in Task /\ t.phase = "verifying" /\ t.grant = grant /\ t.call = call
        /\ t.request = task[r].request /\ t.status = task[r].status
    BY <1>1 DEF Task
  <2>2. task' = [task EXCEPT ![r] = t]
    BY <1>4 DEF RequestsInv
  <2>3. Sound(t, outer[r], inner[r])
    <3> HIDE DEF t
    <3> QED
      BY <1>1, <1>4, <2>1 DEF Sound
  <2>4. outer' = [outer EXCEPT ![r] = outer[r]] /\ inner' = [inner EXCEPT ![r] = inner[r]]
    BY <1>2 DEF RequestsInv
  <2> HIDE DEF t
  <2> QED
    BY <1>2, <2>1, <2>2, <2>3, <2>4, InContext, OneMoves
<1>5. CASE call.operation \notin INTERNAL /\ call.token = None
  BY <1>3, <1>5 DEF Authenticate, Admissible
<1>6. CASE call.operation \notin INTERNAL /\ call.token # None
  <2>1. task' = [task EXCEPT ![r].phase = "verifying"]
    BY <1>6 DEF Authenticate
  <2>2. task' = [task EXCEPT ![r].phase = "verifying", ![r].grant = None]
    <3>1. [task[r] EXCEPT !.phase = "verifying", !.grant = None]
              = [task[r] EXCEPT !.phase = "verifying"]
      BY <1>1 DEF Task
    <3> QED
      BY <2>1, <3>1 DEF RequestsInv
  <2> QED
    BY <1>4, <1>6, <2>2 DEF Grantee
<1>7. CASE call.operation \in INTERNAL /\ (Holders(call.service_token) = {} \/ call.token = None)
  <2>1. ~ Admissible(call)
    BY <1>7 DEF Admissible, Holders
  <2> QED
    BY <1>3, <1>7, <2>1 DEF Authenticate
<1>8. CASE call.operation \in INTERNAL /\ Holders(call.service_token) # {} /\ call.token # None
  <2>1. PICK grant \in Holders(call.service_token) :
            task' = [task EXCEPT ![r].phase = "verifying", ![r].grant = grant]
    BY <1>8 DEF Authenticate
  <2> QED
    BY <1>4, <1>8, <2>1, HoldersAreServices DEF Grantee
<1> QED
  BY <1>5, <1>6, <1>7, <1>8

LEMMA KeysUnavailableStep ==
    ASSUME RequestsInv, NEW r \in Slots, KeysUnavailable(r)
    PROVE  RequestsInv'
<1>1. /\ Sound(task[r], outer[r], inner[r]) /\ task[r].phase = "verifying"
      /\ record' \in Record /\ revision' \in [Accounts -> 0..MaxRevision]
  BY InContext DEF RequestsInv, KeysUnavailable, Quiet
<1>2. FaultNamed(task[r].call, 503) /\ 503 \in Statuses
  BY <1>1 DEF Sound, FaultNamed, Grantee, KeysUnavailable, Statuses
<1> QED
  BY <1>1, <1>2, AnswerMoves DEF KeysUnavailable, Refuse

LEMMA UnacceptedIsRefused ==
    ASSUME RequestsInv, NEW r \in Slots, task[r].phase = "verifying", Refuse(r, 401),
           ~ Accepted(task[r].call, task[r].grant), record' \in Record,
           UNCHANGED <<deployment, outer, inner, revision>>
    PROVE  RequestsInv'
<1>1. Sound(task[r], outer[r], inner[r])
  BY DEF RequestsInv
<1>2. ~ Admissible(task[r].call)
  BY <1>1, AcceptedIsAdmissible DEF Sound
<1>3. FaultNamed(task[r].call, 401) /\ 401 \in Statuses
  BY <1>2 DEF FaultNamed, Statuses
<1>4. revision' \in [Accounts -> 0..MaxRevision]
  BY DEF RequestsInv
<1> QED
  BY <1>3, <1>4, AnswerMoves DEF Refuse

LEMMA TokenRefusedStep ==
    ASSUME RequestsInv, NEW r \in Slots, TokenRefused(r)
    PROVE  RequestsInv'
BY UnacceptedIsRefused, InContext DEF TokenRefused, Accepted, Quiet

LEMMA ScopeRefusedStep ==
    ASSUME RequestsInv, NEW r \in Slots, ScopeRefused(r)
    PROVE  RequestsInv'
BY UnacceptedIsRefused, InContext DEF ScopeRefused, Accepted, Logs, Events

LEMMA TokenAcceptedStep ==
    ASSUME RequestsInv, NEW r \in Slots, TokenAccepted(r)
    PROVE  RequestsInv'
<1> DEFINE call == task[r].call
           grant == task[r].grant
           identity == IdentityOf(grant, call.token)
           t == [task[r] EXCEPT !.phase = "authorised", !.identity = identity]
           in == [inner[r] EXCEPT !.account = identity.account, !.service = identity.service]
<1>1. /\ task[r] \in Task /\ Sound(task[r], outer[r], inner[r]) /\ inner[r] \in Context
      /\ task[r].phase = "verifying" /\ call \in Calls
      /\ call.token # None /\ Grantee(call, grant) /\ Accepted(call, grant)
  BY DEF RequestsInv, TokenAccepted, Sound, Accepted
<1>2. /\ identity \in Identity /\ identity.account = call.token.account
      /\ identity.service = grant
  BY <1>1, IdentityTyped DEF IdentityOf
<1>3. /\ t \in Task /\ t.phase = "authorised" /\ t.identity = identity /\ t.call = call
      /\ t.grant = grant /\ t.request = task[r].request /\ t.status = task[r].status
  <2> HIDE DEF identity
  <2> QED
    BY <1>1, <1>2 DEF Task
<1>4. /\ in \in Context /\ in.account = call.token.account /\ in.service = grant
      /\ in.request = inner[r].request
  <2> HIDE DEF identity
  <2>1. identity.account \in Accounts /\ identity.service \in {None} \cup DOMAIN Services
    BY <1>2 DEF Identity
  <2> QED
    BY <1>1, <1>2, <2>1 DEF Context
<1>5. NamesItsOwn(call, in)
  <2> HIDE DEF in, t, identity
  <2> QED
    BY <1>1, <1>4 DEF NamesItsOwn, Grantee
<1>6. /\ task' = [task EXCEPT ![r] = t] /\ inner' = [inner EXCEPT ![r] = in]
      /\ outer' = [outer EXCEPT ![r] = outer[r]]
      /\ deployment' = deployment /\ record' \in Record
      /\ revision' \in [Accounts -> 0..MaxRevision]
  BY InContext DEF TokenAccepted, Bind, Quiet, RequestsInv
<1>7. Sound(t, outer[r], in)
  <2> HIDE DEF in, t
  <2> QED
    BY <1>1, <1>2, <1>3, <1>4, <1>5 DEF Sound
<1> HIDE DEF t, in
<1> QED
  BY <1>3, <1>4, <1>6, <1>7, InContext, OneMoves
-----------------------------------------------------------------------------
LEMMA AuthorisedAnswers ==
    ASSUME RequestsInv, NEW r \in Slots, task[r].phase = "authorised",
           NEW status \in Statuses \ {401, 503}, Refuse(r, status), record' \in Record,
           UNCHANGED <<deployment, outer, inner>>, revision' \in [Accounts -> 0..MaxRevision]
    PROVE  RequestsInv'
BY AuthorisedIsAdmissible, AnswerMoves DEF Refuse

LEMMA HandlerRefusesStep ==
    ASSUME RequestsInv, NEW r \in Slots, HandlerRefuses(r)
    PROVE  RequestsInv'
<1>1. Verdict(r) \in Judged
  BY AuthorisedIsAdmissible, VerdictPasses DEF HandlerRefuses
<1>2. Verdict(r) \in Statuses \ {401, 503}
  BY <1>1 DEF Judged, Refusals, Statuses
<1>3. record' \in Record
  <2>1. Logs("unhandled_exception", r, outer[r]) \/ Quiet
    BY DEF HandlerRefuses
  <2> QED
    BY <2>1, Recorded DEF Events
<1> QED
  BY <1>2, <1>3, AuthorisedAnswers DEF HandlerRefuses, RequestsInv

LEMMA StoreAnswersStep ==
    ASSUME RequestsInv, NEW r \in Slots, StoreFails(r) \/ Read(r) \/ StoreRefuses(r)
    PROVE  RequestsInv'
<1>1. record' \in Record
  <2>1. Logs("unhandled_exception", r, outer[r]) \/ Quiet
    BY DEF StoreFails, Read, StoreRefuses
  <2> QED
    BY <2>1, Recorded DEF Events
<1>2. PICK status \in {200, 304, 412, 422, 500} : Refuse(r, status)
  BY DEF StoreFails, Read, StoreRefuses
<1>3. status \in Statuses \ {401, 503}
  BY <1>2 DEF Statuses
<1> QED
  BY <1>1, <1>2, <1>3, AuthorisedAnswers DEF StoreFails, Read, StoreRefuses, RequestsInv

LEMMA WriteStep ==
    ASSUME RequestsInv, NEW r \in Slots, Write(r) \/ Forget(r)
    PROVE  RequestsInv'
<1>1. record' \in Record
  <2>1. Logs("settings_applied", r, inner[r]) \/ Logs("erasure_completed", r, inner[r])
    BY DEF Write, Forget
  <2> QED
    BY <2>1, Recorded DEF Events
<1>2. revision' \in [Accounts -> 0..MaxRevision]
  BY RequestsAssumption DEF Write, Forget, RequestsInv
<1>3. 200 \in Statuses \ {401, 503}
  BY DEF Statuses
<1> QED
  BY <1>1, <1>2, <1>3, AuthorisedAnswers DEF Write, Forget

LEMMA CompleteStep ==
    ASSUME RequestsInv, NEW r \in Slots, Complete(r)
    PROVE  RequestsInv'
<1> DEFINE t == [task[r] EXCEPT !.phase = "completed"]
<1>1. /\ task[r] \in Task /\ Sound(task[r], outer[r], inner[r])
      /\ task[r].phase = "answered"
  BY DEF RequestsInv, Complete
<1>2. /\ t \in Task /\ t.phase = "completed" /\ t.call = task[r].call
      /\ t.request = task[r].request /\ t.status = task[r].status
  BY <1>1 DEF Task
<1>3. /\ task' = [task EXCEPT ![r] = t] /\ inner' = [inner EXCEPT ![r] = inner[r]]
      /\ outer' = [outer EXCEPT ![r] = outer[r]] /\ deployment' = deployment
      /\ record' \in Record /\ revision' \in [Accounts -> 0..MaxRevision]
  BY InContext DEF Complete, Logs, Events, RequestsInv
<1> HIDE DEF t
<1>4. Sound(t, outer[r], inner[r])
  BY <1>1, <1>2 DEF Sound
<1> QED
  BY <1>2, <1>3, <1>4, InContext, OneMoves

LEMMA IdleIsSound == Idle \in Task /\ Unbound \in Context /\ Sound(Idle, Unbound, Unbound)
<1>1. Idle \in Task /\ Idle.phase = "free" /\ Idle.call = None /\ Idle.status = None
  BY DEF Idle, Task
<1>2. Unbound \in Context
  BY DEF Unbound, Context
<1> QED
  BY <1>1, <1>2 DEF Sound

LEMMA LeaveStep ==
    ASSUME RequestsInv, NEW r \in Slots, Leave(r)
    PROVE  RequestsInv'
<1>1. revision' \in [Accounts -> 0..MaxRevision] /\ record' \in Record
  BY InContext DEF Leave, Quiet, RequestsInv
<1> QED
  BY <1>1, IdleIsSound, OneMoves DEF Leave

LEMMA InitSound == Init => RequestsInv
<1> SUFFICES ASSUME Init
             PROVE  RequestsInv
  OBVIOUS
<1>1. revision \in [Accounts -> 0..MaxRevision]
  BY RequestsAssumption DEF Init
<1>2. deployment \in DOMAIN Deployments /\ Starts(Deployed)
  BY DEF Init, Deployed
<1> QED
  BY <1>1, <1>2, IdleIsSound DEF Init, RequestsInv, Record

LEMMA NextSound == RequestsInv /\ [Next]_vars => RequestsInv'
<1> SUFFICES ASSUME RequestsInv, [Next]_vars
             PROVE  RequestsInv'
  OBVIOUS
<1>1. ASSUME NEW r \in Slots, Step(r)
      PROVE  RequestsInv'
  BY <1>1, ArriveStep, AuthenticateStep, KeysUnavailableStep, TokenRefusedStep, ScopeRefusedStep,
     TokenAcceptedStep, HandlerRefusesStep, StoreAnswersStep, WriteStep, CompleteStep, LeaveStep
  DEF Step
<1>2. CASE UNCHANGED vars
  <2>1. /\ deployment' = deployment /\ task' = task /\ outer' = outer /\ inner' = inner
        /\ revision' = revision /\ record' = record
    BY <1>2 DEF vars
  <2>2. \A r \in Slots : Sound(task[r], outer[r], inner[r])'
    BY <2>1 DEF RequestsInv, Sound, NamesItsOwn, Grantee, Accepted, FaultNamed, Holders,
       Services, Deployed, Allowed, AcceptsAudience, IdentityOf, GrantedNamespaces, Identity,
       Admissible
  <2>3. Task' = Task /\ Context' = Context /\ Record' = Record
    BY <2>1 DEF Task, Context, Record, Services, Deployed, Identity
  <2>4. Starts(Deployed)'
    BY <2>1 DEF RequestsInv, Starts, Deployed
  <2> QED
    BY <2>1, <2>2, <2>3, <2>4 DEF RequestsInv
<1> QED
  BY <1>1, <1>2 DEF Next

LEMMA AlwaysSound == Spec => []RequestsInv
BY InitSound, NextSound, PTL DEF Spec
-----------------------------------------------------------------------------
(* Everything is of its kind, an authorised request has an identity, and   *)
(* nothing of a request that is gone is left in a context (RequestsTypeOK).*)
THEOREM RequestsTypeCorrect == Spec => []RequestsTypeOK
<1>1. RequestsInv => RequestsTypeOK
  BY RequestsAssumption DEF RequestsInv, RequestsTypeOK, Sound, Record
<1> QED
  BY <1>1, AlwaysSound, PTL

(* 401 is about the tokens alone, tokens that are not good never get       *)
(* further, and 503 is said only of a token that needed keys, by a service *)
(* the deployment knows (get_identity, get_service_identity).              *)
THEOREM RefusalsAlwaysTellWhose == Spec => []RefusalsTellWhose
<1>1. RequestsInv => RefusalsTellWhose
  BY DEF RequestsInv, RefusalsTellWhose, Sound, FaultNamed
<1> QED
  BY <1>1, AlwaysSound, PTL
-----------------------------------------------------------------------------
LEMMA LoggedNames ==
    ASSUME RequestsInv, NEW r \in Slots, NEW event, NEW context,
           record' = [event |-> event, slot |-> r, context |-> context],
           task'[r].request = task[r].request, task'[r].call = task[r].call,
           deployment' = deployment, task[r].phase # "free",
           \/ context = outer[r] /\ event \notin {"settings_applied", "erasure_completed"}
           \/ context = inner[r] /\ event = "token_rejected"
           \/ context = inner[r] /\ task[r].phase = "authorised"
    PROVE  RecordsNameTheirOwnRequest'
<1> DEFINE call == task[r].call
<1>1. Sound(task[r], outer[r], inner[r])
  BY DEF RequestsInv
<1>2. Holders(call.service_token)' = Holders(call'.service_token)
  BY DEF Holders, Services, Deployed
<1>3. call' = call
  OBVIOUS
<1>4. Holders(call.service_token)' = Holders(call.service_token)
  BY <1>3 DEF Holders, Services, Deployed
<1>5. context.request = task[r].request
  BY <1>1 DEF Sound, Unbound
<1>6. NamesItsOwn(call, context)
  BY <1>1 DEF Sound, Unbound, NamesItsOwn
<1>7. event \in {"settings_applied", "erasure_completed"} =>
          context.account # None /\ (call.operation \in INTERNAL => context.service # None)
  <2>1. SUFFICES ASSUME event \in {"settings_applied", "erasure_completed"}
                 PROVE  context.account # None
                        /\ (call.operation \in INTERNAL => context.service # None)
    OBVIOUS
  <2>2. context = inner[r] /\ task[r].phase = "authorised"
    BY <2>1
  <2>3. context.account = call.token.account /\ context.service = task[r].grant
        /\ call \in Calls /\ call.token # None /\ Grantee(call, task[r].grant)
    BY <1>1, <2>2 DEF Sound
  <2>4. call.token.account \in Accounts
    BY <2>3, RequestsAssumption DEF Call, UserToken
  <2> QED
    BY <2>3, <2>4, GranteesDiffer, RequestsAssumption
<1> QED
  BY <1>3, <1>4, <1>5, <1>6, <1>7 DEF RecordsNameTheirOwnRequest, NamesItsOwn

LEMMA AnsweredKeeps ==
    ASSUME RequestsInv, NEW r \in Slots, NEW status, Refuse(r, status)
    PROVE  /\ task'[r].request = task[r].request /\ task'[r].call = task[r].call
           /\ task'[r].status = status
BY DEF RequestsInv, Task, Refuse, Answered

LEMMA RecordingStep ==
    ASSUME RequestsInv, NEW r \in Slots, Step(r)
    PROVE  RecordsNameTheirOwnRequest'
<1>1. CASE Quiet
  BY <1>1 DEF Quiet, RecordsNameTheirOwnRequest
<1>2. CASE ScopeRefused(r)
  BY <1>2, AnsweredKeeps, LoggedNames DEF ScopeRefused, Logs
<1>3. CASE HandlerRefuses(r)
  <2>1. CASE Verdict(r) = 500
    BY <1>3, <2>1, AnsweredKeeps, LoggedNames DEF HandlerRefuses, Logs
  <2>2. CASE Verdict(r) # 500
    BY <1>1, <1>3, <2>2 DEF HandlerRefuses
  <2> QED
    BY <2>1, <2>2
<1>4. CASE StoreFails(r)
  BY <1>4, AnsweredKeeps, LoggedNames DEF StoreFails, Logs
<1>5. CASE Write(r)
  BY <1>5, AnsweredKeeps, LoggedNames DEF Write, Logs
<1>6. CASE Forget(r)
  BY <1>6, AnsweredKeeps, LoggedNames DEF Forget, Logs
<1>7. CASE Complete(r)
  <2>1. task'[r].request = task[r].request /\ task'[r].call = task[r].call
    BY <1>7 DEF Complete, RequestsInv, Task
  <2> QED
    BY <1>7, <2>1, LoggedNames DEF Complete, Logs
<1> QED
  BY <1>1, <1>2, <1>3, <1>4, <1>5, <1>6, <1>7
  DEF Step, Arrive, Authenticate, KeysUnavailable, TokenRefused, TokenAccepted, Read,
      StoreRefuses, Leave

(* A record names nobody but the account and the service of the tokens of  *)
(* the request that wrote it (set_account_id, set_service, logging.py).    *)
THEOREM RecordsAlwaysNameTheirOwn == Spec => []RecordsNameTheirOwnRequest
<1>1. Init => RecordsNameTheirOwnRequest
  BY DEF Init, RecordsNameTheirOwnRequest
<1>2. RequestsInv /\ RecordsNameTheirOwnRequest /\ [Next]_vars => RecordsNameTheirOwnRequest'
  <2> SUFFICES ASSUME RequestsInv, RecordsNameTheirOwnRequest, [Next]_vars
               PROVE  RecordsNameTheirOwnRequest'
    OBVIOUS
  <2>1. CASE UNCHANGED vars
    BY <2>1 DEF vars, RecordsNameTheirOwnRequest, Holders, Services, Deployed
  <2> QED
    BY <2>1, RecordingStep DEF Next
<1> QED
  BY <1>1, <1>2, AlwaysSound, PTL DEF Spec
-----------------------------------------------------------------------------
LEMMA ServedIsEntitled ==
    ASSUME RequestsInv, NEW r \in Slots, task[r].phase = "authorised", Verdict(r) = 200
    PROVE  /\ Admissible(task[r].call)
           /\ \A n \in Touches(task[r].call) : MayTouch(task[r].call, n)
           /\ task[r].call \in Calls
           /\ task[r].identity.account = task[r].call.token.account
<1> DEFINE call == task[r].call
           grant == task[r].grant
<1>1. Sound(task[r], outer[r], inner[r])
  BY DEF RequestsInv
<1>2. /\ call \in Calls /\ call.token # None /\ Grantee(call, grant) /\ Accepted(call, grant)
      /\ task[r].identity = IdentityOf(grant, call.token)
  BY <1>1 DEF Sound
<1>3. ASSUME NEW n \in Touches(call)
      PROVE  MayTouch(call, n)
  <2>1. n \in task[r].identity.namespaces
    BY <1>2, <1>3, VerdictPasses
  <2>2. CASE call.operation \in INTERNAL
    <3>1. grant # None /\ \A s \in Holders(call.service_token) : s = grant
      BY <1>2, <2>2, GranteesDiffer, OneHolder DEF Grantee
    <3> QED
      BY <1>2, <2>1, <2>2, <3>1 DEF MayTouch, IdentityOf, Accepted, AcceptsAudience
  <2>3. CASE call.operation \notin INTERNAL
    <3>1. grant = None
      BY <1>2, <2>3 DEF Grantee
    <3> QED
      BY <1>2, <2>1, <2>3, <3>1 DEF MayTouch, IdentityOf, GrantedNamespaces
  <2> QED
    BY <2>2, <2>3
<1> QED
  BY <1>2, <1>3, AuthorisedIsAdmissible DEF IdentityOf

LEMMA OthersStay ==
    ASSUME RequestsInv, NEW r \in Slots, Step(r), NEW q \in Slots, q # r
    PROVE  task'[q] = task[q]
<1>1. task \in [Slots -> Task]
  BY DEF RequestsInv
<1>2. ASSUME NEW status, Refuse(r, status)
      PROVE  task'[q] = task[q]
  BY <1>1, <1>2 DEF Refuse, Answered
<1>3. ASSUME NEW call \in Calls, NEW id \in RequestIds, Arrive(r, call, id)
      PROVE  task'[q] = task[q]
  BY <1>1, <1>3 DEF Arrive
<1>4. CASE Authenticate(r)
  BY <1>1, <1>2, <1>4 DEF Authenticate
<1>5. CASE TokenAccepted(r) \/ Complete(r) \/ Leave(r)
  BY <1>1, <1>5 DEF TokenAccepted, Complete, Leave
<1>6. CASE HandlerRefuses(r)
  BY <1>2, <1>6 DEF HandlerRefuses
<1>7. CASE KeysUnavailable(r) \/ TokenRefused(r) \/ ScopeRefused(r) \/ StoreFails(r)
  BY <1>2, <1>7 DEF KeysUnavailable, TokenRefused, ScopeRefused, StoreFails
<1>8. CASE Read(r) \/ StoreRefuses(r) \/ Write(r) \/ Forget(r)
  BY <1>2, <1>8 DEF Read, StoreRefuses, Write, Forget
<1> QED
  BY <1>3, <1>4, <1>5, <1>6, <1>7, <1>8 DEF Step

LEMMA WhoServes ==
    ASSUME RequestsInv, NEW r \in Slots, Step(r), Served(r)
    PROVE  Read(r) \/ Write(r) \/ Forget(r)
<1>1. task[r] \in Task /\ Sound(task[r], outer[r], inner[r]) /\ task \in [Slots -> Task]
  BY DEF RequestsInv
<1>2. task[r].status = None /\ task'[r].status \in {200, 304}
  BY DEF Served
<1>3. None \notin {200, 304}
  BY NamesAssumption
<1>4. ASSUME NEW call \in Calls, NEW id \in RequestIds, Arrive(r, call, id)
      PROVE  FALSE
  <2>1. task'[r].status = IF call.body = "not_json" THEN 422 ELSE None
    BY <1>1, <1>4 DEF Arrive, Idle
  <2> QED
    BY <1>2, <1>3, <2>1
<1>5. ~ Refuse(r, 401) /\ ~ Refuse(r, 503) /\ ~ Refuse(r, 500) /\ ~ Refuse(r, 412)
      /\ ~ Refuse(r, 422)
  BY <1>2, AnsweredKeeps
<1>6. ~ HandlerRefuses(r)
  <2>1. HandlerRefuses(r) => Verdict(r) \in Judged \ {200} /\ Refuse(r, Verdict(r))
    BY AuthorisedIsAdmissible, VerdictPasses DEF HandlerRefuses
  <2>2. HandlerRefuses(r) => task'[r].status = Verdict(r)
    BY <2>1, AnsweredKeeps
  <2> QED
    BY <1>2, <2>1, <2>2 DEF Judged, Refusals
<1>7. ~ Authenticate(r) /\ ~ TokenAccepted(r)
  <2>1. ASSUME task'[r].status = task[r].status
        PROVE  FALSE
    BY <1>2, <1>3, <2>1
  <2> QED
    BY <1>1, <1>5, <2>1 DEF Authenticate, TokenAccepted, Task
<1>8. ~ Complete(r)
  BY <1>1, <1>2 DEF Complete, Sound
<1>9. ~ Leave(r)
  BY <1>1, <1>2, <1>3 DEF Leave, Idle
<1> QED
  BY <1>4, <1>5, <1>6, <1>7, <1>8, <1>9
  DEF Step, KeysUnavailable, TokenRefused, ScopeRefused, StoreFails, StoreRefuses

LEMMA WritersAreConditional ==
    ASSUME RequestsInv, NEW r \in Slots, Step(r), NEW a \in Accounts, revision'[a] # revision[a]
    PROVE  LET call == task[r].call
           IN  /\ Served(r) /\ call.token.account = a
               /\ \/ call.operation = "forget_settings"
                  \/ call.operation \in INTERNAL
                  \/ call.tag.form = "absent"
                  \/ call.tag.account = a /\ call.tag.revision = revision[a]
<1> DEFINE call == task[r].call
<1>1. Write(r) \/ Forget(r)
  BY DEF Step, Arrive, Authenticate, KeysUnavailable, TokenRefused, ScopeRefused, TokenAccepted,
     HandlerRefuses, StoreFails, Read, StoreRefuses, Complete, Leave
<1>2. /\ task[r].phase = "authorised" /\ Verdict(r) = 200 /\ Refuse(r, 200)
  BY <1>1 DEF Write, Forget
<1>3. task[r].status = None
  BY <1>2 DEF RequestsInv, Sound
<1>4. Served(r)
  BY <1>2, <1>3, AnsweredKeeps DEF Served
<1>5. call \in Calls /\ task[r].identity.account = call.token.account
  BY <1>2, ServedIsEntitled
<1>6. task[r].identity.account = a
  BY <1>1 DEF Write, Forget, RequestsInv
<1>7. CASE Forget(r)
  BY <1>4, <1>5, <1>6, <1>7 DEF Forget
<1>8. CASE Write(r) /\ call.operation \notin INTERNAL
  <2>1. call.operation \in WRITES \ INTERNAL /\ Expected(call) \in {None, revision[a]}
    BY <1>6, <1>8 DEF Write
  <2>2. \/ call.tag.form = "absent"
        \/ call.tag.form = "strong" /\ call.tag.account = a
    BY <1>2, <1>5, <1>6, <2>1, VerdictPasses
  <2>3. CASE call.tag.form = "strong" /\ call.tag.account = a
    <3>1. Expected(call) = call.tag.revision
      BY <2>1, <2>3 DEF Expected
    <3>2. call.tag.revision # None
      BY <1>5, RequestsAssumption, NamesAssumption DEF Call, Tag
    <3> QED
      BY <1>4, <1>5, <1>6, <2>1, <2>3, <3>1, <3>2
  <2> QED
    BY <1>4, <1>5, <1>6, <2>2, <2>3
<1>9. CASE Write(r) /\ call.operation \in INTERNAL
  BY <1>4, <1>5, <1>6, <1>9
<1> QED
  BY <1>1, <1>7, <1>8, <1>9

(* A request is served only by tokens good for this surface and for every  *)
(* namespace it touches, and a revision moves only by a served write whose *)
(* If-Match named the revision it found (get_service_identity, apply).     *)
THEOREM OnlyTheEntitledAreAlwaysServed == Spec => OnlyTheEntitledAreServed
<1> DEFINE Entitled ==
               \A r \in Slots : Served(r) =>
                   /\ Admissible(task[r].call)
                   /\ \A n \in Touches(task[r].call) : MayTouch(task[r].call, n)
           Conditional ==
               \A a \in Accounts : revision'[a] # revision[a] =>
                   \E r \in Slots :
                       LET call == task[r].call
                       IN  /\ Served(r) /\ call.token.account = a
                           /\ \/ call.operation = "forget_settings"
                              \/ call.operation \in INTERNAL
                              \/ call.tag.form = "absent"
                              \/ call.tag.account = a /\ call.tag.revision = revision[a]
<1>1. ASSUME RequestsInv, [Next]_vars
      PROVE  [Entitled /\ Conditional]_vars
  <2>1. ASSUME NEW r \in Slots, Step(r)
        PROVE  Entitled /\ Conditional
    <3>1. ASSUME NEW q \in Slots, Served(q)
          PROVE  q = r
      BY <1>1, <2>1, <3>1, OthersStay, NamesAssumption DEF Served
    <3>2. Served(r) => task[r].phase = "authorised" /\ Verdict(r) = 200
      BY <1>1, <2>1, WhoServes DEF Read, Write, Forget
    <3>3. Entitled
      BY <1>1, <3>1, <3>2, ServedIsEntitled
    <3>4. Conditional
      BY <1>1, <2>1, WritersAreConditional
    <3> QED
      BY <3>3, <3>4
  <2> QED
    BY <1>1, <2>1 DEF Next
<1>2. [][Entitled /\ Conditional]_vars => OnlyTheEntitledAreServed
  BY PTL DEF OnlyTheEntitledAreServed
<1> QED
  BY <1>1, <1>2, AlwaysSound, PTL DEF Spec
=============================================================================
