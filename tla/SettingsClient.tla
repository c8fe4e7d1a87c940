--------------------------- MODULE SettingsClient ---------------------------
(***************************************************************************)
(* HttpSettingsClient: the cache a consuming service embeds, between its   *)
(* tasks and settings-api.                                                 *)
(*                                                                         *)
(* The client runs on one event loop, so what lies between two awaits is   *)
(* one action: a task enters resolve, is woken with the lock, or has its   *)
(* answer.  Between those the server answers, other tasks run, entries     *)
(* expire and are dropped, and callers are cancelled.                      *)
(*                                                                         *)
(* The server is external: one account, not erased, whose revision only    *)
(* grows, and a revision names the documents of all its keys.  So a        *)
(* document is the revision it was read at.  A timeout, a refused          *)
(* connection, a 5xx and an unusable body all lead to _degrade and are one *)
(* action.  The age of an entry is whether it is within its TTL; time may  *)
(* pass it at any moment.                                                  *)
(***************************************************************************)
EXTENDS Integers, FiniteSets, Sequences, SequencesExt

CONSTANTS
    Tasks,        \* the tasks of the consuming service
    Tokens,       \* user tokens, all of one account
    Namespaces,
    Profiles,     \* keyring profile names, and NoProfile
    NoProfile,    \* "": no profile was named
    Keys,         \* the <<token, namespace, profile>> in use
    Uses,         \* task -> the keys it resolves and writes
    COMMON,       \* the namespace merged into every other
    Nobody,       \* no task
    NoEntry,      \* nothing cached
    NoResult,     \* a task that has not called yet
    NotModified,  \* a 304
    MaxCached,    \* max_cached_tokens, the bound on entries
    MaxRevision   \* bound: how far the account's revision may grow

ASSUME KeysAssumption == /\ Keys \subseteq Tokens \X Namespaces \X Profiles
                         /\ COMMON \in Namespaces
                         /\ NoProfile \in Profiles
ASSUME UsesAssumption == Uses \in [Tasks -> SUBSET Keys]
ASSUME NobodyAssumption == Nobody \notin Tasks
ASSUME NoEntryAssumption == NoEntry \notin [revision : Nat, fresh : BOOLEAN]
ASSUME NotModifiedAssumption == NotModified \notin Nat
ASSUME BoundsAssumption == MaxCached \in Nat \ {0} /\ MaxRevision \in Nat

VARIABLES
    revision,   \* the server's: the account's revision
    entries,    \* _entries: what is cached for a key, if anything
    newer,      \* the order of that dict: the keys inserted after a cached one
    known,      \* the namespaces _fallbacks holds
    flights,    \* the keys _flights holds
    holder,     \* the task that has the lock of a key's flight
    waiters,    \* the tasks that wait for it, in order
    tasks,      \* where each task is
    owed,       \* history: what drops of a key's entries promise its readers
    due,        \* history: the revision when a key last ran out or was asked for
    delivered   \* history: the last revision answered for a key

vars == <<revision, entries, newer, known, flights, holder, waiters, tasks,
          owed, due, delivered>>

server == <<revision>>
cache == <<entries, newer>>
locks == <<flights, holder, waiters>>
history == <<owed, due, delivered>>

TokenOf(key) == key[1]
NamespaceOf(key) == key[2]

Entry == [revision : 0..MaxRevision, fresh : BOOLEAN]

(* What a reader of a key is owed by the drops of its entry: the latest    *)
(* revision the server was known to be at, and the latest of those drops   *)
(* that were clean, with no fetch of the key under way.                    *)
Owed == [latest : 0..MaxRevision, clean : 0..MaxRevision]

(* A document is "stale" if it says so.                                    *)
Outcomes == {"document", "stale", "fallbacks", "unavailable", "rejected", "cancelled", "saved"}

Idle == [pc : {"idle"}, result : Outcomes \cup {NoResult}]
Waiting == [pc : {"waiting"}, key : Keys]
Fetching == [pc : {"asking"}, key : Keys, cached : Entry \cup {NoEntry}]
Answered == [pc : {"answered"}, key : Keys, cached : Entry \cup {NoEntry},
             answer : 0..MaxRevision \cup {NotModified}]
Writing == [pc : {"writing", "written"}, key : Keys, answer : 0..MaxRevision]

TypeOK ==
    /\ revision \in 0..MaxRevision
    /\ entries \in [Keys -> Entry \cup {NoEntry}]
    /\ newer \in [Keys -> SUBSET Keys]
    /\ known \subseteq Namespaces
    /\ flights \subseteq Keys
    /\ holder \in [Keys -> Tasks \cup {Nobody}]
    /\ waiters \in [Keys -> Seq(Tasks)]
    /\ tasks \in [Tasks -> Idle \cup Waiting \cup Fetching \cup Answered \cup Writing]
    /\ owed \in [Keys -> Owed]
    /\ due \in [Keys -> 0..MaxRevision]
    /\ delivered \in [Keys -> 0..MaxRevision]

Init ==
    /\ revision = 0
    /\ entries = [k \in Keys |-> NoEntry]
    /\ newer = [k \in Keys |-> {}]
    /\ known = {}
    /\ flights = {}
    /\ holder = [k \in Keys |-> Nobody]
    /\ waiters = [k \in Keys |-> <<>>]
    /\ tasks = [t \in Tasks |-> [pc |-> "idle", result |-> NoResult]]
    /\ owed = [k \in Keys |-> [latest |-> 0, clean |-> 0]]
    /\ due = [k \in Keys |-> 0]
    /\ delivered = [k \in Keys |-> 0]
-----------------------------------------------------------------------------
(* The cache.                                                              *)

Fresh(key) == entries[key] # NoEntry /\ entries[key].fresh

Cached == {k \in Keys : entries[k] # NoEntry}

(* The order once the key is at the end of the dict.                       *)
ToEnd(key) == [k \in Keys |-> IF k \in Cached \ {key} THEN newer[k] \cup {key} ELSE {}]

(* The order of what is left without these keys.                           *)
Without(inserted, keys) == [k \in Keys |-> IF k \in keys THEN {} ELSE inserted[k] \ keys]

(* Mutant: one entry more than the bound is kept.                          *)
Remember_OneTooMany(key, entry) ==
    LET inserted == ToEnd(key)
        evicted  == {k \in Keys : Cardinality(inserted[k]) > MaxCached}
    IN  /\ entries' = [k \in Keys |-> IF k \in evicted THEN NoEntry
                                      ELSE IF k = key THEN entry ELSE entries[k]]
        /\ newer' = Without(inserted, evicted)

(* Mutant: the newest of the other entries goes.                           *)
Remember_TheNewest(key, entry) ==
    LET inserted == ToEnd(key)
        evicted  == {k \in Keys : inserted[k] = {key} /\ Cardinality(Cached \cup {key}) > MaxCached}
    IN  /\ entries' = [k \in Keys |-> IF k \in evicted THEN NoEntry
                                      ELSE IF k = key THEN entry ELSE entries[k]]
        /\ newer' = Without(inserted, evicted)

(* _remember: the entry goes to the end; from the front goes every entry   *)
(* that as many as the bound were inserted after.                          *)
Remember(key, entry) ==
    LET inserted == ToEnd(key)
        evicted  == {k \in Keys : Cardinality(inserted[k]) >= MaxCached}
    IN  /\ entries' = [k \in Keys |-> IF k \in evicted THEN NoEntry
                                      ELSE IF k = key THEN entry ELSE entries[k]]
        /\ newer' = Without(inserted, evicted)

OfToken(token) == {k \in Keys : TokenOf(k) = token}

(* Mutant: only the entry without a profile is dropped.                    *)
OfNamespace_OneProfile(token, namespace) ==
    {k \in OfToken(token) : k = <<token, namespace, NoProfile>>}

OfNamespace(token, namespace) == {k \in OfToken(token) : NamespaceOf(k) = namespace}

(* A dropped entry leaves _entries.                                        *)
Drop(keys) ==
    /\ entries' = [k \in Keys |-> IF k \in keys THEN NoEntry ELSE entries[k]]
    /\ newer' = Without(newer, keys)

At(key, places) == {t \in Tasks : tasks[t].pc \in places /\ tasks[t].key = key}

Fetchers(key) == At(key, {"asking", "answered"})

Later(a, b) == IF a > b THEN a ELSE b

(* The history: after a drop, what readers of the dropped keys are owed is *)
(* no less than the revision the drop was about.                           *)
Owe(token, namespaces, atRevision) ==
    owed' = [k \in Keys |->
                IF TokenOf(k) = token /\ NamespaceOf(k) \in namespaces
                THEN [latest |-> Later(owed[k].latest, atRevision),
                      clean  |-> IF Fetchers(k) = {} THEN Later(owed[k].clean, atRevision)
                                 ELSE owed[k].clean]
                ELSE owed[k]]
-----------------------------------------------------------------------------
(* resolve, from the call to the answer.                                   *)

Finish(t, outcome) == tasks' = [tasks EXCEPT ![t] = [pc |-> "idle", result |-> outcome]]

Ask(t, key) ==
    /\ tasks' = [tasks EXCEPT ![t] = [pc |-> "asking", key |-> key, cached |-> entries[key]]]
    /\ due' = [due EXCEPT ![key] = revision]

Deliver(t, outcome, atRevision) ==
    /\ Finish(t, outcome)
    /\ delivered' = [delivered EXCEPT ![tasks[t].key] = atRevision]

(* Mutant: the lock is released and its next waiter is not woken.          *)
Leave_WithoutWaking(key) ==
    /\ holder' = [holder EXCEPT ![key] = Nobody]
    /\ waiters' = waiters
    /\ flights' = IF waiters[key] = <<>> THEN flights \ {key} ELSE flights

(* Mutant: a flight is kept when its last caller goes.                     *)
Leave_KeepsTheFlight(key) ==
    /\ holder' = [holder EXCEPT ![key] = IF waiters[key] = <<>> THEN Nobody
                                         ELSE Head(waiters[key])]
    /\ waiters' = [waiters EXCEPT ![key] = IF @ = <<>> THEN @ ELSE Tail(@)]
    /\ flights' = flights

(* The end of resolve's try: the next waiter gets the lock; the last       *)
(* caller out takes the flight with it.                                    *)
Leave(key) ==
    /\ holder' = [holder EXCEPT ![key] = IF waiters[key] = <<>> THEN Nobody
                                         ELSE Head(waiters[key])]
    /\ waiters' = [waiters EXCEPT ![key] = IF @ = <<>> THEN @ ELSE Tail(@)]
    /\ flights' = IF waiters[key] = <<>> THEN flights \ {key} ELSE flights

Hit(t, key) ==
    /\ tasks[t].pc = "idle"
    /\ Fresh(key)
    /\ newer' = ToEnd(key)
    /\ Finish(t, "document")
    /\ delivered' = [delivered EXCEPT ![key] = entries[key].revision]
    /\ UNCHANGED <<server, locks, entries, known, owed, due>>

(* Mutant: nobody waits for the fetch that is under way.                   *)
Miss_WithoutLock(t, key) ==
    /\ tasks[t].pc = "idle"
    /\ ~Fresh(key)
    /\ flights' = flights \cup {key}
    /\ holder' = [holder EXCEPT ![key] = t]
    /\ Ask(t, key)
    /\ UNCHANGED <<server, cache, waiters, known, owed, delivered>>

(* A lock that is free is taken without yielding to the loop, so the       *)
(* second look at the cache finds what the first did.                      *)
Miss(t, key) ==
    /\ tasks[t].pc = "idle"
    /\ ~Fresh(key)
    /\ flights' = flights \cup {key}
    /\ \/ /\ holder[key] = Nobody
          /\ holder' = [holder EXCEPT ![key] = t]
          /\ Ask(t, key)
          /\ UNCHANGED waiters
       \/ /\ holder[key] # Nobody
          /\ waiters' = [waiters EXCEPT ![key] = Append(@, t)]
          /\ tasks' = [tasks EXCEPT ![t] = [pc |-> "waiting", key |-> key]]
          /\ UNCHANGED <<holder, due>>
    /\ UNCHANGED <<server, cache, known, owed, delivered>>

(* Woken with the lock: the cache is asked again, without _touch.          *)
Resume(t) ==
    /\ tasks[t].pc = "waiting"
    /\ holder[tasks[t].key] = t
    /\ \/ /\ Fresh(tasks[t].key)
          /\ Deliver(t, "document", entries[tasks[t].key].revision)
          /\ Leave(tasks[t].key)
          /\ UNCHANGED due
       \/ /\ ~Fresh(tasks[t].key)
          /\ Ask(t, tasks[t].key)
          /\ UNCHANGED <<locks, delivered>>
    /\ UNCHANGED <<server, cache, known, owed>>

(* settings-api answers: 304 if the ETag is the current one.               *)
Answer(t) ==
    /\ tasks[t].pc = "asking"
    /\ tasks' = [tasks EXCEPT ![t] =
                    [pc |-> "answered", key |-> tasks[t].key, cached |-> tasks[t].cached,
                     answer |-> IF tasks[t].cached # NoEntry
                                   /\ tasks[t].cached.revision = revision
                                THEN NotModified ELSE revision]]
    /\ UNCHANGED <<server, cache, locks, known, history>>

(* Mutant: what a 304 renewed is remembered, dropped or not.               *)
ReceiveNotModified_Remembers(t) ==
    /\ tasks[t].pc = "answered"
    /\ tasks[t].answer = NotModified
    /\ Remember(tasks[t].key, [tasks[t].cached EXCEPT !.fresh = TRUE])
    /\ Deliver(t, "document", tasks[t].cached.revision)
    /\ Leave(tasks[t].key)
    /\ UNCHANGED <<server, known, owed, due>>

(* A 304 renews the entry the request was sent with, which may have been   *)
(* dropped or evicted since: then nothing is cached.                       *)
ReceiveNotModified(t) ==
    /\ tasks[t].pc = "answered"
    /\ tasks[t].answer = NotModified
    /\ entries' = [entries EXCEPT ![tasks[t].key] =
                      IF @ = NoEntry THEN @ ELSE [@ EXCEPT !.fresh = TRUE]]
    /\ Deliver(t, "document", tasks[t].cached.revision)
    /\ Leave(tasks[t].key)
    /\ UNCHANGED <<server, newer, known, owed, due>>

(* Mutant: a 304 is read as if it were a document.                         *)
ReceiveDocument_OrNotModified(t) ==
    /\ tasks[t].pc = "answered"
    /\ known' = known \cup {NamespaceOf(tasks[t].key)}
    /\ Remember(tasks[t].key, [revision |-> tasks[t].answer, fresh |-> TRUE])
    /\ Deliver(t, "document", tasks[t].answer)
    /\ Leave(tasks[t].key)
    /\ UNCHANGED <<server, owed, due>>

ReceiveDocument(t) ==
    /\ tasks[t].pc = "answered"
    /\ tasks[t].answer # NotModified
    /\ known' = known \cup {NamespaceOf(tasks[t].key)}
    /\ Remember(tasks[t].key, [revision |-> tasks[t].answer, fresh |-> TRUE])
    /\ Deliver(t, "document", tasks[t].answer)
    /\ Leave(tasks[t].key)
    /\ UNCHANGED <<server, owed, due>>

(* A 4xx: raised, with the cache as it was.                                *)
ReceiveRefusal(t) ==
    /\ tasks[t].pc = "asking"
    /\ Finish(t, "rejected")
    /\ Leave(tasks[t].key)
    /\ UNCHANGED <<server, cache, known, history>>

(* Mutant: the last document known is answered as if it were current.      *)
Degrade_Unmarked(t) ==
    /\ tasks[t].pc \in {"asking", "answered"}
    /\ \/ /\ tasks[t].cached # NoEntry
          /\ Deliver(t, "document", tasks[t].cached.revision)
       \/ /\ tasks[t].cached = NoEntry
          /\ Finish(t, IF NamespaceOf(tasks[t].key) \in known THEN "fallbacks" ELSE "unavailable")
          /\ UNCHANGED delivered
    /\ Leave(tasks[t].key)
    /\ UNCHANGED <<server, cache, known, owed, due>>

(* _degrade: the entry the request was sent with, marked stale, else the   *)
(* fallbacks of the namespace, else nothing.                               *)
Degrade(t) ==
    /\ tasks[t].pc \in {"asking", "answered"}
    /\ \/ /\ tasks[t].cached # NoEntry
          /\ Deliver(t, "stale", tasks[t].cached.revision)
       \/ /\ tasks[t].cached = NoEntry
          /\ Finish(t, IF NamespaceOf(tasks[t].key) \in known THEN "fallbacks" ELSE "unavailable")
          /\ UNCHANGED delivered
    /\ Leave(tasks[t].key)
    /\ UNCHANGED <<server, cache, known, owed, due>>

(* Mutant: a caller that was only waiting gives away the lock as well.     *)
Cancel_ReleasesTheLock(t) ==
    /\ tasks[t].pc # "idle"
    /\ Finish(t, "cancelled")
    /\ IF tasks[t].pc \in {"writing", "written"} THEN UNCHANGED locks
       ELSE Leave(tasks[t].key)
    /\ UNCHANGED <<server, cache, known, history>>

(* The caller is cancelled at the await it is in.                          *)
Cancel(t) ==
    /\ tasks[t].pc # "idle"
    /\ Finish(t, "cancelled")
    /\ \/ tasks[t].pc \in {"writing", "written"} /\ UNCHANGED locks
       \/ /\ tasks[t].pc \notin {"writing", "written"}
          /\ holder[tasks[t].key] = t
          /\ Leave(tasks[t].key)
       \/ /\ tasks[t].pc \notin {"writing", "written"}
          /\ holder[tasks[t].key] # t
          /\ \E i \in DOMAIN waiters[tasks[t].key] :
                 /\ waiters[tasks[t].key][i] = t
                 /\ waiters' = [waiters EXCEPT ![tasks[t].key] = RemoveAt(@, i)]
          /\ UNCHANGED <<flights, holder>>
    /\ UNCHANGED <<server, cache, known, history>>
-----------------------------------------------------------------------------
(* set and forget.                                                         *)

SetSend(t, key) ==
    /\ tasks[t].pc = "idle"
    /\ tasks' = [tasks EXCEPT ![t] = [pc |-> "writing", key |-> key, answer |-> 0]]
    /\ UNCHANGED <<server, cache, locks, known, history>>

(* settings-api saves the write; a repeated one moves no revision.         *)
SetLand(t) ==
    /\ tasks[t].pc = "writing"
    /\ revision' \in {revision, revision + 1}
    /\ revision' <= MaxRevision
    /\ tasks' = [tasks EXCEPT ![t].pc = "written", ![t].answer = revision']
    /\ UNCHANGED <<cache, locks, known, history>>

(* A 2xx: every profile's entry of the namespace is dropped, before the    *)
(* body is looked at and found usable or not.                              *)
SetAcknowledged(t) ==
    /\ tasks[t].pc = "written"
    /\ Drop(OfNamespace(TokenOf(tasks[t].key), NamespaceOf(tasks[t].key)))
    /\ Owe(TokenOf(tasks[t].key), {NamespaceOf(tasks[t].key)}, tasks[t].answer)
    /\ Finish(t, "saved") \/ Finish(t, "unavailable")
    /\ UNCHANGED <<server, locks, known, due, delivered>>

(* A refusal by settings-api, or a 5xx of its own or of a proxy in front   *)
(* of it after the write landed.                                           *)
SetRejected(t) ==
    /\ tasks[t].pc \in {"writing", "written"}
    /\ Finish(t, "rejected")
    /\ UNCHANGED <<server, cache, locks, known, history>>

(* A timeout or a broken connection.                                       *)
SetLost(t) ==
    /\ tasks[t].pc \in {"writing", "written"}
    /\ Finish(t, "unavailable")
    /\ UNCHANGED <<server, cache, locks, known, history>>

Forget(token) ==
    /\ \/ Drop(OfToken(token)) /\ Owe(token, Namespaces, revision)
       \/ \E namespace \in Namespaces :
              Drop(OfNamespace(token, namespace)) /\ Owe(token, {namespace}, revision)
    /\ UNCHANGED <<server, locks, known, tasks, due, delivered>>
-----------------------------------------------------------------------------
(* The rest of the world.                                                  *)

Expire(key) ==
    /\ Fresh(key)
    /\ entries' = [entries EXCEPT ![key].fresh = FALSE]
    /\ due' = [due EXCEPT ![key] = revision]
    /\ UNCHANGED <<server, newer, known, locks, tasks, owed, delivered>>

(* A write by another client, by the person, or by this one's lost call.   *)
WriteElsewhere ==
    /\ revision < MaxRevision
    /\ revision' = revision + 1
    /\ UNCHANGED <<cache, locks, known, tasks, history>>

Receive(t) == ReceiveNotModified(t) \/ ReceiveDocument(t) \/ ReceiveRefusal(t) \/ Degrade(t)

SetReceive(t) == SetAcknowledged(t) \/ SetRejected(t) \/ SetLost(t)

Next ==
    \/ \E t \in Tasks, key \in Keys :
          /\ key \in Uses[t]
          /\ Hit(t, key) \/ Miss(t, key) \/ SetSend(t, key)
    \/ \E t \in Tasks : Resume(t) \/ Answer(t) \/ Receive(t) \/ Cancel(t)
    \/ \E t \in Tasks : SetLand(t) \/ SetReceive(t)
    \/ \E token \in Tokens : Forget(token)
    \/ \E key \in Keys : Expire(key)
    \/ WriteElsewhere

Spec == Init /\ [][Next]_vars

(* The event loop runs a task that is ready, and httpx's timeout ends a    *)
(* request that is not answered.                                           *)
FairSpec == Spec /\ \A t \in Tasks : /\ WF_vars(Resume(t))
                                     /\ WF_vars(Receive(t))
                                     /\ WF_vars(SetReceive(t))
-----------------------------------------------------------------------------
(* Properties.                                                             *)

Callers(key) == At(key, {"waiting", "asking", "answered"})

(* However many tasks want a key, at most one request for it is under way, *)
(* and it is the lock holder's: resolve's flight and its lock, through     *)
(* cancellations of the holder, of waiters and of the one woken.           *)
OneFetchPerKey == \A k \in Keys : Fetchers(k) \subseteq {holder[k]}

(* A key has a flight exactly while a resolve of it has not returned, and  *)
(* the lock is held exactly as long: the finally of resolve counts callers *)
(* down on every way out, a raise and a cancellation included.             *)
FlightsEndWithTheirCallers ==
    \A k \in Keys : /\ k \in flights <=> Callers(k) # {}
                    /\ k \in flights <=> holder[k] # Nobody

(* The cache holds no more entries than max_cached_tokens, whatever is     *)
(* inserted, used and dropped in between, and in whichever order.          *)
CacheIsBounded == Cardinality(Cached) <= MaxCached

(* What goes from the cache as an answer comes in.                         *)
EvictedBy(t) == {k \in Cached : /\ tasks[t].pc = "answered" /\ tasks'[t].pc = "idle"
                                /\ entries'[k] = NoEntry}

(* No step leaves more in the cache than the bound, and an answer drives   *)
(* an entry out of a full cache only, the one that was inserted or hit     *)
(* before all others: no other goes with it.                               *)
EvictionTakesTheOldest ==
    [][/\ CacheIsBounded'
       /\ \A t \in Tasks : \A k \in EvictedBy(t) :
             Cardinality(Cached) = MaxCached /\ Cached = {k} \cup newer[k]]_vars

(* A resolve that was under way answers with a document.                   *)
Delivers(t, outcomes) == /\ tasks[t].pc \in {"waiting", "asking", "answered"}
                         /\ tasks'[t].pc = "idle"
                         /\ tasks'[t].result \in outcomes

(* What resolve answers for a key is never older than an earlier answer    *)
(* of this client for it, from the cache, after a wait or in an outage:    *)
(* fetches of a key do not overlap, so no late answer undoes a newer one.  *)
AnswersNeverGoBack == [][\A k \in Keys : delivered'[k] >= delivered[k]]_vars

(* A fetch whose entry was dropped, or evicted, after it was sent.         *)
LostItsEntry(t) == /\ tasks[t].pc \in {"asking", "answered"}
                   /\ tasks[t].cached # NoEntry
                   /\ entries[tasks[t].key] = NoEntry

(* After set was acknowledged, or forget was called, with no fetch of the  *)
(* key under way, no resolve answers from before it, be it one that began  *)
(* earlier: every profile of the namespace is dropped.  A fetch that was   *)
(* under way does not bring the dropped entry back, with a 304 or in an    *)
(* outage: it caches nothing, or a document newer than that entry.  (One   *)
(* that is still older than the drop is ForgetMakesTheNextResolveAsk's.)   *)
ReadsFollowDrops ==
    [][/\ \A k \in Keys : Fresh(k) => entries[k].revision >= owed[k].clean
       /\ \A t \in Tasks : Delivers(t, {"document", "stale"})
                              => delivered'[tasks[t].key] >= owed[tasks[t].key].clean
       /\ \A t \in Tasks : LostItsEntry(t) =>
             \/ entries'[tasks[t].key] = NoEntry
             \/ entries'[tasks[t].key].revision > tasks[t].cached.revision]_vars

(* What was written before a key's entry ran out of its TTL, or before the *)
(* last request for it was sent, is in every answer that is not marked     *)
(* stale.  So a write this client could not see land, or saw only land in  *)
(* another namespace, is hidden for no longer than a TTL, and an outage    *)
(* never passes for an answer.                                             *)
FreshAnswersAreRecent ==
    [][/\ \A k \in Keys : Fresh(k) => entries[k].revision >= due[k]
       /\ \A t \in Tasks : Delivers(t, {"document"})
                              => delivered'[tasks[t].key] >= due[tasks[t].key]]_vars

(* Every resolve and set returns or raises: the lock is handed on whatever *)
(* becomes of its holder, and every request is answered or times out.      *)
ResolvesEnd == \A t \in Tasks : (tasks[t].pc # "idle") ~> (tasks[t].pc = "idle")

(* client.py on forget: "The next resolve for that token asks settings-api *)
(* again".  So what it answers is not from before the call, also when a    *)
(* fetch of the key is under way as its entry is dropped.                  *)
ForgetMakesTheNextResolveAsk ==
    \A k \in Keys : Fresh(k) => entries[k].revision >= owed[k].latest
=============================================================================
