----------------------- MODULE SettingsClient_proofs -----------------------
(***************************************************************************)
(* What the client's cache promises its readers: one request per key at a  *)
(* time, and answers that never go back.                                   *)
(*                                                                         *)
(* The second comes down to a floor under a key: a revision that nothing   *)
(* the client may still answer with is older than.  No step takes a floor  *)
(* away; a drop without a fetch under way puts one in, and so does every   *)
(* answer, as no other fetch of its key is under way.                      *)
(***************************************************************************)
EXTENDS SettingsClient, SequenceTheorems, FiniteSetTheorems, TLAPS

Floor(k, r) ==
    /\ r <= revision
    /\ entries[k] # NoEntry => r <= entries[k].revision
    /\ \A t \in Fetchers(k) :
          /\ tasks[t].cached # NoEntry => r <= tasks[t].cached.revision
          /\ tasks[t].pc = "answered" /\ tasks[t].answer # NotModified => r <= tasks[t].answer

(* The part of TypeOK that says nothing of a sequence.                     *)
Shape ==
    /\ revision \in 0..MaxRevision
    /\ entries \in [Keys -> Entry \cup {NoEntry}]
    /\ holder = [k \in Keys |-> holder[k]]
    /\ tasks \in [Tasks -> Idle \cup Waiting \cup Fetching \cup Answered \cup Writing]
    /\ owed \in [Keys -> Owed]
    /\ due \in [Keys -> 0..MaxRevision]
    /\ delivered \in [Keys -> 0..MaxRevision]

(* While a key is fetched its entry is not fresh, and is no older than     *)
(* what the request was sent with.                                         *)
FetchesAreNeeded ==
    /\ \A k \in Keys : Fresh(k) => Fetchers(k) = {}
    /\ \A k \in Keys : \A t \in Fetchers(k) :
          entries[k] # NoEntry /\ tasks[t].cached # NoEntry
              => tasks[t].cached.revision <= entries[k].revision

(* Nothing is newer than the server, and only a conditional request is     *)
(* answered 304.                                                           *)
NothingIsInvented ==
    /\ \A k \in Keys : /\ entries[k] # NoEntry => entries[k].revision <= revision
                       /\ owed[k].latest <= revision /\ owed[k].clean <= revision
                       /\ due[k] <= revision
    /\ \A k \in Keys : \A t \in Fetchers(k) :
          /\ tasks[t].cached # NoEntry => tasks[t].cached.revision <= revision
          /\ tasks[t].pc = "answered" =>
                IF tasks[t].answer = NotModified THEN tasks[t].cached # NoEntry
                                                 ELSE tasks[t].answer <= revision
    /\ \A t \in Tasks : tasks[t].pc = "written" => tasks[t].answer <= revision

FloorsHold == \A k \in Keys : Floor(k, delivered[k]) /\ Floor(k, owed[k].clean)

(* What is fresh, or about to be, is no older than the key is due.         *)
FreshIsRecent ==
    /\ \A k \in Keys : Fresh(k) => due[k] <= entries[k].revision
    /\ \A k \in Keys : \A t \in Fetchers(k) :
          tasks[t].pc = "answered" =>
             due[k] <= IF tasks[t].answer = NotModified THEN tasks[t].cached.revision
                                                        ELSE tasks[t].answer

(* A document is sent to a conditional request only if it is newer than    *)
(* the one the request names.                                              *)
DocumentsAreNews ==
    \A k \in Keys : \A t \in Fetchers(k) :
       (tasks[t].pc = "answered" /\ tasks[t].answer # NotModified /\ tasks[t].cached # NoEntry)
          => tasks[t].answer > tasks[t].cached.revision

(* The inductive invariant.                                                *)
CacheInv == /\ Shape /\ OneFetchPerKey /\ FetchesAreNeeded /\ NothingIsInvented
            /\ FloorsHold /\ FreshIsRecent
-----------------------------------------------------------------------------
(* What a task holds, by where it is.                                      *)
LEMMA TaskShape ==
    ASSUME Shape, NEW t \in Tasks
    PROVE  /\ tasks[t].pc \in {"idle", "waiting", "asking", "answered", "writing", "written"}
           /\ tasks[t].pc # "idle" => tasks[t].key \in Keys
           /\ tasks[t].pc \in {"asking", "answered"} => tasks[t].cached \in Entry \cup {NoEntry}
           /\ tasks[t].pc = "answered" => tasks[t].answer \in 0..MaxRevision \cup {NotModified}
           /\ tasks[t].pc \in {"writing", "written"} => tasks[t].answer \in 0..MaxRevision
BY DEF Shape, Idle, Waiting, Fetching, Answered, Writing

(* A record put in the place of a task's keeps the type, if it has it.     *)
LEMMA TasksTyped ==
    ASSUME Shape, NEW t \in Tasks,
           NEW r \in Idle \cup Waiting \cup Fetching \cup Answered \cup Writing
    PROVE  [tasks EXCEPT ![t] = r]
               \in [Tasks -> Idle \cup Waiting \cup Fetching \cup Answered \cup Writing]
BY DEF Shape

(* What is cached is an entry, and NoEntry is none.                        *)
LEMMA EntryTyped ==
    ASSUME NEW e \in Entry
    PROVE  e # NoEntry /\ e.revision \in 0..MaxRevision /\ e.revision \in Nat
BY NoEntryAssumption, BoundsAssumption DEF Entry

(* A task that returns or raises is idle, and holds a result.              *)
LEMMA FinishTyped ==
    ASSUME Shape, NEW t \in Tasks, NEW outcome \in Outcomes, Finish(t, outcome)
    PROVE  tasks' \in [Tasks -> Idle \cup Waiting \cup Fetching \cup Answered \cup Writing]
<1>1. [pc |-> "idle", result |-> outcome] \in Idle
  BY DEF Idle
<1> QED
  BY <1>1, TasksTyped DEF Finish

(* A task that asks holds the entry it asks with.                          *)
LEMMA AskTyped ==
    ASSUME Shape, NEW t \in Tasks, NEW key \in Keys, Ask(t, key)
    PROVE  /\ tasks' \in [Tasks -> Idle \cup Waiting \cup Fetching \cup Answered \cup Writing]
           /\ due' \in [Keys -> 0..MaxRevision]
<1>1. [pc |-> "asking", key |-> key, cached |-> entries[key]] \in Fetching
  BY DEF Fetching, Shape
<1>2. due' \in [Keys -> 0..MaxRevision]
  BY DEF Ask, Shape
<1> QED
  BY <1>1, <1>2, TasksTyped DEF Ask

(* A drop at a revision the server can be at leaves promises of the type.  *)
LEMMA OweTyped ==
    ASSUME Shape, NEW n \in 0..MaxRevision, NEW token, NEW namespaces,
           Owe(token, namespaces, n)
    PROVE  owed' \in [Keys -> Owed]
<1>1. \A k \in Keys : Later(owed[k].latest, n) \in 0..MaxRevision
                       /\ Later(owed[k].clean, n) \in 0..MaxRevision
                       /\ owed[k].clean \in 0..MaxRevision
  BY DEF Shape, Owed, Later
<1>2. \A k \in Keys : [latest |-> Later(owed[k].latest, n),
                       clean  |-> IF Fetchers(k) = {} THEN Later(owed[k].clean, n)
                                  ELSE owed[k].clean] \in Owed
  BY <1>1 DEF Owed
<1> QED
  BY <1>2 DEF Shape, Owe

(* Every action keeps the types; a 304 needs that it answers a conditional *)
(* request.                                                                *)
LEMMA ShapeStep ==
    ASSUME Shape, NothingIsInvented, [Next]_vars
    PROVE  Shape'
<1> USE DEF Shape, history
<1>1. ASSUME NEW t \in Tasks, NEW key \in Keys, Hit(t, key)
      PROVE  Shape'
  <2>1. entries[key].revision \in 0..MaxRevision
    BY <1>1, EntryTyped DEF Hit, Fresh
  <2>2. tasks' \in [Tasks -> Idle \cup Waiting \cup Fetching \cup Answered \cup Writing]
    BY <1>1, FinishTyped DEF Hit, Outcomes
  <2> QED
    BY <1>1, <2>1, <2>2 DEF Hit, server, locks
<1>2. ASSUME NEW t \in Tasks, NEW key \in Keys, Miss(t, key)
      PROVE  Shape'
  <2>1. CASE Ask(t, key)
    BY <1>2, <2>1, AskTyped DEF Miss, server, cache
  <2>2. CASE tasks' = [tasks EXCEPT ![t] = [pc |-> "waiting", key |-> key]] /\ due' = due
    <3>1. [pc |-> "waiting", key |-> key] \in Waiting
      BY DEF Waiting
    <3> QED
      BY <1>2, <2>2, <3>1, TasksTyped DEF Miss, server, cache
  <2> QED
    BY <1>2, <2>1, <2>2 DEF Miss
<1>3. ASSUME NEW t \in Tasks, NEW key \in Keys, SetSend(t, key)
      PROVE  Shape'
  <2>1. [pc |-> "writing", key |-> key, answer |-> 0] \in Writing
    BY BoundsAssumption DEF Writing
  <2> QED
    BY <1>3, <2>1, TasksTyped DEF SetSend, server, cache, locks
<1>4. ASSUME NEW t \in Tasks, Resume(t)
      PROVE  Shape'
  <2>1. tasks[t].key \in Keys
    BY <1>4, TaskShape DEF Resume
  <2>2. CASE ~Fresh(tasks[t].key) /\ Ask(t, tasks[t].key)
    BY <1>4, <2>1, <2>2, AskTyped DEF Resume, server, cache, locks
  <2>3. CASE Fresh(tasks[t].key) /\ Deliver(t, "document", entries[tasks[t].key].revision)
    <3>1. entries[tasks[t].key].revision \in 0..MaxRevision
      BY <2>1, <2>3, EntryTyped DEF Fresh
    <3>2. tasks' \in [Tasks -> Idle \cup Waiting \cup Fetching \cup Answered \cup Writing]
      BY <2>3, FinishTyped DEF Deliver, Outcomes
    <3> QED
      BY <1>4, <2>1, <2>3, <3>1, <3>2 DEF Resume, Deliver, Leave, server, cache
  <2> QED
    BY <1>4, <2>2, <2>3 DEF Resume
<1>5. ASSUME NEW t \in Tasks, Answer(t)
      PROVE  Shape'
  <2> DEFINE answered == [pc |-> "answered", key |-> tasks[t].key, cached |-> tasks[t].cached,
                          answer |-> IF tasks[t].cached # NoEntry
                                        /\ tasks[t].cached.revision = revision
                                     THEN NotModified ELSE revision]
  <2>1. answered \in Answered
    BY <1>5, TaskShape DEF Answer, Answered
  <2>2. tasks' = [tasks EXCEPT ![t] = answered]
    BY <1>5 DEF Answer
  <2> HIDE DEF answered
  <2> QED
    BY <1>5, <2>1, <2>2, TasksTyped DEF Answer, server, cache, locks
<1>6. ASSUME NEW t \in Tasks, Cancel(t)
      PROVE  Shape'
  <2>1. tasks' \in [Tasks -> Idle \cup Waiting \cup Fetching \cup Answered \cup Writing]
    BY <1>6, FinishTyped DEF Cancel, Outcomes
  <2>2. holder' = [k \in Keys |-> holder'[k]]
    BY <1>6 DEF Cancel, Leave, locks
  <2> QED
    BY <1>6, <2>1, <2>2 DEF Cancel, server, cache
<1>7. ASSUME NEW t \in Tasks, SetLand(t)
      PROVE  Shape'
  <2>1. revision' \in 0..MaxRevision
    BY <1>7, BoundsAssumption DEF SetLand
  <2>2. tasks[t] \in Writing
    BY <1>7 DEF SetLand, Idle, Waiting, Fetching, Answered, Writing
  <2>3. [tasks[t] EXCEPT !.pc = "written", !.answer = revision'] \in Writing
    BY <2>1, <2>2 DEF Writing
  <2>4. tasks' = [tasks EXCEPT ![t] = [tasks[t] EXCEPT !.pc = "written", !.answer = revision']]
    BY <1>7 DEF SetLand
  <2> QED
    BY <1>7, <2>1, <2>3, <2>4, TasksTyped DEF SetLand, cache, locks
<1>8. ASSUME NEW t \in Tasks, SetReceive(t)
      PROVE  Shape'
  <2>1. tasks' \in [Tasks -> Idle \cup Waiting \cup Fetching \cup Answered \cup Writing]
    BY <1>8, FinishTyped DEF SetReceive, SetAcknowledged, SetRejected, SetLost, Outcomes
  <2>2. CASE SetAcknowledged(t)
    <3>1. tasks[t].answer \in 0..MaxRevision
      BY <2>2, TaskShape DEF SetAcknowledged
    <3>2. owed' \in [Keys -> Owed]
      BY <2>2, <3>1, OweTyped DEF SetAcknowledged
    <3>3. entries' \in [Keys -> Entry \cup {NoEntry}]
      BY <2>2 DEF SetAcknowledged, Drop
    <3> QED
      BY <2>1, <2>2, <3>2, <3>3 DEF SetAcknowledged, server, locks
  <2>3. CASE SetRejected(t) \/ SetLost(t)
    BY <2>1, <2>3 DEF SetRejected, SetLost, server, cache, locks
  <2> QED
    BY <1>8, <2>2, <2>3 DEF SetReceive
<1>9. ASSUME NEW token \in Tokens, Forget(token)
      PROVE  Shape'
  <2>1. entries' \in [Keys -> Entry \cup {NoEntry}]
    BY <1>9 DEF Forget, Drop
  <2>2. owed' \in [Keys -> Owed]
    BY <1>9, OweTyped DEF Forget
  <2> QED
    BY <1>9, <2>1, <2>2 DEF Forget, server, locks
<1>10. ASSUME NEW key \in Keys, Expire(key)
       PROVE  Shape'
  <2>1. [entries[key] EXCEPT !.fresh = FALSE] \in Entry
    BY <1>10 DEF Expire, Fresh, Entry
  <2>2. entries' = [entries EXCEPT ![key] = [entries[key] EXCEPT !.fresh = FALSE]]
    BY <1>10 DEF Expire
  <2> QED
    BY <1>10, <2>1, <2>2 DEF Expire, server, locks
<1>11. ASSUME WriteElsewhere
       PROVE  Shape'
  BY <1>11, BoundsAssumption DEF WriteElsewhere, cache, locks
<1>12. ASSUME NEW t \in Tasks, ReceiveNotModified(t)
       PROVE  Shape'
  <2>1. tasks[t].key \in Keys /\ tasks[t].cached \in Entry \cup {NoEntry}
    BY <1>12, TaskShape DEF ReceiveNotModified
  <2>2. tasks[t].cached # NoEntry
    BY <1>12, <2>1 DEF ReceiveNotModified, NothingIsInvented, Fetchers, At
  <2>3. tasks[t].cached.revision \in 0..MaxRevision
    BY <2>1, <2>2, EntryTyped
  <2>4. entries' \in [Keys -> Entry \cup {NoEntry}]
    <3>1. entries[tasks[t].key] # NoEntry
              => [entries[tasks[t].key] EXCEPT !.fresh = TRUE] \in Entry
      BY <2>1 DEF Entry
    <3> QED
      BY <1>12, <2>1, <3>1 DEF ReceiveNotModified
  <2>5. tasks' \in [Tasks -> Idle \cup Waiting \cup Fetching \cup Answered \cup Writing]
    BY <1>12, FinishTyped DEF ReceiveNotModified, Deliver, Outcomes
  <2> QED
    BY <1>12, <2>1, <2>3, <2>4, <2>5 DEF ReceiveNotModified, Deliver, Leave, server
<1>13. ASSUME NEW t \in Tasks, ReceiveDocument(t)
       PROVE  Shape'
  <2>1. tasks[t].key \in Keys /\ tasks[t].answer \in 0..MaxRevision
    BY <1>13, TaskShape DEF ReceiveDocument
  <2>2. [revision |-> tasks[t].answer, fresh |-> TRUE] \in Entry
    BY <2>1 DEF Entry
  <2>3. entries' \in [Keys -> Entry \cup {NoEntry}]
    BY <1>13, <2>1, <2>2 DEF ReceiveDocument, Remember
  <2>4. tasks' \in [Tasks -> Idle \cup Waiting \cup Fetching \cup Answered \cup Writing]
    BY <1>13, FinishTyped DEF ReceiveDocument, Deliver, Outcomes
  <2> QED
    BY <1>13, <2>1, <2>3, <2>4 DEF ReceiveDocument, Deliver, Leave, server
<1>14. ASSUME NEW t \in Tasks, ReceiveRefusal(t) \/ Degrade(t)
       PROVE  Shape'
  <2>1. tasks' \in [Tasks -> Idle \cup Waiting \cup Fetching \cup Answered \cup Writing]
    BY <1>14, FinishTyped DEF ReceiveRefusal, Degrade, Deliver, Outcomes
  <2>2. delivered' \in [Keys -> 0..MaxRevision]
    <3>1. tasks[t].cached \in Entry \cup {NoEntry}
      BY <1>14, TaskShape DEF ReceiveRefusal, Degrade
    <3>2. tasks[t].cached # NoEntry => tasks[t].cached.revision \in 0..MaxRevision
      BY <3>1, EntryTyped
    <3> QED
      BY <1>14, <3>2 DEF ReceiveRefusal, Degrade, Deliver
  <2> QED
    BY <1>14, <2>1, <2>2 DEF ReceiveRefusal, Degrade, Leave, server, cache
<1>15. CASE UNCHANGED vars
  BY <1>15 DEF vars
<1> QED
  BY <1>1, <1>2, <1>3, <1>4, <1>5, <1>6, <1>7, <1>8, <1>9, <1>10, <1>11, <1>12, <1>13, <1>14, <1>15
     DEF Next, Receive

(* How a step may touch the entries and the fetches.  A quiet step begins  *)
(* no fetch, changes none, and only takes entries away or renews them.     *)
Quiet ==
    /\ revision <= revision'
    /\ \A k \in Keys : entries'[k] # NoEntry =>
          entries[k] # NoEntry /\ entries'[k].revision = entries[k].revision
    /\ \A k \in Keys : \A u \in Fetchers(k)' : u \in Fetchers(k) /\ tasks'[u] = tasks[u]

(* A step by which a task comes to ask for a key.                          *)
Asks(t, key) ==
    /\ tasks[t].pc \in {"idle", "waiting"}
    /\ ~Fresh(key)
    /\ Fetchers(key) \subseteq {holder'[key]}
    /\ holder'[key] = t
    /\ Ask(t, key)
    /\ \A k \in Keys \ {key} : holder'[k] = holder[k]
    /\ UNCHANGED <<revision, entries, owed, delivered>>

(* Who returns or raises is no longer fetching; the others go on as they   *)
(* were.                                                                   *)
LEMMA FinishIsQuiet ==
    ASSUME Shape, NEW t \in Tasks, NEW outcome, Finish(t, outcome)
    PROVE  \A k \in Keys : /\ Fetchers(k)' = Fetchers(k) \ {t}
                           /\ \A u \in Fetchers(k)' : tasks'[u] = tasks[u]
BY DEF Finish, Fetchers, At, Shape

(* A 304 renews an entry that is there, and brings none back.              *)
LEMMA RenewedOnly ==
    ASSUME Shape, NEW key \in Keys,
           entries' = [entries EXCEPT ![key] = IF @ = NoEntry THEN @ ELSE [@ EXCEPT !.fresh = TRUE]]
    PROVE  \A k \in Keys : entries'[k] # NoEntry =>
              entries[k] # NoEntry /\ entries'[k].revision = entries[k].revision
BY EntryTyped DEF Shape, Entry

(* Every step of the client is quiet, begins a fetch, or is one of the two *)
(* that carry an answer.                                                   *)
LEMMA StepKinds ==
    ASSUME Shape, OneFetchPerKey, [Next]_vars
    PROVE  \/ Quiet
           \/ \E t \in Tasks, key \in Keys : Asks(t, key)
           \/ \E t \in Tasks : Answer(t) \/ ReceiveDocument(t)
<1>0. revision \in Int
  BY BoundsAssumption DEF Shape
<1>1. ASSUME NEW t \in Tasks, NEW key \in Keys, Hit(t, key)
      PROVE  Quiet
  BY <1>0, <1>1, FinishIsQuiet DEF Hit, Quiet, server
<1>2. ASSUME NEW t \in Tasks, NEW key \in Keys, Miss(t, key)
      PROVE  Quiet \/ Asks(t, key)
  <2>1. CASE holder[key] = Nobody /\ Ask(t, key) /\ holder' = [holder EXCEPT ![key] = t]
    <3>1. Fetchers(key) = {}
      BY <2>1, NobodyAssumption DEF OneFetchPerKey, Fetchers, At
    <3> QED
      BY <1>2, <2>1, <3>1 DEF Miss, Asks, Shape, server, cache
  <2>2. CASE tasks' = [tasks EXCEPT ![t] = [pc |-> "waiting", key |-> key]]
    BY <1>0, <1>2, <2>2 DEF Miss, Quiet, Fetchers, At, Shape, server, cache
  <2> QED
    BY <1>2, <2>1, <2>2 DEF Miss
<1>3. ASSUME NEW t \in Tasks, NEW key \in Keys, SetSend(t, key)
      PROVE  Quiet
  BY <1>0, <1>3 DEF SetSend, Quiet, Fetchers, At, Shape, server, cache
<1>4. ASSUME NEW t \in Tasks, Resume(t)
      PROVE  Quiet \/ Asks(t, tasks[t].key)
  <2>1. /\ tasks[t].key \in Keys
        /\ tasks[t].pc = "waiting" /\ holder[tasks[t].key] = t
    BY <1>4, TaskShape DEF Resume
  <2>2. CASE ~Fresh(tasks[t].key) /\ Ask(t, tasks[t].key) /\ UNCHANGED <<locks, delivered>>
    BY <1>4, <2>1, <2>2 DEF Resume, Asks, OneFetchPerKey, server, cache, locks
  <2>3. CASE Deliver(t, "document", entries[tasks[t].key].revision)
    BY <1>0, <1>4, <2>3, FinishIsQuiet DEF Resume, Deliver, Quiet, server, cache
  <2> QED
    BY <1>4, <2>2, <2>3 DEF Resume
<1>5. ASSUME NEW t \in Tasks, Cancel(t)
      PROVE  Quiet
  BY <1>0, <1>5, FinishIsQuiet DEF Cancel, Quiet, server, cache
<1>6. ASSUME NEW t \in Tasks, SetLand(t)
      PROVE  Quiet
  <2>1. tasks[t] \in Writing
    BY <1>6 DEF SetLand, Shape, Idle, Waiting, Fetching, Answered, Writing
  <2>2. tasks'[t].pc = "written" /\ \A u \in Tasks \ {t} : tasks'[u] = tasks[u]
    BY <1>6, <2>1 DEF SetLand, Shape, Writing
  <2>3. revision <= revision'
    BY <1>0, <1>6 DEF SetLand
  <2>4. \A k \in Keys : \A u \in Fetchers(k)' : u \in Fetchers(k) /\ tasks'[u] = tasks[u]
    BY <2>2 DEF Fetchers, At
  <2> QED
    BY <1>6, <2>3, <2>4 DEF SetLand, Quiet, cache
<1>7. ASSUME NEW t \in Tasks, SetReceive(t)
      PROVE  Quiet
  <2>1. \A k \in Keys : \A u \in Fetchers(k)' : u \in Fetchers(k) /\ tasks'[u] = tasks[u]
    BY <1>7, FinishIsQuiet DEF SetReceive, SetAcknowledged, SetRejected, SetLost
  <2>2. \A k \in Keys : entries'[k] # NoEntry => entries'[k] = entries[k]
    BY <1>7 DEF SetReceive, SetAcknowledged, SetRejected, SetLost, Drop, cache
  <2> QED
    BY <1>0, <1>7, <2>1, <2>2 DEF SetReceive, SetAcknowledged, SetRejected, SetLost, Quiet, server
<1>8. ASSUME NEW token \in Tokens, Forget(token)
      PROVE  Quiet
  <2>1. \A k \in Keys : entries'[k] # NoEntry => entries'[k] = entries[k]
    BY <1>8 DEF Forget, Drop
  <2> QED
    BY <1>0, <1>8, <2>1 DEF Forget, Quiet, Fetchers, At, server
<1>9. ASSUME NEW key \in Keys, Expire(key)
      PROVE  Quiet
  <2>1. \A k \in Keys : entries'[k] # NoEntry =>
           entries[k] # NoEntry /\ entries'[k].revision = entries[k].revision
    BY <1>9 DEF Expire, Fresh, Shape, Entry
  <2> QED
    BY <1>0, <1>9, <2>1 DEF Expire, Quiet, Fetchers, At, server, locks
<1>10. ASSUME WriteElsewhere
       PROVE  Quiet
  BY <1>0, <1>10 DEF WriteElsewhere, Quiet, Fetchers, At, cache
<1>11. ASSUME NEW t \in Tasks, ReceiveNotModified(t)
       PROVE  Quiet
  <2>1. tasks[t].key \in Keys
    BY <1>11, TaskShape DEF ReceiveNotModified
  <2> QED
    BY <1>0, <1>11, <2>1, RenewedOnly, FinishIsQuiet DEF ReceiveNotModified, Deliver, Quiet, server
<1>12. ASSUME NEW t \in Tasks, ReceiveRefusal(t) \/ Degrade(t)
       PROVE  Quiet
  BY <1>0, <1>12, FinishIsQuiet DEF ReceiveRefusal, Degrade, Deliver, Quiet, server, cache
<1>13. CASE UNCHANGED vars
  BY <1>0, <1>13 DEF vars, Quiet, Fetchers, At
<1> QED
  <2>1. CASE \E t \in Tasks : Resume(t)
    BY <2>1, <1>4, TaskShape DEF Resume
  <2> QED
    BY <2>1, <1>1, <1>2, <1>3, <1>5, <1>6, <1>7, <1>8, <1>9, <1>10, <1>11, <1>12, <1>13
       DEF Next, Receive

(* No step takes a floor away.                                             *)
LEMMA FloorStable ==
    ASSUME CacheInv, [Next]_vars, NEW k \in Keys, NEW r \in Nat, Floor(k, r)
    PROVE  Floor(k, r)'
<1> USE DEF CacheInv
<1>0. revision \in Nat /\ revision' \in Nat
  BY ShapeStep, BoundsAssumption DEF Shape
<1>1. CASE Quiet
  BY <1>0, <1>1, EntryTyped DEF Quiet, Floor, Shape
<1>2. ASSUME NEW t \in Tasks, NEW key \in Keys, Asks(t, key)
      PROVE  Floor(k, r)'
  <2>1. \A u \in Fetchers(k)' : \/ u \in Fetchers(k) /\ tasks'[u] = tasks[u]
                                \/ /\ k = key
                                   /\ tasks'[u].pc = "asking"
                                   /\ tasks'[u].cached = entries[key]
    BY <1>2 DEF Asks, Ask, Fetchers, At, Shape
  <2> QED
    BY <1>2, <2>1 DEF Asks, Floor
<1>3. ASSUME NEW t \in Tasks, Answer(t)
      PROVE  Floor(k, r)'
  <2>1. \A u \in Tasks \ {t} : tasks'[u] = tasks[u]
    BY <1>3 DEF Answer, Shape
  <2>2. /\ tasks'[t].key = tasks[t].key /\ tasks'[t].pc = "answered"
        /\ tasks'[t].cached = tasks[t].cached
        /\ tasks'[t].answer \in {NotModified, revision}
    BY <1>3 DEF Answer, Shape
  <2>3. \A u \in Fetchers(k)' : u \in Fetchers(k)
    BY <1>3, <2>1, <2>2 DEF Answer, Fetchers, At
  <2>4. revision' = revision /\ entries' = entries
    BY <1>3 DEF Answer, server, cache
  <2>5. \A u \in Fetchers(k)' :
           /\ tasks'[u].cached # NoEntry => r <= tasks'[u].cached.revision
           /\ tasks'[u].pc = "answered" /\ tasks'[u].answer # NotModified => r <= tasks'[u].answer
    <3> TAKE u \in Fetchers(k)'
    <3>1. u \in Tasks /\ u \in Fetchers(k)
      BY <2>3 DEF Fetchers, At
    <3>2. CASE u = t
      BY <2>2, <3>1, <3>2 DEF Floor
    <3>3. CASE u # t
      BY <2>1, <3>1, <3>3 DEF Floor
    <3> QED
      BY <3>2, <3>3
  <2> QED
    BY <2>4, <2>5 DEF Floor
<1>4. ASSUME NEW t \in Tasks, ReceiveDocument(t)
      PROVE  Floor(k, r)'
  <2>1. t \in Fetchers(tasks[t].key) /\ tasks[t].key \in Keys
    BY <1>4, TaskShape DEF ReceiveDocument, Fetchers, At
  <2>2. \A u \in Fetchers(k)' : u \in Fetchers(k) /\ tasks'[u] = tasks[u]
    BY <1>4, FinishIsQuiet DEF ReceiveDocument, Deliver
  <2>3. entries'[k] # NoEntry =>
           \/ k = tasks[t].key /\ entries'[k].revision = tasks[t].answer
           \/ entries'[k] = entries[k]
    BY <1>4, <2>1 DEF ReceiveDocument, Remember
  <2>4. revision' = revision
    BY <1>4 DEF ReceiveDocument, server
  <2>5. k = tasks[t].key => r <= tasks[t].answer
    BY <1>4, <2>1 DEF Floor, ReceiveDocument
  <2> QED
    BY <2>2, <2>3, <2>4, <2>5 DEF Floor
<1> QED
  BY <1>1, <1>2, <1>3, <1>4, StepKinds

(* The lock keeps the fetches of a key apart through every action: it is   *)
(* taken when free, and passed on only by the task that has it.            *)
LEMMA OneFetchStep ==
    ASSUME CacheInv, [Next]_vars
    PROVE  OneFetchPerKey'
<1> USE DEF CacheInv
<1>2. ASSUME NEW t \in Tasks, NEW outcome, Finish(t, outcome), tasks[t].key \in Keys,
             holder[tasks[t].key] = t, Leave(tasks[t].key)
      PROVE  OneFetchPerKey'
  BY <1>2, FinishIsQuiet DEF OneFetchPerKey, Leave, Shape
<1>4. ASSUME NEW t \in Tasks, Answer(t)
      PROVE  OneFetchPerKey'
  <2>1. \A k \in Keys : Fetchers(k)' = Fetchers(k)
    BY <1>4 DEF Answer, Fetchers, At, Shape
  <2> QED
    BY <1>4, <2>1 DEF Answer, locks, OneFetchPerKey
<1>5. ASSUME NEW t \in Tasks, Receive(t)
      PROVE  OneFetchPerKey'
  <2>1. tasks[t].key \in Keys /\ t \in Fetchers(tasks[t].key)
    BY <1>5, TaskShape
       DEF Receive, ReceiveNotModified, ReceiveDocument, ReceiveRefusal, Degrade, Fetchers, At
  <2>2. holder[tasks[t].key] = t
    BY <2>1 DEF OneFetchPerKey
  <2>3. Leave(tasks[t].key) /\ \E outcome \in Outcomes : Finish(t, outcome)
    BY <1>5 DEF Receive, ReceiveNotModified, ReceiveDocument, ReceiveRefusal, Degrade, Deliver,
                Outcomes
  <2> QED
    BY <1>2, <2>1, <2>2, <2>3
<1>6. ASSUME NEW t \in Tasks, Resume(t)
      PROVE  OneFetchPerKey'
  <2>1. tasks[t].key \in Keys /\ holder[tasks[t].key] = t
    BY <1>6, TaskShape DEF Resume
  <2>2. CASE Deliver(t, "document", entries[tasks[t].key].revision) /\ Leave(tasks[t].key)
    BY <1>2, <2>1, <2>2 DEF Deliver
  <2>3. CASE Ask(t, tasks[t].key) /\ UNCHANGED locks
    BY <2>1, <2>3 DEF Ask, locks, OneFetchPerKey, Fetchers, At, Shape
  <2> QED
    BY <1>6, <2>2, <2>3 DEF Resume
<1>7. ASSUME NEW t \in Tasks, Cancel(t)
      PROVE  OneFetchPerKey'
  <2>1. tasks[t].key \in Keys /\ Finish(t, "cancelled")
    BY <1>7, TaskShape DEF Cancel
  <2>2. CASE holder' = holder
    BY <2>1, <2>2, FinishIsQuiet DEF OneFetchPerKey
  <2>3. CASE holder[tasks[t].key] = t /\ Leave(tasks[t].key)
    BY <1>2, <2>1, <2>3
  <2> QED
    BY <1>7, <2>2, <2>3 DEF Cancel, locks
<1>8. ASSUME NEW t \in Tasks, SetLand(t) \/ SetReceive(t)
      PROVE  OneFetchPerKey'
  <2>1. holder' = holder
    BY <1>8 DEF SetLand, SetReceive, SetAcknowledged, SetRejected, SetLost, locks
  <2>2. SetReceive(t) => OneFetchPerKey'
    BY <2>1, FinishIsQuiet DEF SetReceive, SetAcknowledged, SetRejected, SetLost, OneFetchPerKey
  <2>3. SetLand(t) => \A k \in Keys : Fetchers(k)' \subseteq Fetchers(k)
    <3>1. SetLand(t) => tasks[t] \in Writing
      BY DEF SetLand, Shape, Idle, Waiting, Fetching, Answered, Writing
    <3>2. SetLand(t) => tasks'[t].pc = "written" /\ \A u \in Tasks \ {t} : tasks'[u] = tasks[u]
      BY <3>1 DEF SetLand, Shape, Writing
    <3> QED
      BY <3>2 DEF Fetchers, At
  <2> QED
    BY <1>8, <2>1, <2>2, <2>3 DEF OneFetchPerKey
<1>9. ASSUME NEW t \in Tasks, NEW key \in Keys, Hit(t, key) \/ Miss(t, key) \/ SetSend(t, key)
      PROVE  OneFetchPerKey'
  <2>1. Hit(t, key) => OneFetchPerKey'
    BY FinishIsQuiet DEF Hit, locks, OneFetchPerKey
  <2>2. SetSend(t, key) => OneFetchPerKey'
    BY DEF SetSend, locks, OneFetchPerKey, Fetchers, At, Shape
  <2>3. CASE holder[key] = Nobody /\ Ask(t, key) /\ holder' = [holder EXCEPT ![key] = t]
    BY <2>3, NobodyAssumption DEF Ask, OneFetchPerKey, Fetchers, At, Shape
  <2>4. CASE holder' = holder /\ tasks' = [tasks EXCEPT ![t] = [pc |-> "waiting", key |-> key]]
    BY <2>4 DEF OneFetchPerKey, Fetchers, At, Shape
  <2> QED
    BY <1>9, <2>1, <2>2, <2>3, <2>4 DEF Miss
<1>10. ASSUME UNCHANGED <<tasks, holder>>
       PROVE  OneFetchPerKey'
  BY <1>10 DEF OneFetchPerKey, Fetchers, At
<1>11. ASSUME \/ \E token \in Tokens : Forget(token)
              \/ \E key \in Keys : Expire(key)
              \/ WriteElsewhere \/ UNCHANGED vars
       PROVE  UNCHANGED <<tasks, holder>>
  BY <1>11 DEF Forget, Expire, WriteElsewhere, locks, vars
<1> QED
  BY <1>4, <1>5, <1>6, <1>7, <1>8, <1>9, <1>10, <1>11 DEF Next

(* Entries only become fresh by the answer to a fetch of their key.        *)
LEMMA FreshByWhom ==
    ASSUME CacheInv, [Next]_vars, NEW k \in Keys, Fresh(k)', ~Fresh(k)
    PROVE  \E t \in Tasks : /\ ReceiveNotModified(t) \/ ReceiveDocument(t)
                            /\ tasks[t].key = k
<1> USE DEF CacheInv
<1>1. ASSUME NEW t \in Tasks, ReceiveNotModified(t) \/ ReceiveDocument(t)
      PROVE  tasks[t].key = k
  <2>1. tasks[t].key \in Keys
    BY <1>1, TaskShape DEF ReceiveNotModified, ReceiveDocument
  <2>2. k # tasks[t].key => (entries'[k] = entries[k] \/ entries'[k] = NoEntry)
    BY <1>1, <2>1 DEF ReceiveNotModified, ReceiveDocument, Remember, Shape
  <2> QED
    BY <2>2 DEF Fresh
<1>2. ASSUME entries'[k] = entries[k] \/ entries'[k] = NoEntry
      PROVE  FALSE
  BY <1>2 DEF Fresh
<1>3. ASSUME NEW key \in Keys, Expire(key)
      PROVE  FALSE
  BY <1>3 DEF Expire, Fresh, Shape, Entry
<1>4. ASSUME NEW t \in Tasks, NEW key \in Keys, Hit(t, key) \/ Miss(t, key) \/ SetSend(t, key)
      PROVE  FALSE
  BY <1>2, <1>4 DEF Hit, Miss, SetSend, cache
<1>5. ASSUME NEW t \in Tasks,
             \/ Resume(t) \/ Answer(t) \/ ReceiveRefusal(t) \/ Degrade(t) \/ Cancel(t)
             \/ SetLand(t) \/ SetReceive(t)
      PROVE  FALSE
  BY <1>2, <1>5 DEF Resume, Answer, ReceiveRefusal, Degrade, Cancel, SetLand, SetReceive,
                    SetAcknowledged, SetRejected, SetLost, Drop, cache
<1>6. ASSUME \/ \E token \in Tokens : Forget(token)
             \/ WriteElsewhere \/ UNCHANGED vars
      PROVE  FALSE
  BY <1>2, <1>6 DEF Forget, Drop, WriteElsewhere, cache, vars
<1> QED
  BY <1>1, <1>3, <1>4, <1>5, <1>6 DEF Next, Receive

(* And that fetch was the only one of the key.                             *)
LEMMA FreshOnlyByReceiving ==
    ASSUME CacheInv, [Next]_vars, NEW k \in Keys, Fresh(k)', ~Fresh(k)
    PROVE  Fetchers(k)' = {}
<1> USE DEF CacheInv
<1>1. PICK t \in Tasks : (ReceiveNotModified(t) \/ ReceiveDocument(t)) /\ tasks[t].key = k
  BY FreshByWhom
<1>2. t \in Fetchers(k)
  BY <1>1 DEF ReceiveNotModified, ReceiveDocument, Fetchers, At
<1>3. Fetchers(k)' = Fetchers(k) \ {t}
  BY <1>1, FinishIsQuiet DEF ReceiveNotModified, ReceiveDocument, Deliver
<1> QED
  BY <1>2, <1>3 DEF OneFetchPerKey

(* Every step keeps a key that is fetched unfresh, and its entry no older  *)
(* than the one the request was sent with.                                 *)
LEMMA FetchesStep ==
    ASSUME CacheInv, [Next]_vars
    PROVE  FetchesAreNeeded'
<1> USE DEF CacheInv
<1>1. CASE Quiet
  <2>1. \A k \in Keys : Fresh(k)' => Fetchers(k)' = {}
    BY <1>1, FreshOnlyByReceiving DEF Quiet, FetchesAreNeeded
  <2> QED
    BY <1>1, <2>1 DEF Quiet, FetchesAreNeeded
<1>2. ASSUME NEW t \in Tasks, NEW key \in Keys, Asks(t, key)
      PROVE  FetchesAreNeeded'
  <2>1. \A k \in Keys : \A u \in Fetchers(k)' :
           \/ u \in Fetchers(k) /\ tasks'[u] = tasks[u]
           \/ k = key /\ tasks'[u].cached = entries[key]
    BY <1>2 DEF Asks, Ask, Fetchers, At, Shape
  <2>2. \A k \in Keys : Fresh(k)' => Fetchers(k)' = {}
    BY <1>2, <2>1 DEF Asks, Fresh, FetchesAreNeeded
  <2>3. \A k \in Keys : entries[k] # NoEntry => entries[k].revision <= entries[k].revision
    BY EntryTyped DEF Shape
  <2> QED
    BY <1>2, <2>1, <2>2, <2>3 DEF Asks, FetchesAreNeeded
<1>3. ASSUME NEW t \in Tasks, Answer(t)
      PROVE  FetchesAreNeeded'
  <2>1. \A k \in Keys : \A u \in Fetchers(k)' :
           u \in Fetchers(k) /\ tasks'[u].cached = tasks[u].cached
    BY <1>3 DEF Answer, Fetchers, At, Shape
  <2>2. entries' = entries
    BY <1>3 DEF Answer, cache
  <2> QED
    BY <2>1, <2>2 DEF FetchesAreNeeded, Fresh
<1>4. ASSUME NEW t \in Tasks, ReceiveDocument(t)
      PROVE  FetchesAreNeeded'
  <2>1. t \in Fetchers(tasks[t].key) /\ tasks[t].key \in Keys
    BY <1>4, TaskShape DEF ReceiveDocument, Fetchers, At
  <2>2. \A k \in Keys : \A u \in Fetchers(k)' : u \in Fetchers(k) \ {t} /\ tasks'[u] = tasks[u]
    BY <1>4, FinishIsQuiet DEF ReceiveDocument, Deliver
  <2>3. \A k \in Keys : k = tasks[t].key => Fetchers(k)' = {}
    BY <2>1, <2>2 DEF OneFetchPerKey
  <2>4. \A k \in Keys : k # tasks[t].key => entries'[k] \in {entries[k], NoEntry}
    BY <1>4, <2>1 DEF ReceiveDocument, Remember
  <2> QED
    BY <2>2, <2>3, <2>4 DEF FetchesAreNeeded, Fresh
<1> QED
  BY <1>1, <1>2, <1>3, <1>4, StepKinds

(* What drops promise is what the server was at, or what it had promised;  *)
(* and only a drop without a fetch under way raises the clean promise.     *)
LEMMA OwedStep ==
    ASSUME CacheInv, [Next]_vars
    PROVE  \A k \in Keys :
              \/ owed'[k] = owed[k]
              \/ /\ owed'[k].latest <= revision /\ owed'[k].clean <= revision
                 /\ owed'[k].clean # owed[k].clean => Fetchers(k)' = {}
                 /\ revision' = revision /\ entries'[k] = NoEntry
<1> USE DEF CacheInv
<1>1. ASSUME NEW token, NEW namespaces, NEW n \in 0..MaxRevision, n <= revision,
             Owe(token, namespaces, n), NEW k \in Keys, owed'[k] # owed[k]
      PROVE  /\ owed'[k].latest <= revision /\ owed'[k].clean <= revision
             /\ owed'[k].clean # owed[k].clean => Fetchers(k) = {}
             /\ TokenOf(k) = token /\ NamespaceOf(k) \in namespaces
  <2>1. owed[k].latest <= revision /\ owed[k].clean <= revision
    BY DEF NothingIsInvented
  <2>2. owed'[k] = [latest |-> Later(owed[k].latest, n),
                    clean  |-> IF Fetchers(k) = {} THEN Later(owed[k].clean, n) ELSE owed[k].clean]
           /\ TokenOf(k) = token /\ NamespaceOf(k) \in namespaces
    BY <1>1 DEF Owe
  <2>3. /\ owed'[k].latest = Later(owed[k].latest, n)
        /\ Fetchers(k) = {} => owed'[k].clean = Later(owed[k].clean, n)
        /\ Fetchers(k) # {} => owed'[k].clean = owed[k].clean
    BY <2>2
  <2>4. /\ Later(owed[k].latest, n) \in {owed[k].latest, n}
        /\ Later(owed[k].clean, n) \in {owed[k].clean, n}
    BY DEF Later
  <2> QED
    BY <1>1, <2>1, <2>2, <2>3, <2>4
<1>2. ASSUME NEW token \in Tokens, Forget(token), NEW k \in Keys, owed'[k] # owed[k]
      PROVE  /\ owed'[k].latest <= revision /\ owed'[k].clean <= revision
             /\ owed'[k].clean # owed[k].clean => Fetchers(k)' = {}
             /\ revision' = revision /\ entries'[k] = NoEntry
  <2>1. revision \in 0..MaxRevision /\ revision <= revision
    BY BoundsAssumption DEF Shape
  <2>2. NamespaceOf(k) \in Namespaces
    BY KeysAssumption DEF NamespaceOf
  <2>3. revision' = revision /\ Fetchers(k)' = Fetchers(k)
    BY <1>2 DEF Forget, server, Fetchers, At
  <2>4. CASE Drop(OfToken(token)) /\ Owe(token, Namespaces, revision)
    BY <1>1, <1>2, <2>1, <2>3, <2>4 DEF Drop, OfToken
  <2>5. ASSUME NEW namespace \in Namespaces,
               Drop(OfNamespace(token, namespace)), Owe(token, {namespace}, revision)
        PROVE  /\ owed'[k].latest <= revision /\ owed'[k].clean <= revision
               /\ owed'[k].clean # owed[k].clean => Fetchers(k)' = {}
               /\ revision' = revision /\ entries'[k] = NoEntry
    BY <1>1, <1>2, <2>1, <2>3, <2>5 DEF Drop, OfNamespace, OfToken
  <2> QED
    BY <1>2, <2>4, <2>5 DEF Forget
<1>3. ASSUME NEW t \in Tasks, SetAcknowledged(t), NEW k \in Keys, owed'[k] # owed[k]
      PROVE  /\ owed'[k].latest <= revision /\ owed'[k].clean <= revision
             /\ owed'[k].clean # owed[k].clean => Fetchers(k)' = {}
             /\ revision' = revision /\ entries'[k] = NoEntry
  <2>1. tasks[t].answer \in 0..MaxRevision /\ tasks[t].answer <= revision
    BY <1>3, TaskShape DEF SetAcknowledged, NothingIsInvented
  <2>2. revision' = revision /\ Fetchers(k)' \subseteq Fetchers(k)
    BY <1>3, FinishIsQuiet DEF SetAcknowledged, server
  <2> DEFINE token == TokenOf(tasks[t].key)
             namespace == NamespaceOf(tasks[t].key)
  <2>3. Drop(OfNamespace(token, namespace)) /\ Owe(token, {namespace}, tasks[t].answer)
    BY <1>3 DEF SetAcknowledged
  <2> HIDE DEF token, namespace
  <2> QED
    BY <1>1, <1>3, <2>1, <2>2, <2>3 DEF Drop, OfNamespace, OfToken
<1>4. ASSUME owed' = owed
      PROVE  \A k \in Keys : owed'[k] = owed[k]
  BY <1>4
<1>5. ASSUME NEW t \in Tasks, NEW key \in Keys, Hit(t, key) \/ Miss(t, key) \/ SetSend(t, key)
      PROVE  owed' = owed
  BY <1>5 DEF Hit, Miss, SetSend, history
<1>6. ASSUME NEW t \in Tasks,
             \/ Resume(t) \/ Answer(t) \/ Receive(t) \/ Cancel(t) \/ SetLand(t)
             \/ SetRejected(t) \/ SetLost(t)
      PROVE  owed' = owed
  BY <1>6 DEF Resume, Answer, Receive, ReceiveNotModified, ReceiveDocument, ReceiveRefusal,
              Degrade, Cancel, SetLand, SetRejected, SetLost, history
<1>7. ASSUME \/ \E key \in Keys : Expire(key)
             \/ WriteElsewhere \/ UNCHANGED vars
      PROVE  owed' = owed
  BY <1>7 DEF Expire, WriteElsewhere, history, vars
<1> QED
  BY <1>2, <1>3, <1>4, <1>5, <1>6, <1>7 DEF Next, SetReceive

(* A key is due what the server was at when it was asked for or ran out.   *)
LEMMA DueStep ==
    ASSUME CacheInv, [Next]_vars, NEW k \in Keys, due'[k] # due[k]
    PROVE  /\ due'[k] = revision /\ revision' = revision
           /\ \/ \E t \in Tasks : Asks(t, k)
              \/ Expire(k)
<1> USE DEF CacheInv
<1>1. ASSUME NEW t \in Tasks, NEW key \in Keys, Ask(t, key),
             revision' = revision, entries' = entries
      PROVE  due'[k] = revision /\ key = k
  BY <1>1 DEF Ask, Shape
<1>2. ASSUME NEW t \in Tasks, NEW key \in Keys, Miss(t, key)
      PROVE  due'[k] = revision /\ revision' = revision /\ Asks(t, k)
  <2>1. /\ Ask(t, key) /\ holder[key] = Nobody /\ holder' = [holder EXCEPT ![key] = t]
        /\ revision' = revision /\ entries' = entries
    BY <1>2 DEF Miss, server, cache
  <2>2. Fetchers(key) = {}
    BY <2>1, NobodyAssumption DEF OneFetchPerKey, Fetchers, At
  <2>3. Asks(t, key)
    BY <1>2, <2>1, <2>2 DEF Miss, Asks, Shape
  <2> QED
    BY <1>1, <2>1, <2>3
<1>3. ASSUME NEW t \in Tasks, Resume(t)
      PROVE  due'[k] = revision /\ revision' = revision /\ Asks(t, k)
  <2>1. /\ tasks[t].key \in Keys /\ tasks[t].pc = "waiting" /\ holder[tasks[t].key] = t
        /\ revision' = revision /\ entries' = entries
    BY <1>3, TaskShape DEF Resume, server, cache
  <2>2. ~Fresh(tasks[t].key) /\ Ask(t, tasks[t].key) /\ UNCHANGED <<locks, delivered, owed>>
    BY <1>3 DEF Resume
  <2>3. Asks(t, tasks[t].key)
    BY <2>1, <2>2 DEF Asks, OneFetchPerKey, locks
  <2> QED
    BY <1>1, <2>1, <2>2, <2>3
<1>4. ASSUME NEW key \in Keys, Expire(key)
      PROVE  due'[k] = revision /\ revision' = revision /\ Expire(k)
  BY <1>4 DEF Expire, Shape, server
<1>5. ASSUME NEW t \in Tasks, NEW key \in Keys, Hit(t, key) \/ SetSend(t, key)
      PROVE  FALSE
  BY <1>5 DEF Hit, SetSend, history
<1>6. ASSUME NEW t \in Tasks,
             Answer(t) \/ Receive(t) \/ Cancel(t) \/ SetLand(t) \/ SetReceive(t)
      PROVE  FALSE
  BY <1>6 DEF Answer, Receive, ReceiveNotModified, ReceiveDocument, ReceiveRefusal, Degrade,
              Cancel, SetLand, SetReceive, SetAcknowledged, SetRejected, SetLost, history
<1>7. ASSUME \/ \E token \in Tokens : Forget(token)
             \/ WriteElsewhere \/ UNCHANGED vars
      PROVE  FALSE
  BY <1>7 DEF Forget, WriteElsewhere, history, vars
<1> QED
  BY <1>2, <1>3, <1>4, <1>5, <1>6, <1>7 DEF Next

(* Every step keeps what the client holds within what the server has been  *)
(* at.                                                                     *)
LEMMA InventedStep ==
    ASSUME CacheInv, [Next]_vars
    PROVE  NothingIsInvented'
<1> USE DEF CacheInv
<1>0. revision \in Nat /\ revision' \in Nat /\ revision <= revision'
  <2>1. revision \in Nat /\ revision' \in Nat
    BY ShapeStep, BoundsAssumption DEF Shape
  <2>2. CASE Quiet
    BY <2>1, <2>2 DEF Quiet
  <2>3. CASE revision' = revision
    BY <2>1, <2>3
  <2> QED
    BY <2>1, <2>2, <2>3, StepKinds DEF Asks, Answer, ReceiveDocument, server
<1>1. \A k \in Keys : entries'[k] # NoEntry => entries'[k].revision <= revision'
  <2> TAKE k \in Keys
  <2>1. entries[k] # NoEntry => entries[k].revision <= revision' /\ entries[k].revision \in Nat
    BY <1>0, EntryTyped DEF NothingIsInvented, Shape
  <2>2. ASSUME NEW t \in Tasks, ReceiveDocument(t)
        PROVE  entries'[k] # NoEntry => entries'[k].revision <= revision'
    <3>1. tasks[t].answer <= revision /\ revision' = revision /\ tasks[t].key \in Keys
      BY <2>2, TaskShape DEF ReceiveDocument, NothingIsInvented, Fetchers, At, server
    <3>2. entries'[k] \in {entries[k], NoEntry, [revision |-> tasks[t].answer, fresh |-> TRUE]}
      BY <2>2 DEF ReceiveDocument, Remember
    <3> QED
      BY <2>1, <3>1, <3>2
  <2>3. CASE Quiet
    BY <2>1, <2>3 DEF Quiet
  <2>4. CASE entries' = entries
    BY <2>1, <2>4
  <2> QED
    BY <2>2, <2>3, <2>4, StepKinds DEF Asks, Answer, cache
<1>2. \A k \in Keys : /\ owed'[k].latest <= revision' /\ owed'[k].clean <= revision'
                       /\ due'[k] <= revision'
  <2>1. \A k \in Keys : /\ owed[k].latest <= revision /\ owed[k].latest \in Nat
                         /\ owed[k].clean <= revision /\ owed[k].clean \in Nat
                         /\ due[k] <= revision /\ due[k] \in Nat
    BY BoundsAssumption DEF NothingIsInvented, Shape, Owed
  <2>2. \A k \in Keys : owed'[k].latest <= revision' /\ owed'[k].clean <= revision'
    BY <1>0, <2>1, OwedStep
  <2>3. \A k \in Keys : due'[k] <= revision'
    <3> TAKE k \in Keys
    <3>1. due'[k] = due[k] \/ due'[k] = revision
      BY DueStep
    <3> QED
      BY <1>0, <2>1, <3>1
  <2> QED
    BY <2>2, <2>3
<1>3. \A k \in Keys : \A t \in Fetchers(k)' :
         /\ tasks'[t].cached # NoEntry => tasks'[t].cached.revision <= revision'
         /\ tasks'[t].pc = "answered" =>
               IF tasks'[t].answer = NotModified THEN tasks'[t].cached # NoEntry
                                                 ELSE tasks'[t].answer <= revision'
  <2> TAKE k \in Keys
  <2> TAKE u \in Fetchers(k)'
  <2>0. u \in Tasks
    BY DEF Fetchers, At
  <2>1. ASSUME u \in Fetchers(k), tasks'[u] = tasks[u]
        PROVE  /\ tasks'[u].cached # NoEntry => tasks'[u].cached.revision <= revision'
               /\ tasks'[u].pc = "answered" =>
                     IF tasks'[u].answer = NotModified THEN tasks'[u].cached # NoEntry
                                                       ELSE tasks'[u].answer <= revision'
    <3>1. /\ tasks[u].cached \in Entry \cup {NoEntry}
          /\ tasks[u].pc = "answered" => tasks[u].answer \in 0..MaxRevision \cup {NotModified}
      BY <2>0, <2>1, TaskShape DEF Fetchers, At
    <3>2. tasks[u].cached # NoEntry
             => tasks[u].cached.revision \in Nat /\ tasks[u].cached.revision <= revision
      BY <2>1, <3>1, EntryTyped DEF NothingIsInvented
    <3> QED
      BY <1>0, <2>1, <3>1, <3>2, BoundsAssumption DEF NothingIsInvented
  <2>2. CASE Quiet
    BY <2>1, <2>2 DEF Quiet
  <2>3. ASSUME NEW t \in Tasks, NEW key \in Keys, Asks(t, key), u = t
        PROVE  /\ tasks'[u].cached # NoEntry => tasks'[u].cached.revision <= revision'
               /\ tasks'[u].pc # "answered"
    BY <2>3 DEF Asks, Ask, Shape, NothingIsInvented
  <2>4. ASSUME NEW t \in Tasks, NEW key \in Keys, Asks(t, key), u # t
        PROVE  u \in Fetchers(k) /\ tasks'[u] = tasks[u]
    BY <2>0, <2>4 DEF Asks, Ask, Shape, Fetchers, At
  <2>5. ASSUME NEW t \in Tasks, Answer(t), u = t
        PROVE  /\ tasks'[u].cached # NoEntry => tasks'[u].cached.revision <= revision'
               /\ tasks'[u].pc = "answered" =>
                     IF tasks'[u].answer = NotModified THEN tasks'[u].cached # NoEntry
                                                       ELSE tasks'[u].answer <= revision'
    <3>1. tasks[t].key \in Keys /\ t \in Fetchers(tasks[t].key)
      BY <2>5, TaskShape DEF Answer, Fetchers, At
    <3>2. revision' = revision /\ tasks'[t].cached = tasks[t].cached
          /\ tasks'[t].answer = IF tasks[t].cached # NoEntry /\ tasks[t].cached.revision = revision
                                THEN NotModified ELSE revision
      BY <2>5 DEF Answer, Shape, server
    <3> QED
      BY <1>0, <2>5, <3>1, <3>2, NotModifiedAssumption DEF NothingIsInvented
  <2>6. ASSUME NEW t \in Tasks, Answer(t), u # t
        PROVE  u \in Fetchers(k) /\ tasks'[u] = tasks[u]
    BY <2>0, <2>6 DEF Answer, Shape, Fetchers, At
  <2>7. ASSUME NEW t \in Tasks, ReceiveDocument(t)
        PROVE  u \in Fetchers(k) /\ tasks'[u] = tasks[u]
    BY <2>7, FinishIsQuiet DEF ReceiveDocument, Deliver
  <2> QED
    BY <2>1, <2>2, <2>3, <2>4, <2>5, <2>6, <2>7, StepKinds
<1>4. \A t \in Tasks : tasks'[t].pc = "written" => tasks'[t].answer <= revision'
  <2> TAKE u \in Tasks
  <2>1. tasks[u].pc = "written" => tasks[u].answer <= revision' /\ tasks[u].answer \in Nat
    BY <1>0, TaskShape, BoundsAssumption DEF NothingIsInvented
  <2>2. ASSUME NEW t \in Tasks, NEW r, r.pc # "written", tasks' = [tasks EXCEPT ![t] = r]
        PROVE  tasks'[u].pc = "written" => tasks'[u].answer <= revision'
    BY <2>1, <2>2 DEF Shape
  <2>3. ASSUME NEW t \in Tasks, NEW outcome, Finish(t, outcome)
        PROVE  tasks'[u].pc = "written" => tasks'[u].answer <= revision'
    BY <2>2, <2>3 DEF Finish
  <2>4. ASSUME NEW t \in Tasks, NEW key, Ask(t, key)
        PROVE  tasks'[u].pc = "written" => tasks'[u].answer <= revision'
    BY <2>2, <2>4 DEF Ask
  <2>5. ASSUME NEW t \in Tasks, NEW key \in Keys, Hit(t, key) \/ Miss(t, key) \/ SetSend(t, key)
        PROVE  tasks'[u].pc = "written" => tasks'[u].answer <= revision'
    <3>1. CASE Hit(t, key)
      BY <2>3, <3>1 DEF Hit
    <3>2. CASE Miss(t, key)
      BY <2>2, <2>4, <3>2 DEF Miss
    <3>3. CASE SetSend(t, key)
      BY <2>2, <3>3 DEF SetSend
    <3> QED
      BY <2>5, <3>1, <3>2, <3>3
  <2>6. ASSUME NEW t \in Tasks, Resume(t) \/ Answer(t) \/ Receive(t) \/ Cancel(t)
        PROVE  tasks'[u].pc = "written" => tasks'[u].answer <= revision'
    <3>1. CASE Resume(t)
      BY <2>3, <2>4, <3>1 DEF Resume, Deliver
    <3>2. CASE Answer(t)
      BY <2>2, <3>2 DEF Answer
    <3>3. CASE Receive(t)
      BY <2>3, <3>3
         DEF Receive, ReceiveNotModified, ReceiveDocument, ReceiveRefusal, Degrade, Deliver
    <3>4. CASE Cancel(t)
      BY <2>3, <3>4 DEF Cancel
    <3> QED
      BY <2>6, <3>1, <3>2, <3>3, <3>4
  <2>7. ASSUME NEW t \in Tasks, SetLand(t)
        PROVE  tasks'[u].pc = "written" => tasks'[u].answer <= revision'
    <3>1. tasks[t] \in Writing
      BY <2>7 DEF SetLand, Shape, Idle, Waiting, Fetching, Answered, Writing
    <3>2. tasks'[t].answer = revision' /\ (u # t => tasks'[u] = tasks[u])
      BY <2>7, <3>1 DEF SetLand, Shape, Writing
    <3> QED
      BY <1>0, <2>1, <3>2
  <2>8. ASSUME NEW t \in Tasks, SetReceive(t)
        PROVE  tasks'[u].pc = "written" => tasks'[u].answer <= revision'
    BY <2>3, <2>8 DEF SetReceive, SetAcknowledged, SetRejected, SetLost
  <2>9. CASE tasks' = tasks
    BY <2>1, <2>9
  <2> QED
    BY <2>5, <2>6, <2>7, <2>8, <2>9 DEF Next, Forget, Expire, WriteElsewhere, vars
<1> QED
  BY <1>1, <1>2, <1>3, <1>4 DEF NothingIsInvented

(* What is answered for a key becomes a floor under it.                    *)
LEMMA DeliveredStep ==
    ASSUME CacheInv, [Next]_vars, NEW k \in Keys, delivered'[k] # delivered[k],
           NEW r, r = delivered'[k]
    PROVE  Floor(k, r)'
<1> USE DEF CacheInv
<1>1. ASSUME NEW t \in Tasks, Hit(t, k)
      PROVE  Floor(k, r)'
  <2>1. delivered'[k] = entries[k].revision /\ entries' = entries /\ revision' = revision
    BY <1>1 DEF Hit, Shape, server
  <2>2. entries[k] # NoEntry /\ Fetchers(k) = {} /\ entries[k].revision \in Nat
    BY <1>1, EntryTyped DEF Hit, Fresh, FetchesAreNeeded, Shape
  <2>3. Fetchers(k)' = {}
    BY <1>1, <2>2, FinishIsQuiet DEF Hit
  <2> QED
    BY <2>1, <2>2, <2>3 DEF Floor, NothingIsInvented
<1>2. ASSUME NEW t \in Tasks, NEW outcome, NEW d, Deliver(t, outcome, d),
             tasks[t].key = k, d \in Nat,
             Fetchers(k) \subseteq {t}, d <= revision, revision' = revision,
             entries'[k] # NoEntry => d <= entries'[k].revision
      PROVE  Floor(k, r)'
  <2>1. delivered'[k] = d
    BY <1>2 DEF Deliver, Shape
  <2>2. Fetchers(k)' = {}
    BY <1>2, FinishIsQuiet DEF Deliver
  <2> QED
    BY <1>2, <2>1, <2>2 DEF Floor
<1>3. ASSUME NEW t \in Tasks, Resume(t)
      PROVE  Floor(k, r)'
  <2>1. /\ Deliver(t, "document", entries[tasks[t].key].revision)
        /\ Fresh(tasks[t].key) /\ entries' = entries
    BY <1>3 DEF Resume, cache
  <2>2. tasks[t].key = k
    BY <2>1 DEF Deliver, Shape
  <2>3. entries[k] # NoEntry /\ entries[k].revision \in Nat
    BY <2>1, <2>2, EntryTyped DEF Fresh, Shape
  <2>4. Fetchers(k) = {} /\ revision' = revision
    BY <1>3, <2>1, <2>2 DEF FetchesAreNeeded, Resume, server
  <2> QED
    BY <1>2, <2>1, <2>2, <2>3, <2>4 DEF NothingIsInvented
<1>4. ASSUME NEW t \in Tasks, ReceiveNotModified(t) \/ Degrade(t)
      PROVE  Floor(k, r)'
  <2>1. PICK outcome : Deliver(t, outcome, tasks[t].cached.revision) /\ revision' = revision
    BY <1>4 DEF ReceiveNotModified, Degrade, server
  <2>2. tasks[t].key = k /\ t \in Fetchers(k)
    BY <1>4, <2>1 DEF Deliver, Shape, ReceiveNotModified, Degrade, Fetchers, At
  <2>3. Fetchers(k) \subseteq {t}
    BY <2>2 DEF OneFetchPerKey
  <2>4. tasks[t].cached # NoEntry
    BY <1>4, <2>2 DEF ReceiveNotModified, Degrade, NothingIsInvented
  <2>5. tasks[t].cached.revision \in Nat /\ tasks[t].cached.revision <= revision
    BY <2>2, <2>4, TaskShape, EntryTyped DEF Fetchers, At, NothingIsInvented
  <2>6. entries'[k] # NoEntry
           => entries[k] # NoEntry /\ entries'[k].revision = entries[k].revision
    BY <1>4, <2>2, RenewedOnly DEF ReceiveNotModified, Degrade, cache
  <2> QED
    BY <1>2, <2>1, <2>2, <2>3, <2>4, <2>5, <2>6 DEF FetchesAreNeeded
<1>5. ASSUME NEW t \in Tasks, ReceiveDocument(t)
      PROVE  Floor(k, r)'
  <2>1. Deliver(t, "document", tasks[t].answer) /\ revision' = revision
    BY <1>5 DEF ReceiveDocument, server
  <2>2. tasks[t].key = k /\ t \in Fetchers(k)
    BY <1>5, <2>1 DEF Deliver, Shape, ReceiveDocument, Fetchers, At
  <2>3. Fetchers(k) \subseteq {t}
    BY <2>2 DEF OneFetchPerKey
  <2>4. tasks[t].answer \in Nat /\ tasks[t].answer <= revision
    BY <1>5, <2>2, TaskShape, BoundsAssumption DEF ReceiveDocument, NothingIsInvented
  <2>5. entries'[k] # NoEntry => entries'[k].revision = tasks[t].answer
    BY <1>5, <2>2 DEF ReceiveDocument, Remember
  <2> QED
    BY <1>2, <2>1, <2>2, <2>3, <2>4, <2>5
<1>6. ASSUME delivered' = delivered
      PROVE  FALSE
  BY <1>6
<1>7. ASSUME NEW t \in Tasks, NEW key \in Keys, Hit(t, key) \/ Miss(t, key) \/ SetSend(t, key)
      PROVE  Floor(k, r)'
  <2>1. CASE Hit(t, key)
    <3>1. key = k
      BY <2>1 DEF Hit, Shape
    <3> QED
      BY <1>1, <2>1, <3>1
  <2>2. CASE Miss(t, key) \/ SetSend(t, key)
    BY <1>6, <2>2 DEF Miss, SetSend, history
  <2> QED
    BY <1>7, <2>1, <2>2
<1>8. ASSUME NEW t \in Tasks,
             Answer(t) \/ ReceiveRefusal(t) \/ Cancel(t) \/ SetLand(t) \/ SetReceive(t)
      PROVE  FALSE
  BY <1>6, <1>8 DEF Answer, ReceiveRefusal, Cancel, SetLand, SetReceive, SetAcknowledged,
                    SetRejected, SetLost, history
<1>9. ASSUME \/ \E token \in Tokens : Forget(token)
             \/ \E key \in Keys : Expire(key)
             \/ WriteElsewhere \/ UNCHANGED vars
      PROVE  FALSE
  BY <1>6, <1>9 DEF Forget, Expire, WriteElsewhere, history, vars
<1> QED
  BY <1>3, <1>4, <1>5, <1>7, <1>8, <1>9 DEF Next, Receive

(* Every step keeps a floor under a key at what was answered and promised. *)
LEMMA FloorsStep ==
    ASSUME CacheInv, [Next]_vars
    PROVE  FloorsHold'
<1> SUFFICES ASSUME NEW k \in Keys
             PROVE  Floor(k, delivered[k])' /\ Floor(k, owed[k].clean)'
  BY DEF FloorsHold
<1>1. /\ delivered[k] \in Nat /\ Floor(k, delivered[k])
      /\ owed[k].clean \in Nat /\ Floor(k, owed[k].clean)
  BY BoundsAssumption DEF CacheInv, Shape, Owed, FloorsHold
<1>2. ASSUME NEW r, r = delivered'[k]
      PROVE  Floor(k, r)'
  <2>1. CASE delivered'[k] = delivered[k]
    BY <1>1, <1>2, <2>1, FloorStable
  <2>2. CASE delivered'[k] # delivered[k]
    BY <1>2, <2>2, DeliveredStep
  <2> QED
    BY <2>1, <2>2
<1>3. ASSUME NEW r, r = owed'[k].clean
      PROVE  Floor(k, r)'
  <2>1. CASE owed'[k].clean = owed[k].clean
    BY <1>1, <1>3, <2>1, FloorStable
  <2>2. CASE owed'[k].clean # owed[k].clean
    BY <1>3, <2>2, OwedStep DEF Floor
  <2> QED
    BY <2>1, <2>2
<1> QED
  BY <1>2, <1>3 DEF Floor

(* Every step keeps what is fresh, or about to be, no older than is due: a *)
(* key comes to be due more only as it is not fresh and nothing has been   *)
(* answered yet.                                                           *)
LEMMA RecentStep ==
    ASSUME CacheInv, [Next]_vars
    PROVE  FreshIsRecent'
<1> USE DEF CacheInv
<1> SUFFICES ASSUME NEW k \in Keys
             PROVE  /\ Fresh(k)' => due'[k] <= entries'[k].revision
                    /\ \A u \in Fetchers(k)' :
                          tasks'[u].pc = "answered" =>
                             due'[k] <= IF tasks'[u].answer = NotModified
                                        THEN tasks'[u].cached.revision ELSE tasks'[u].answer
  BY DEF FreshIsRecent
<1>0. /\ due[k] \in Nat /\ due[k] <= revision
      /\ Fresh(k) => due[k] <= entries[k].revision
      /\ \A u \in Fetchers(k) : tasks[u].pc = "answered" =>
            due[k] <= IF tasks[u].answer = NotModified
                      THEN tasks[u].cached.revision ELSE tasks[u].answer
  BY BoundsAssumption DEF Shape, NothingIsInvented, FreshIsRecent
<1>1. CASE due'[k] # due[k]
  <2>1. ASSUME NEW t \in Tasks, Asks(t, k)
        PROVE  ~Fresh(k)' /\ \A u \in Fetchers(k)' : tasks'[u].pc # "answered"
    <3>1. ~Fresh(k)' /\ Fetchers(k) \subseteq {t} /\ tasks[t].pc \in {"idle", "waiting"}
      BY <2>1 DEF Asks, Fresh
    <3>2. Fetchers(k) = {}
      BY <3>1 DEF Fetchers, At
    <3>3. tasks'[t].pc = "asking" /\ \A u \in Tasks \ {t} : tasks'[u] = tasks[u]
      BY <2>1 DEF Asks, Ask, Shape
    <3> QED
      BY <3>1, <3>2, <3>3 DEF Fetchers, At
  <2>2. ASSUME Expire(k)
        PROVE  ~Fresh(k)' /\ Fetchers(k)' = {}
    <3>1. Fetchers(k) = {} /\ tasks' = tasks
      BY <2>2 DEF Expire, FetchesAreNeeded
    <3>2. ~Fresh(k)'
      BY <2>2 DEF Expire, Fresh, Shape, Entry
    <3> QED
      BY <3>1, <3>2 DEF Fetchers, At
  <2> QED
    BY <1>1, <2>1, <2>2, DueStep
<1>2. CASE due'[k] = due[k]
  <2>1. ASSUME NEW u \in Fetchers(k)', tasks'[u].pc = "answered"
        PROVE  due'[k] <= IF tasks'[u].answer = NotModified
                          THEN tasks'[u].cached.revision ELSE tasks'[u].answer
    <3>0. u \in Tasks
      BY DEF Fetchers, At
    <3>1. CASE u \in Fetchers(k) /\ tasks'[u] = tasks[u]
      BY <1>0, <1>2, <2>1, <3>1
    <3>2. ASSUME NEW t \in Tasks, NEW key \in Keys, Asks(t, key)
          PROVE  u \in Fetchers(k) /\ tasks'[u] = tasks[u]
      BY <2>1, <3>0, <3>2 DEF Asks, Ask, Shape, Fetchers, At
    <3>3. ASSUME NEW t \in Tasks, Answer(t), u # t
          PROVE  u \in Fetchers(k) /\ tasks'[u] = tasks[u]
      BY <3>0, <3>3 DEF Answer, Shape, Fetchers, At
    <3>4. ASSUME NEW t \in Tasks, Answer(t), u = t
          PROVE  due'[k] <= IF tasks'[u].answer = NotModified
                            THEN tasks'[u].cached.revision ELSE tasks'[u].answer
      <4>1. /\ tasks'[t].cached = tasks[t].cached
            /\ tasks'[t].answer = IF tasks[t].cached # NoEntry /\ tasks[t].cached.revision = revision
                                  THEN NotModified ELSE revision
        BY <3>4 DEF Answer, Shape
      <4>2. revision # NotModified
        BY NotModifiedAssumption, BoundsAssumption DEF Shape
      <4> QED
        BY <1>0, <1>2, <3>4, <4>1, <4>2
    <3>5. ASSUME NEW t \in Tasks, ReceiveDocument(t)
          PROVE  u \in Fetchers(k) /\ tasks'[u] = tasks[u]
      BY <2>1, <3>5, FinishIsQuiet DEF ReceiveDocument, Deliver
    <3> QED
      BY <2>1, <3>1, <3>2, <3>3, <3>4, <3>5, StepKinds DEF Quiet
  <2>2. ASSUME Fresh(k)'
        PROVE  due'[k] <= entries'[k].revision
    <3>1. CASE Fresh(k) /\ entries'[k] = entries[k]
      BY <1>0, <1>2, <3>1
    <3>2. CASE Fresh(k) /\ entries'[k] # entries[k]
      <4>1. \A t \in Tasks : ~ReceiveDocument(t) \/ tasks[t].key # k
        BY <3>2 DEF ReceiveDocument, FetchesAreNeeded, Fetchers, At
      <4>2. entries[k] # NoEntry /\ entries'[k] # NoEntry
        BY <2>2, <3>2 DEF Fresh
      <4>3. CASE Quiet
        BY <1>0, <1>2, <3>2, <4>2, <4>3 DEF Quiet
      <4>4. ASSUME NEW t \in Tasks, ReceiveDocument(t)
            PROVE  FALSE
        BY <3>2, <4>1, <4>2, <4>4 DEF ReceiveDocument, Remember
      <4> QED
        BY <3>2, <4>3, <4>4, StepKinds DEF Asks, Answer, cache
    <3>3. CASE ~Fresh(k)
      <4>1. PICK t \in Tasks : /\ ReceiveNotModified(t) \/ ReceiveDocument(t)
                               /\ tasks[t].key = k
        BY <2>2, <3>3, FreshByWhom
      <4>2. t \in Fetchers(k) /\ tasks[t].pc = "answered"
        BY <4>1 DEF ReceiveNotModified, ReceiveDocument, Fetchers, At
      <4>3. CASE ReceiveDocument(t)
        <5>1. entries'[k].revision = tasks[t].answer
          BY <2>2, <4>1, <4>3 DEF ReceiveDocument, Remember, Fresh
        <5> QED
          BY <1>0, <1>2, <4>2, <4>3, <5>1 DEF ReceiveDocument
      <4>4. CASE ReceiveNotModified(t)
        <5>1. /\ due[k] <= tasks[t].cached.revision
              /\ tasks[t].cached # NoEntry
          BY <1>0, <4>2, <4>4 DEF ReceiveNotModified, NothingIsInvented
        <5>2. entries[k] # NoEntry /\ entries'[k].revision = entries[k].revision
          BY <2>2, <4>1, <4>4, RenewedOnly DEF ReceiveNotModified, Fresh
        <5>3. tasks[t].cached.revision <= entries[k].revision
          BY <4>2, <5>1, <5>2 DEF FetchesAreNeeded
        <5>4. tasks[t].cached.revision \in Nat /\ entries[k].revision \in Nat
          BY <4>2, <5>1, <5>2, TaskShape, EntryTyped DEF Shape
        <5> QED
          BY <1>0, <1>2, <5>1, <5>2, <5>3, <5>4
      <4> QED
        BY <4>1, <4>3, <4>4
    <3> QED
      BY <3>1, <3>2, <3>3
  <2> QED
    BY <2>1, <2>2
<1> QED
  BY <1>1, <1>2

(* An empty cache promises nothing.                                        *)
LEMMA CacheInvInit ==
    ASSUME Init
    PROVE  CacheInv
<1> USE DEF Init
<1>1. Shape
  BY BoundsAssumption DEF Shape, Idle, Owed
<1>2. \A k \in Keys : Fetchers(k) = {} /\ ~Fresh(k)
  BY DEF Fetchers, At, Fresh
<1>3. OneFetchPerKey /\ FetchesAreNeeded
  BY <1>2 DEF OneFetchPerKey, FetchesAreNeeded
<1>4. NothingIsInvented
  BY <1>2 DEF NothingIsInvented
<1>5. FloorsHold
  BY <1>2, BoundsAssumption DEF FloorsHold, Floor
<1>6. FreshIsRecent
  BY <1>2 DEF FreshIsRecent
<1> QED
  BY <1>1, <1>3, <1>4, <1>5, <1>6 DEF CacheInv

(* The parts are inductive together.                                       *)
LEMMA CacheInvStep ==
    ASSUME CacheInv, [Next]_vars
    PROVE  CacheInv'
<1>1. Shape'
  BY ShapeStep DEF CacheInv
<1> QED
  BY <1>1, OneFetchStep, FetchesStep, InventedStep, FloorsStep, RecentStep DEF CacheInv

(* The invariant both theorems on answers rest on.                         *)
THEOREM CacheInvHolds == Spec => []CacheInv
<1>1. Init => CacheInv
  BY CacheInvInit
<1>2. CacheInv /\ [Next]_vars => CacheInv'
  BY CacheInvStep
<1> QED
  BY <1>1, <1>2, PTL DEF Spec

(* Whatever the tasks, keys and cancellations, two requests for one key    *)
(* are never under way together (resolve's flight and its lock).           *)
THEOREM OneFetchAlways == Spec => []OneFetchPerKey
<1>1. CacheInv => OneFetchPerKey
  BY DEF CacheInv
<1> QED
  BY <1>1, CacheInvHolds, PTL

(* What a resolve that was under way answers with: a fresh entry, the      *)
(* entry it asked with, or the document it was sent.                       *)
LEMMA DeliversWhat ==
    ASSUME CacheInv, [Next]_vars, NEW t \in Tasks, Delivers(t, {"document", "stale"})
    PROVE  /\ tasks[t].key \in Keys
           /\ \/ /\ Fresh(tasks[t].key)
                 /\ delivered'[tasks[t].key] = entries[tasks[t].key].revision
              \/ /\ t \in Fetchers(tasks[t].key) /\ tasks[t].cached # NoEntry
                 /\ tasks'[t].result = "document" =>
                       tasks[t].pc = "answered" /\ tasks[t].answer = NotModified
                 /\ delivered'[tasks[t].key] = tasks[t].cached.revision
              \/ /\ t \in Fetchers(tasks[t].key) /\ tasks[t].pc = "answered"
                 /\ tasks[t].answer # NotModified
                 /\ delivered'[tasks[t].key] = tasks[t].answer
<1> USE DEF CacheInv
<1> DEFINE What ==
      \/ /\ Fresh(tasks[t].key)
         /\ delivered'[tasks[t].key] = entries[tasks[t].key].revision
      \/ /\ t \in Fetchers(tasks[t].key) /\ tasks[t].cached # NoEntry
         /\ tasks'[t].result = "document" =>
               tasks[t].pc = "answered" /\ tasks[t].answer = NotModified
         /\ delivered'[tasks[t].key] = tasks[t].cached.revision
      \/ /\ t \in Fetchers(tasks[t].key) /\ tasks[t].pc = "answered"
         /\ tasks[t].answer # NotModified
         /\ delivered'[tasks[t].key] = tasks[t].answer
<1>1. /\ tasks[t].pc \in {"waiting", "asking", "answered"} /\ tasks[t].key \in Keys
      /\ tasks'[t].pc = "idle" /\ tasks'[t].result \in {"document", "stale"}
      /\ tasks'[t] # tasks[t]
  BY TaskShape DEF Delivers
<1>2. ASSUME NEW u \in Tasks, NEW outcome, Finish(u, outcome)
      PROVE  u = t /\ tasks'[t].result = outcome
  BY <1>1, <1>2 DEF Finish, Shape
<1>3. ASSUME NEW outcome, NEW d, Deliver(t, outcome, d)
      PROVE  delivered'[tasks[t].key] = d
  BY <1>1, <1>3 DEF Deliver, Shape
<1>4. ASSUME NEW u \in Tasks, NEW key \in Keys, Hit(u, key) \/ Miss(u, key) \/ SetSend(u, key)
      PROVE  FALSE
  <2>1. tasks[u].pc = "idle"
    BY <1>4 DEF Hit, Miss, SetSend
  <2>2. u # t
    BY <1>1, <2>1
  <2>3. tasks'[t] = tasks[t]
    BY <1>4, <2>2 DEF Hit, Miss, SetSend, Finish, Ask, Shape
  <2> QED
    BY <1>1, <2>3
<1>5. ASSUME NEW u \in Tasks, Resume(u)
      PROVE  What
  <2>1. CASE Deliver(u, "document", entries[tasks[u].key].revision) /\ Fresh(tasks[u].key)
    <3>1. u = t
      BY <1>2, <2>1 DEF Deliver
    <3> QED
      BY <1>3, <2>1, <3>1
  <2>2. CASE Ask(u, tasks[u].key)
    BY <1>1, <2>2 DEF Ask, Shape
  <2> QED
    BY <1>5, <2>1, <2>2 DEF Resume
<1>6. ASSUME NEW u \in Tasks, ReceiveNotModified(u) \/ Degrade(u)
      PROVE  What
  <2>1. \E outcome : Finish(u, outcome)
    BY <1>6 DEF ReceiveNotModified, Degrade, Deliver
  <2>2. u = t
    BY <1>2, <2>1
  <2>3. t \in Fetchers(tasks[t].key)
    BY <1>6, <2>2 DEF ReceiveNotModified, Degrade, Fetchers, At
  <2>4. CASE ReceiveNotModified(u)
    <3>1. /\ Deliver(t, "document", tasks[t].cached.revision) /\ tasks[t].cached # NoEntry
          /\ tasks[t].pc = "answered" /\ tasks[t].answer = NotModified
      BY <1>1, <2>2, <2>3, <2>4 DEF ReceiveNotModified, NothingIsInvented
    <3> QED
      BY <1>3, <2>3, <3>1
  <2>5. CASE Degrade(u)
    <3>1. Deliver(t, "stale", tasks[t].cached.revision) /\ tasks[t].cached # NoEntry
      BY <1>1, <1>2, <2>2, <2>5 DEF Degrade
    <3>2. tasks'[t].result = "stale"
      BY <1>2, <3>1 DEF Deliver
    <3> QED
      BY <1>3, <2>3, <3>1, <3>2
  <2> QED
    BY <1>6, <2>4, <2>5
<1>7. ASSUME NEW u \in Tasks, ReceiveDocument(u)
      PROVE  What
  <2>1. u = t
    BY <1>2, <1>7 DEF ReceiveDocument, Deliver
  <2>2. t \in Fetchers(tasks[t].key)
    BY <1>7, <2>1 DEF ReceiveDocument, Fetchers, At
  <2> QED
    BY <1>3, <1>7, <2>1, <2>2 DEF ReceiveDocument
<1>8. ASSUME NEW u \in Tasks, ReceiveRefusal(u) \/ Cancel(u) \/ SetReceive(u)
      PROVE  FALSE
  <2>1. \E outcome \in Outcomes \ {"document", "stale"} : Finish(u, outcome)
    BY <1>8 DEF ReceiveRefusal, Cancel, SetReceive, SetAcknowledged, SetRejected, SetLost, Outcomes
  <2> QED
    BY <1>1, <1>2, <2>1
<1>9. ASSUME NEW u \in Tasks, Answer(u) \/ SetLand(u)
      PROVE  FALSE
  <2>1. CASE Answer(u)
    BY <1>1, <2>1 DEF Answer, Shape
  <2>2. CASE SetLand(u)
    <3>1. u # t
      BY <1>1, <2>2 DEF SetLand
    <3> QED
      BY <1>1, <2>2, <3>1 DEF SetLand, Shape
  <2> QED
    BY <1>9, <2>1, <2>2
<1>10. ASSUME tasks' = tasks
       PROVE  FALSE
  BY <1>1, <1>10
<1>11. What
  BY <1>4, <1>5, <1>6, <1>7, <1>8, <1>9, <1>10
     DEF Next, Receive, Forget, Expire, WriteElsewhere, vars
<1> QED
  BY <1>1, <1>11

(* What is answered for a key changes only as a resolve of it answers.     *)
LEMMA DeliveredByWhom ==
    ASSUME CacheInv, [Next]_vars, NEW k \in Keys, delivered'[k] # delivered[k]
    PROVE  \E t \in Tasks : \/ Hit(t, k)
                            \/ Delivers(t, {"document", "stale"}) /\ tasks[t].key = k
<1> USE DEF CacheInv
<1>1. ASSUME NEW t \in Tasks, NEW outcome \in {"document", "stale"}, NEW d,
             Deliver(t, outcome, d), tasks[t].pc \in {"waiting", "asking", "answered"}
      PROVE  Delivers(t, {"document", "stale"}) /\ tasks[t].key = k
  BY <1>1 DEF Deliver, Delivers, Finish, Shape
<1>2. ASSUME NEW t \in Tasks, NEW key \in Keys, Hit(t, key)
      PROVE  Hit(t, k)
  <2>1. key = k
    BY <1>2 DEF Hit, Shape
  <2> QED
    BY <1>2, <2>1
<1>3. ASSUME NEW t \in Tasks, NEW key \in Keys, Miss(t, key) \/ SetSend(t, key)
      PROVE  FALSE
  BY <1>3 DEF Miss, SetSend, history
<1>4. ASSUME NEW t \in Tasks, Resume(t) \/ ReceiveNotModified(t) \/ ReceiveDocument(t) \/ Degrade(t)
      PROVE  Delivers(t, {"document", "stale"}) /\ tasks[t].key = k
  BY <1>1, <1>4 DEF Resume, ReceiveNotModified, ReceiveDocument, Degrade
<1>5. ASSUME NEW t \in Tasks,
             Answer(t) \/ ReceiveRefusal(t) \/ Cancel(t) \/ SetLand(t) \/ SetReceive(t)
      PROVE  FALSE
  BY <1>5 DEF Answer, ReceiveRefusal, Cancel, SetLand, SetReceive, SetAcknowledged,
              SetRejected, SetLost, history
<1>6. ASSUME \/ \E token \in Tokens : Forget(token)
             \/ \E key \in Keys : Expire(key)
             \/ WriteElsewhere \/ UNCHANGED vars
      PROVE  FALSE
  BY <1>6 DEF Forget, Expire, WriteElsewhere, history, vars
<1> QED
  BY <1>2, <1>3, <1>4, <1>5, <1>6 DEF Next, Receive

(* A resolve that waited or fetched answers with nothing below a floor     *)
(* under its key.                                                          *)
LEMMA DeliversAboveFloors ==
    ASSUME CacheInv, [Next]_vars, NEW t \in Tasks, Delivers(t, {"document", "stale"}),
           NEW r \in Nat, Floor(tasks[t].key, r)
    PROVE  r <= delivered'[tasks[t].key]
BY DeliversWhat DEF Floor, Fresh

(* No answer for a key is older than an earlier one, for any number of     *)
(* tasks, keys and writes.                                                 *)
THEOREM AnswersNeverGoBackAlways == Spec => AnswersNeverGoBack
<1>1. ASSUME CacheInv, [Next]_vars, NEW k \in Keys
      PROVE  delivered'[k] >= delivered[k]
  <2>1. delivered[k] \in Nat /\ delivered'[k] \in Nat
    BY <1>1, CacheInvStep, BoundsAssumption DEF CacheInv, Shape
  <2>2. Floor(k, delivered[k])
    BY <1>1 DEF CacheInv, FloorsHold
  <2>3. ASSUME NEW t \in Tasks, Hit(t, k)
        PROVE  delivered[k] <= delivered'[k]
    BY <1>1, <2>2, <2>3 DEF Hit, Fresh, Floor, CacheInv, Shape
  <2>4. ASSUME NEW t \in Tasks, Delivers(t, {"document", "stale"}), tasks[t].key = k
        PROVE  delivered[k] <= delivered'[k]
    BY <1>1, <2>1, <2>2, <2>4, DeliversAboveFloors
  <2>5. CASE delivered'[k] = delivered[k]
    BY <2>1, <2>5
  <2> QED
    BY <1>1, <2>1, <2>3, <2>4, <2>5, DeliveredByWhom
<1>2. CacheInv /\ [Next]_vars => [\A k \in Keys : delivered'[k] >= delivered[k]]_vars
  BY <1>1
<1> QED
  BY <1>2, CacheInvHolds, PTL DEF Spec, AnswersNeverGoBack

LEMMA NewsStep ==
    ASSUME CacheInv, DocumentsAreNews, [Next]_vars
    PROVE  DocumentsAreNews'
<1> USE DEF CacheInv
<1>1. CASE Quiet
  BY <1>1 DEF Quiet, DocumentsAreNews
<1>2. ASSUME NEW t \in Tasks, NEW key \in Keys, Asks(t, key)
      PROVE  DocumentsAreNews'
  <2>1. \A k \in Keys : \A u \in Fetchers(k)' :
           \/ u \in Fetchers(k) /\ tasks'[u] = tasks[u]
           \/ tasks'[u].pc = "asking"
    BY <1>2 DEF Asks, Ask, Fetchers, At, Shape
  <2> QED
    BY <2>1 DEF DocumentsAreNews
<1>3. ASSUME NEW t \in Tasks, Answer(t)
      PROVE  DocumentsAreNews'
  <2>1. \A k \in Keys : \A u \in Fetchers(k)' : u # t => u \in Fetchers(k) /\ tasks'[u] = tasks[u]
    BY <1>3 DEF Answer, Fetchers, At, Shape
  <2>2. /\ tasks'[t].cached = tasks[t].cached
        /\ tasks'[t].answer # NotModified /\ tasks[t].cached # NoEntry =>
              tasks'[t].answer = revision /\ tasks[t].cached.revision # revision
    BY <1>3 DEF Answer, Shape
  <2>3. tasks[t].cached # NoEntry => /\ tasks[t].cached.revision <= revision
                                    /\ tasks[t].cached.revision \in Nat
    <3>1. tasks[t].key \in Keys /\ t \in Fetchers(tasks[t].key)
      BY <1>3, TaskShape DEF Answer, Fetchers, At
    <3>2. tasks[t].cached \in Entry \cup {NoEntry}
      BY <1>3, TaskShape DEF Answer
    <3> QED
      BY <3>1, <3>2, BoundsAssumption DEF NothingIsInvented, Entry
  <2>4. revision \in Nat
    BY BoundsAssumption DEF Shape
  <2>5. tasks'[t].answer # NotModified /\ tasks'[t].cached # NoEntry
            => tasks'[t].answer > tasks'[t].cached.revision
    BY <2>2, <2>3, <2>4
  <2> QED
    BY <2>1, <2>5 DEF DocumentsAreNews
<1>4. ASSUME NEW t \in Tasks, ReceiveDocument(t)
      PROVE  DocumentsAreNews'
  <2>1. \A k \in Keys : \A u \in Fetchers(k)' : u \in Fetchers(k) \ {t} /\ tasks'[u] = tasks[u]
    BY <1>4, FinishIsQuiet DEF ReceiveDocument, Deliver
  <2> QED
    BY <2>1 DEF DocumentsAreNews
<1> QED
  BY <1>1, <1>2, <1>3, <1>4, StepKinds

LEMMA NewsHolds == Spec => []DocumentsAreNews
<1>1. Init => DocumentsAreNews
  BY DEF Init, DocumentsAreNews, Fetchers, At
<1>2. CacheInv /\ DocumentsAreNews /\ [Next]_vars => DocumentsAreNews'
  BY NewsStep
<1> QED
  BY <1>1, <1>2, CacheInvHolds, PTL DEF Spec

(* A key whose entry went while it was fetched stays without one, or gets  *)
(* a newer one.                                                            *)
LEMMA LostStaysLost ==
    ASSUME CacheInv, DocumentsAreNews, [Next]_vars, NEW t \in Tasks, LostItsEntry(t)
    PROVE  \/ entries'[tasks[t].key] = NoEntry
           \/ entries'[tasks[t].key].revision > tasks[t].cached.revision
<1> USE DEF CacheInv
<1> DEFINE k == tasks[t].key
<1>1. k \in Keys /\ t \in Fetchers(k) /\ entries[k] = NoEntry /\ tasks[t].cached # NoEntry
  BY TaskShape DEF LostItsEntry, Fetchers, At
<1> HIDE DEF k
<1>2. CASE Quiet
  BY <1>1, <1>2 DEF Quiet, k
<1>3. CASE entries' = entries
  BY <1>1, <1>3 DEF k
<1>4. ASSUME NEW u \in Tasks, ReceiveDocument(u)
      PROVE  entries'[k] = NoEntry \/ entries'[k].revision > tasks[t].cached.revision
  <2>1. u \in Fetchers(tasks[u].key) /\ tasks[u].key \in Keys
    BY <1>4, TaskShape DEF ReceiveDocument, Fetchers, At
  <2>2. CASE tasks[u].key # k
    BY <1>1, <1>4, <2>2 DEF ReceiveDocument, Remember
  <2>3. CASE tasks[u].key = k
    <3>1. u = t
      BY <1>1, <2>1, <2>3 DEF OneFetchPerKey
    <3>2. entries'[k] \in {NoEntry, [revision |-> tasks[t].answer, fresh |-> TRUE]}
      BY <1>1, <1>4, <2>3, <3>1 DEF ReceiveDocument, Remember
    <3>3. tasks[t].answer > tasks[t].cached.revision
      BY <1>1, <1>4, <3>1 DEF ReceiveDocument, DocumentsAreNews
    <3> QED
      BY <3>2, <3>3
  <2> QED
    BY <2>2, <2>3
<1> QED
  BY <1>2, <1>3, <1>4, StepKinds DEF Asks, Answer, cache, k

(* After an acknowledged set or a forget with no fetch of the key under    *)
(* way, no resolve answers from before it; and a fetch that was under way  *)
(* brings no dropped entry back.                                           *)
THEOREM ReadsFollowDropsAlways == Spec => ReadsFollowDrops
<1>1. ASSUME CacheInv, DocumentsAreNews, [Next]_vars
      PROVE  /\ \A k \in Keys : Fresh(k) => entries[k].revision >= owed[k].clean
             /\ \A t \in Tasks : Delivers(t, {"document", "stale"})
                   => delivered'[tasks[t].key] >= owed[tasks[t].key].clean
             /\ \A t \in Tasks : LostItsEntry(t) =>
                   \/ entries'[tasks[t].key] = NoEntry
                   \/ entries'[tasks[t].key].revision > tasks[t].cached.revision
  <2>1. ASSUME NEW k \in Keys
        PROVE  owed[k].clean \in Nat /\ Floor(k, owed[k].clean)
    BY <1>1, BoundsAssumption DEF CacheInv, Shape, Owed, FloorsHold
  <2>2. ASSUME NEW k \in Keys, Fresh(k)
        PROVE  entries[k].revision >= owed[k].clean
    <3>1. entries[k].revision \in Nat
      BY <1>1, <2>2, EntryTyped DEF CacheInv, Shape, Fresh
    <3> QED
      BY <2>1, <2>2, <3>1 DEF Floor, Fresh
  <2>3. ASSUME NEW t \in Tasks, Delivers(t, {"document", "stale"})
        PROVE  delivered'[tasks[t].key] >= owed[tasks[t].key].clean
    <3>1. tasks[t].key \in Keys
      BY <1>1, <2>3, DeliversWhat
    <3>2. delivered'[tasks[t].key] \in Nat
      BY <1>1, <3>1, CacheInvStep, BoundsAssumption DEF CacheInv, Shape
    <3> QED
      BY <1>1, <2>1, <2>3, <3>1, <3>2, DeliversAboveFloors
  <2> QED
    BY <1>1, <2>2, <2>3, LostStaysLost
<1> QED
  BY <1>1, CacheInvHolds, NewsHolds, PTL DEF Spec, ReadsFollowDrops

(* No answer that is not marked stale is from before its key last ran out  *)
(* or was last asked for: what this client could not see is hidden for no  *)
(* longer than a TTL.                                                      *)
THEOREM FreshAnswersAreRecentAlways == Spec => FreshAnswersAreRecent
<1>1. ASSUME CacheInv, [Next]_vars
      PROVE  /\ \A k \in Keys : Fresh(k) => entries[k].revision >= due[k]
             /\ \A t \in Tasks : Delivers(t, {"document"})
                   => delivered'[tasks[t].key] >= due[tasks[t].key]
  <2>1. ASSUME NEW k \in Keys
        PROVE  due[k] \in Nat /\ delivered'[k] \in Nat
    BY <1>1, CacheInvStep, BoundsAssumption DEF CacheInv, Shape
  <2>2. ASSUME NEW k \in Keys, Fresh(k)
        PROVE  entries[k].revision >= due[k]
    <3>1. entries[k].revision \in Nat
      BY <1>1, <2>2, EntryTyped DEF CacheInv, Shape, Fresh
    <3> QED
      BY <1>1, <2>1, <2>2, <3>1 DEF CacheInv, FreshIsRecent
  <2>3. ASSUME NEW t \in Tasks, Delivers(t, {"document"})
        PROVE  delivered'[tasks[t].key] >= due[tasks[t].key]
    <3>1. Delivers(t, {"document", "stale"}) /\ tasks'[t].result = "document"
      BY <2>3 DEF Delivers
    <3>2. tasks[t].key \in Keys /\ due[tasks[t].key] <= delivered'[tasks[t].key]
      BY <1>1, <3>1, DeliversWhat DEF CacheInv, FreshIsRecent
    <3> QED
      BY <2>1, <3>2
  <2> QED
    BY <2>2, <2>3
<1> QED
  BY <1>1, CacheInvHolds, PTL DEF Spec, FreshAnswersAreRecent
-----------------------------------------------------------------------------
(* A flight and its lock.                                                  *)

Queued(k) == At(k, {"waiting"})

Line(k) == {waiters[k][i] : i \in DOMAIN waiters[k]}

(* The line behind a lock is of those who wait and do not hold it, each    *)
(* once; the holder is a caller, and nobody waits for a lock that is free. *)
LineAt(k) ==
    /\ waiters[k] \in Seq(Tasks)
    /\ \A i, j \in DOMAIN waiters[k] : waiters[k][i] = waiters[k][j] => i = j
    /\ Line(k) = Queued(k) \ {holder[k]}
    /\ holder[k] # Nobody => holder[k] \in Callers(k)
    /\ holder[k] = Nobody => waiters[k] = <<>>
    /\ k \in flights <=> holder[k] # Nobody

LockInv ==
    /\ waiters = [k \in Keys |-> waiters[k]]
    /\ \A k \in Keys : LineAt(k)

(* The line without its first, and without one in the middle.              *)
LEMMA LineWithoutFirst ==
    ASSUME NEW s \in Seq(Tasks), s # <<>>
    PROVE  /\ Tail(s) \in Seq(Tasks) /\ Head(s) = s[1] /\ Head(s) \in Tasks
           /\ Len(s) \in Nat \ {0} /\ DOMAIN s = 1..Len(s)
           /\ DOMAIN Tail(s) = 1..(Len(s) - 1)
           /\ \A i \in 1..(Len(s) - 1) : Tail(s)[i] = s[i + 1]
<1>1. Len(s) \in Nat \ {0} /\ DOMAIN s = 1..Len(s)
  BY EmptySeq
<1>2. /\ Head(s) \in Tasks /\ Tail(s) \in Seq(Tasks) /\ Len(Tail(s)) = Len(s) - 1
      /\ \A i \in 1..Len(Tail(s)) : Tail(s)[i] = s[i + 1]
  BY HeadTailProperties
<1>3. Head(s) = s[1]
  BY <1>1
<1>4. DOMAIN Tail(s) = 1..Len(Tail(s))
  BY <1>2
<1> QED
  BY <1>1, <1>2, <1>3, <1>4

LEMMA LineWithoutOne ==
    ASSUME NEW s \in Seq(Tasks), NEW i \in 1..Len(s)
    PROVE  /\ RemoveAt(s, i) \in Seq(Tasks)
           /\ DOMAIN RemoveAt(s, i) = 1..(Len(s) - 1)
           /\ \A j \in 1..(Len(s) - 1) :
                  RemoveAt(s, i)[j] = IF j < i THEN s[j] ELSE s[j + 1]
<1> DEFINE front == SubSeq(s, 1, i - 1)
           back == SubSeq(s, i + 1, Len(s))
<1>1. Len(s) \in Nat /\ i \in Nat /\ 1 <= i /\ i <= Len(s)
  OBVIOUS
<1>2. /\ front \in Seq(Tasks) /\ Len(front) = i - 1
      /\ \A j \in 1..(i - 1) : front[j] = s[j]
  BY <1>1
<1>3. /\ back \in Seq(Tasks) /\ Len(back) = Len(s) - i
      /\ \A j \in 1..(Len(s) - i) : back[j] = s[j + i]
  BY <1>1
<1>4. RemoveAt(s, i) = front \o back
  BY DEF RemoveAt
<1> HIDE DEF front, back
<1>5. /\ front \o back \in Seq(Tasks) /\ Len(front \o back) = Len(front) + Len(back)
      /\ \A j \in 1..(Len(front) + Len(back)) :
             (front \o back)[j] = IF j <= Len(front) THEN front[j] ELSE back[j - Len(front)]
  BY <1>2, <1>3, ConcatProperties
<1>6. Len(front) + Len(back) = Len(s) - 1
  BY <1>1, <1>2, <1>3
<1>7. ASSUME NEW j \in 1..(Len(s) - 1)
      PROVE  (front \o back)[j] = IF j < i THEN s[j] ELSE s[j + 1]
  <2>1. CASE j < i
    <3>1. j \in 1..(i - 1) /\ j <= Len(front) /\ j \in 1..(Len(front) + Len(back))
      BY <1>1, <1>2, <1>6, <2>1
    <3>2. (front \o back)[j] = front[j] /\ front[j] = s[j]
      BY <1>2, <1>5, <3>1
    <3> QED
      BY <2>1, <3>2
  <2>2. CASE ~ (j < i)
    <3>1. (front \o back)[j] = back[j - (i - 1)]
      BY <1>1, <1>2, <1>5, <1>6, <2>2
    <3>2. j - (i - 1) \in 1..(Len(s) - i)
      BY <1>1, <2>2
    <3>3. back[j - (i - 1)] = s[(j - (i - 1)) + i]
      BY <1>3, <3>2
    <3>4. (j - (i - 1)) + i = j + 1 /\ ~ (j < i)
      BY <1>1, <2>2
    <3> QED
      BY <3>1, <3>3, <3>4
  <2> QED
    BY <2>1, <2>2
<1>8. DOMAIN (front \o back) = 1..(Len(s) - 1)
  BY <1>5, <1>6
<1> QED
  BY <1>4, <1>5, <1>7, <1>8

(* A key at whose lock nothing happens, nor to those who want it.          *)
LEMMA LineUntouched ==
    ASSUME NEW k \in Keys, LineAt(k),
           holder'[k] = holder[k], waiters'[k] = waiters[k], k \in flights' <=> k \in flights,
           Callers(k)' = Callers(k), Queued(k)' \ {holder[k]} = Queued(k) \ {holder[k]}
    PROVE  LineAt(k)'
BY DEF LineAt, Line

(* The line as a function, and whom it is of.                              *)
LEMMA LineListed ==
    ASSUME NEW k \in Keys, LineAt(k)
    PROVE  /\ waiters[k] \in Seq(Tasks) /\ Len(waiters[k]) \in Nat
           /\ DOMAIN waiters[k] = 1..Len(waiters[k])
           /\ \A i, j \in 1..Len(waiters[k]) : waiters[k][i] = waiters[k][j] => i = j
           /\ \A u : (\E i \in 1..Len(waiters[k]) : waiters[k][i] = u)
                         <=> u \in Queued(k) \ {holder[k]}
<1>1. /\ waiters[k] \in Seq(Tasks) /\ Line(k) = Queued(k) \ {holder[k]}
      /\ \A i, j \in DOMAIN waiters[k] : waiters[k][i] = waiters[k][j] => i = j
  BY DEF LineAt
<1>2. Len(waiters[k]) \in Nat /\ DOMAIN waiters[k] = 1..Len(waiters[k])
  BY <1>1
<1>3. \A u : u \in Line(k) <=> \E i \in 1..Len(waiters[k]) : waiters[k][i] = u
  BY <1>2 DEF Line
<1> QED
  BY <1>1, <1>2, <1>3

(* The holder leaves: the first in line has the lock, or nobody.           *)
LEMMA LineMovesUp ==
    ASSUME NEW k \in Keys, LockInv, Shape, NEW t \in Tasks, holder[k] = t, Leave(k),
           Callers(k)' = Callers(k) \ {t}, Queued(k)' = Queued(k) \ {t}
    PROVE  LineAt(k)'
<1> DEFINE line == waiters[k]
           n == Len(line)
<1>0. LineAt(k) /\ t # Nobody /\ line \in Seq(Tasks)
  BY NobodyAssumption DEF LockInv, LineAt
<1>1. CASE line = <<>>
  <2>1. holder'[k] = Nobody /\ waiters'[k] = <<>> /\ k \notin flights'
    BY <1>1 DEF Leave, LockInv, Shape
  <2>2. Queued(k)' = {}
    BY <1>0, <1>1 DEF LineAt, Line
  <2>3. Line(k)' = {}
    BY <2>1 DEF Line
  <2> QED
    BY <2>1, <2>2, <2>3 DEF LineAt
<1>2. CASE line # <<>>
  <2>1. /\ Tail(line) \in Seq(Tasks) /\ n \in Nat \ {0} /\ DOMAIN line = 1..n
        /\ DOMAIN Tail(line) = 1..(n - 1)
        /\ \A i \in 1..(n - 1) : Tail(line)[i] = line[i + 1]
        /\ Head(line) = line[1] /\ line[1] \in Tasks
    BY <1>0, <1>2, LineWithoutFirst
  <2>2. PICK next \in Tasks : next = line[1]
    BY <2>1
  <2>3. holder'[k] = next /\ waiters'[k] = Tail(line) /\ flights' = flights
    BY <1>2, <2>1, <2>2 DEF Leave, LockInv, Shape
  <2>4. /\ \A i, j \in 1..n : line[i] = line[j] => i = j
        /\ \A u : (\E i \in 1..n : line[i] = u) <=> u \in Queued(k) \ {t}
    BY <1>0, LineListed
  <2>5. next \in Queued(k) \ {t}
    BY <2>1, <2>2, <2>4
  <2>6. next \in Callers(k)' /\ next # Nobody /\ k \in flights'
    BY <1>0, <2>3, <2>5, NobodyAssumption DEF Queued, Callers, At, LineAt
  <2> DEFINE rest == Tail(line)
  <2>7. waiters'[k] = rest /\ rest \in Seq(Tasks) /\ DOMAIN rest = 1..(n - 1)
        /\ \A i \in 1..(n - 1) : rest[i] = line[i + 1]
    BY <2>1, <2>3
  <2> HIDE DEF line, n, rest
  <2>8. ASSUME NEW i \in 1..(n - 1), NEW j \in 1..(n - 1), rest[i] = rest[j]
        PROVE  i = j
    <3>1. i + 1 \in 1..n /\ j + 1 \in 1..n /\ i \in Int /\ j \in Int
      BY <2>1
    <3>2. i + 1 = j + 1
      BY <2>4, <2>7, <2>8, <3>1
    <3> QED
      BY <3>1, <3>2
  <2>9. ASSUME NEW u
        PROVE  (\E i \in 1..(n - 1) : rest[i] = u) <=> u \in (Queued(k)' \ {next})
    <3>1. ASSUME NEW i \in 2..n, line[i] = u
          PROVE  \E j \in 1..(n - 1) : rest[j] = u
      <4>1. i - 1 \in 1..(n - 1) /\ (i - 1) + 1 = i
        BY <2>1
      <4> QED
        BY <2>7, <3>1, <4>1
    <3>2. ASSUME NEW j \in 1..(n - 1), rest[j] = u
          PROVE  \E i \in 2..n : line[i] = u
      <4>1. j + 1 \in 2..n
        BY <2>1
      <4> QED
        BY <2>7, <3>2, <4>1
    <3>3. (\E i \in 2..n : line[i] = u) <=> (\E i \in 1..n : line[i] = u) /\ next # u
      BY <2>1, <2>2, <2>4
    <3> QED
      BY <2>4, <3>1, <3>2, <3>3
  <2>10. Line(k)' = Queued(k)' \ {holder'[k]}
    <3>1. Line(k)' = {rest[i] : i \in 1..(n - 1)}
      BY <2>7 DEF Line
    <3> QED
      BY <2>3, <2>9, <3>1
  <2>11. \A i, j \in DOMAIN waiters'[k] : waiters'[k][i] = waiters'[k][j] => i = j
    BY <2>7, <2>8
  <2> QED
    BY <2>3, <2>6, <2>7, <2>10, <2>11 DEF LineAt
<1> QED
  BY <1>1, <1>2

(* One more at the end of the line.                                        *)
LEMMA LineGrows ==
    ASSUME NEW k \in Keys, LineAt(k), NEW t \in Tasks, t \notin Callers(k), holder[k] # Nobody,
           holder'[k] = holder[k], waiters'[k] = Append(waiters[k], t), k \in flights',
           Callers(k)' = Callers(k) \cup {t}, Queued(k)' = Queued(k) \cup {t}
    PROVE  LineAt(k)'
<1> DEFINE line == waiters[k]
           n == Len(line)
           longer == Append(line, t)
<1>1. /\ line \in Seq(Tasks) /\ n \in Nat /\ DOMAIN line = 1..n
      /\ \A i, j \in 1..n : line[i] = line[j] => i = j
      /\ \A u : (\E i \in 1..n : line[i] = u) <=> u \in Queued(k) \ {holder[k]}
  BY LineListed
<1>2. t \notin Queued(k) /\ holder[k] \in Callers(k) /\ holder[k] # t
  BY DEF LineAt, Queued, Callers, At
<1>3. /\ longer \in Seq(Tasks) /\ DOMAIN longer = 1..(n + 1)
      /\ \A i \in 1..n : longer[i] = line[i]
      /\ longer[n + 1] = t
  BY <1>1
<1>4. waiters'[k] = longer
  OBVIOUS
<1> HIDE DEF line, n, longer
<1>5. \A i \in 1..n : line[i] # t
  BY <1>1, <1>2
<1>6. \A i, j \in 1..(n + 1) : longer[i] = longer[j] => i = j
  BY <1>1, <1>3, <1>5
<1>7. ASSUME NEW u
      PROVE  (\E i \in 1..(n + 1) : longer[i] = u) <=> u \in (Queued(k)' \ {holder'[k]})
  <2>1. (\E i \in 1..(n + 1) : longer[i] = u) <=> (\E i \in 1..n : line[i] = u) \/ u = t
    BY <1>1, <1>3
  <2> QED
    BY <1>1, <1>2, <2>1
<1>8. holder'[k] # Nobody /\ holder'[k] \in Callers(k)'
  BY <1>2
<1>9. Line(k)' = Queued(k)' \ {holder'[k]}
  <2>1. Line(k)' = {longer[i] : i \in 1..(n + 1)}
    BY <1>3, <1>4 DEF Line
  <2>2. ASSUME NEW u PROVE u \in Line(k)' <=> u \in (Queued(k)' \ {holder'[k]})
    <3>1. u \in Line(k)' <=> \E i \in 1..(n + 1) : longer[i] = u
      BY <2>1
    <3> QED
      BY <1>7, <3>1
  <2> QED
    BY <2>2
<1>10. \A i, j \in DOMAIN waiters'[k] : waiters'[k][i] = waiters'[k][j] => i = j
  BY <1>3, <1>4, <1>6
<1> QED
  BY <1>3, <1>4, <1>8, <1>9, <1>10 DEF LineAt

(* One who only waits goes from wherever they are in the line.             *)
LEMMA LineCloses ==
    ASSUME NEW k \in Keys, LineAt(k), NEW t \in Tasks, holder[k] # t,
           NEW at \in DOMAIN waiters[k], waiters[k][at] = t,
           holder'[k] = holder[k], waiters'[k] = RemoveAt(waiters[k], at), flights' = flights,
           Callers(k)' = Callers(k) \ {t}, Queued(k)' = Queued(k) \ {t}
    PROVE  LineAt(k)'
<1> DEFINE line == waiters[k]
           n == Len(line)
           shorter == RemoveAt(line, at)
<1>1. /\ line \in Seq(Tasks) /\ n \in Nat /\ DOMAIN line = 1..n /\ at \in 1..n
      /\ \A i, j \in 1..n : line[i] = line[j] => i = j
      /\ \A u : (\E i \in 1..n : line[i] = u) <=> u \in Queued(k) \ {holder[k]}
      /\ line[at] = t
  BY LineListed
<1>2. /\ shorter \in Seq(Tasks) /\ DOMAIN shorter = 1..(n - 1)
      /\ \A j \in 1..(n - 1) : shorter[j] = IF j < at THEN line[j] ELSE line[j + 1]
  BY <1>1, LineWithoutOne
<1>3. holder[k] # Nobody /\ holder[k] \in Callers(k) /\ k \in flights
  <2>1. line # <<>>
    BY <1>1
  <2> QED
    BY <2>1 DEF LineAt
<1>4. waiters'[k] = shorter
  OBVIOUS
<1> HIDE DEF line, n, shorter
<1>5. ASSUME NEW i \in 1..(n - 1), NEW j \in 1..(n - 1), shorter[i] = shorter[j]
      PROVE  i = j
  <2>1. /\ i \in 1..n /\ i + 1 \in 1..n /\ j \in 1..n /\ j + 1 \in 1..n
        /\ i \in Int /\ j \in Int /\ at \in Int
    BY <1>1
  <2>2. CASE i < at /\ j < at
    BY <1>1, <1>2, <1>5, <2>1, <2>2
  <2>3. CASE i < at /\ ~ (j < at)
    <3>1. i = j + 1
      BY <1>1, <1>2, <1>5, <2>1, <2>3
    <3> QED
      BY <2>1, <2>3, <3>1
  <2>4. CASE ~ (i < at) /\ j < at
    <3>1. i + 1 = j
      BY <1>1, <1>2, <1>5, <2>1, <2>4
    <3> QED
      BY <2>1, <2>4, <3>1
  <2>5. CASE ~ (i < at) /\ ~ (j < at)
    <3>1. i + 1 = j + 1
      BY <1>1, <1>2, <1>5, <2>1, <2>5
    <3> QED
      BY <2>1, <3>1
  <2> QED
    BY <2>2, <2>3, <2>4, <2>5
<1>6. ASSUME NEW u
      PROVE  (\E i \in 1..(n - 1) : shorter[i] = u) <=> u \in (Queued(k)' \ {holder'[k]})
  <2>1. ASSUME NEW i \in 1..n, line[i] = u, u # t PROVE \E j \in 1..(n - 1) : shorter[j] = u
    <3>1. CASE i < at
      BY <1>1, <1>2, <2>1, <3>1
    <3>2. CASE i > at
      <4>1. i - 1 \in 1..(n - 1) /\ ~(i - 1 < at) /\ (i - 1) + 1 = i
        BY <1>1, <3>2
      <4> QED
        BY <1>2, <2>1, <4>1
    <3> QED
      BY <1>1, <2>1, <3>1, <3>2
  <2>2. ASSUME NEW j \in 1..(n - 1), shorter[j] = u
        PROVE  u # t /\ \E i \in 1..n : line[i] = u
    <3>1. j \in 1..n /\ j + 1 \in 1..n /\ j \in Int /\ at \in Int
      BY <1>1
    <3>2. CASE j < at
      BY <1>1, <1>2, <2>2, <3>1, <3>2
    <3>3. CASE ~ (j < at)
      BY <1>1, <1>2, <2>2, <3>1, <3>3
    <3> QED
      BY <3>2, <3>3
  <2> QED
    BY <1>1, <2>1, <2>2
<1>7. holder'[k] # Nobody /\ holder'[k] \in Callers(k)' /\ k \in flights'
  BY <1>3
<1>8. Line(k)' = Queued(k)' \ {holder'[k]}
  <2>1. Line(k)' = {shorter[i] : i \in 1..(n - 1)}
    BY <1>2, <1>4 DEF Line
  <2> QED
    BY <1>6, <2>1
<1>9. \A i, j \in DOMAIN waiters'[k] : waiters'[k][i] = waiters'[k][j] => i = j
  BY <1>2, <1>4, <1>5
<1> QED
  BY <1>2, <1>4, <1>7, <1>8, <1>9 DEF LineAt

(* A step of one task leaves the others where they are.                    *)
LEMMA OthersStay ==
    ASSUME Shape, NEW t \in Tasks, NEW r, tasks' = [tasks EXCEPT ![t] = r], NEW k \in Keys
    PROVE  /\ tasks'[t] = r
           /\ Callers(k)' = IF r.pc \in {"waiting", "asking", "answered"} /\ r.key = k
                            THEN Callers(k) \cup {t} ELSE Callers(k) \ {t}
           /\ Queued(k)' = IF r.pc = "waiting" /\ r.key = k
                           THEN Queued(k) \cup {t} ELSE Queued(k) \ {t}
<1>1. tasks'[t] = r /\ \A u \in Tasks \ {t} : tasks'[u] = tasks[u]
  BY DEF Shape
<1> QED
  BY <1>1 DEF Callers, Queued, At

LEMMA FinishedIsNoCaller ==
    ASSUME Shape, NEW t \in Tasks, NEW outcome, Finish(t, outcome), NEW k \in Keys
    PROVE  Callers(k)' = Callers(k) \ {t} /\ Queued(k)' = Queued(k) \ {t}
<1> DEFINE r == [pc |-> "idle", result |-> outcome]
<1>1. r.pc = "idle" /\ tasks' = [tasks EXCEPT ![t] = r]
  BY DEF Finish
<1> HIDE DEF r
<1> QED
  BY <1>1, OthersStay

(* Who is idle or writes wants no lock, and who wants one wants one only.  *)
LEMMA NoCaller ==
    ASSUME NEW t \in Tasks, NEW k \in Keys,
           tasks[t].pc \notin {"waiting", "asking", "answered"} \/ tasks[t].key # k
    PROVE  t \notin Callers(k) /\ t \notin Queued(k)
BY DEF Callers, Queued, At

LEMMA FinishedElsewhere ==
    ASSUME Shape, NEW t \in Tasks, NEW outcome, Finish(t, outcome), NEW k \in Keys,
           tasks[t].pc \notin {"waiting", "asking", "answered"} \/ tasks[t].key # k
    PROVE  Callers(k)' = Callers(k) /\ Queued(k)' = Queued(k)
<1>1. t \notin Callers(k) /\ t \notin Queued(k)
  BY NoCaller
<1>2. Callers(k)' = Callers(k) \ {t} /\ Queued(k)' = Queued(k) \ {t}
  BY FinishedIsNoCaller
<1> QED
  BY <1>1, <1>2

(* A step that leaves flights and locks, and who calls and waits, alone.   *)
LEMMA LocksUntouched ==
    ASSUME LockInv, UNCHANGED locks,
           \A k \in Keys : /\ Callers(k)' = Callers(k)
                           /\ Queued(k)' \ {holder[k]} = Queued(k) \ {holder[k]}
    PROVE  LockInv'
<1>1. ASSUME NEW k \in Keys PROVE LineAt(k)'
  <2>1. LineAt(k) /\ UNCHANGED <<flights, holder, waiters>>
    BY DEF LockInv, locks
  <2> QED
    BY <2>1, LineUntouched
<1> QED
  BY <1>1 DEF LockInv, locks

(* The holder of a lock returns, raises or is cancelled.                   *)
LEMMA HolderLeaves ==
    ASSUME LockInv, Shape, NEW t \in Tasks, NEW key \in Keys, tasks[t].key = key,
           holder[key] = t, Leave(key), NEW outcome, Finish(t, outcome)
    PROVE  LockInv'
<1>1. waiters' = [k \in Keys |-> waiters'[k]]
  BY DEF LockInv, Leave
<1>2. LineAt(key)'
  BY FinishedIsNoCaller, LineMovesUp
<1>3. ASSUME NEW k \in Keys \ {key} PROVE LineAt(k)'
  <2>1. /\ holder'[k] = holder[k] /\ waiters'[k] = waiters[k]
        /\ k \in flights' <=> k \in flights
    BY DEF LockInv, Shape, Leave
  <2>2. Callers(k)' = Callers(k) /\ Queued(k)' = Queued(k)
    BY FinishedElsewhere
  <2> QED
    BY <2>1, <2>2, LineUntouched DEF LockInv
<1> QED
  BY <1>1, <1>2, <1>3 DEF LockInv

(* Who fetches holds the lock.                                             *)
LEMMA FetcherHolds ==
    ASSUME Shape, OneFetchPerKey, NEW t \in Tasks, tasks[t].pc \in {"asking", "answered"}
    PROVE  tasks[t].key \in Keys /\ holder[tasks[t].key] = t
<1>1. tasks[t].key \in Keys
  BY TaskShape
<1>2. t \in Fetchers(tasks[t].key)
  BY DEF Fetchers, At
<1> QED
  BY <1>1, <1>2 DEF OneFetchPerKey

LEMMA MissKeepsLocks ==
    ASSUME LockInv, Shape, NEW t \in Tasks, NEW key \in Keys, Miss(t, key)
    PROVE  LockInv'
<1>0. /\ \A k \in Keys : t \notin Callers(k) /\ t \notin Queued(k)
      /\ flights' = flights \cup {key} /\ LineAt(key)
  BY NoCaller DEF Miss, LockInv
<1>1. CASE holder[key] = Nobody
  <2> DEFINE r == [pc |-> "asking", key |-> key, cached |-> entries[key]]
  <2>1. /\ holder' = [holder EXCEPT ![key] = t] /\ waiters' = waiters
        /\ tasks' = [tasks EXCEPT ![t] = r]
    BY <1>1 DEF Miss, Ask
  <2>2. r.pc = "asking" /\ r.key = key
    OBVIOUS
  <2> HIDE DEF r
  <2>3. \A k \in Keys : Callers(k)' = (IF k = key THEN Callers(k) \cup {t} ELSE Callers(k) \ {t})
                        /\ Queued(k)' = Queued(k) \ {t}
    BY <2>1, <2>2, OthersStay
  <2>4. holder'[key] = t /\ waiters'[key] = <<>> /\ t # Nobody
    BY <1>0, <1>1, <2>1, NobodyAssumption DEF LineAt, Shape
  <2>5. Queued(key) = {}
    BY <1>0, <1>1, <2>1, <2>4, NobodyAssumption DEF LineAt, Line, Queued, At
  <2>6. Line(key)' = {} /\ Queued(key)' = {}
    BY <2>3, <2>4, <2>5 DEF Line
  <2>7. LineAt(key)'
    BY <1>0, <2>3, <2>4, <2>6 DEF LineAt
  <2>8. ASSUME NEW k \in Keys \ {key} PROVE LineAt(k)'
    <3>1. holder'[k] = holder[k] /\ waiters'[k] = waiters[k] /\ (k \in flights' <=> k \in flights)
      BY <1>0, <2>1 DEF Shape
    <3>2. Callers(k)' = Callers(k) /\ Queued(k)' = Queued(k)
      BY <1>0, <2>3
    <3> QED
      BY <3>1, <3>2, LineUntouched DEF LockInv
  <2> QED
    BY <2>1, <2>7, <2>8 DEF LockInv
<1>2. CASE holder[key] # Nobody
  <2> DEFINE r == [pc |-> "waiting", key |-> key]
  <2>1. /\ holder' = holder /\ waiters' = [waiters EXCEPT ![key] = Append(@, t)]
        /\ tasks' = [tasks EXCEPT ![t] = r]
    BY <1>2 DEF Miss
  <2>2. r.pc = "waiting" /\ r.key = key
    OBVIOUS
  <2> HIDE DEF r
  <2>3. \A k \in Keys :
            /\ Callers(k)' = IF k = key THEN Callers(k) \cup {t} ELSE Callers(k) \ {t}
            /\ Queued(k)' = IF k = key THEN Queued(k) \cup {t} ELSE Queued(k) \ {t}
    BY <2>1, <2>2, OthersStay
  <2>4. waiters'[key] = Append(waiters[key], t)
    BY <2>1 DEF LockInv
  <2>5. LineAt(key)'
    BY <1>0, <1>2, <2>1, <2>3, <2>4, LineGrows
  <2>6. ASSUME NEW k \in Keys \ {key} PROVE LineAt(k)'
    <3>1. holder'[k] = holder[k] /\ waiters'[k] = waiters[k] /\ (k \in flights' <=> k \in flights)
      BY <1>0, <2>1 DEF LockInv
    <3>2. Callers(k)' = Callers(k) /\ Queued(k)' = Queued(k)
      BY <1>0, <2>3
    <3> QED
      BY <3>1, <3>2, LineUntouched DEF LockInv
  <2>7. waiters' = [k \in Keys |-> waiters'[k]]
    BY <2>1 DEF LockInv
  <2> QED
    BY <2>5, <2>6, <2>7 DEF LockInv
<1> QED
  BY <1>1, <1>2

LEMMA CancelKeepsLocks ==
    ASSUME LockInv, Shape, OneFetchPerKey, NEW t \in Tasks, Cancel(t)
    PROVE  LockInv'
<1>0. /\ Finish(t, "cancelled") /\ tasks[t].key \in Keys
      /\ tasks[t].pc \in {"waiting", "asking", "answered", "writing", "written"}
  BY TaskShape DEF Cancel
<1>1. CASE tasks[t].pc \in {"writing", "written"}
  <2>1. UNCHANGED locks
    BY <1>1 DEF Cancel
  <2>2. \A k \in Keys : Callers(k)' = Callers(k) /\ Queued(k)' = Queued(k)
    BY <1>0, <1>1, FinishedElsewhere
  <2> QED
    BY <2>1, <2>2, LocksUntouched
<1>2. CASE tasks[t].pc \notin {"writing", "written"} /\ holder[tasks[t].key] = t
  <2>1. Leave(tasks[t].key)
    BY <1>2 DEF Cancel
  <2>2. PICK key \in Keys : key = tasks[t].key
    BY <1>0
  <2> QED
    BY <1>0, <1>2, <2>1, <2>2, HolderLeaves
<1>3. CASE tasks[t].pc \notin {"writing", "written"} /\ holder[tasks[t].key] # t
  <2>1. PICK key \in Keys : key = tasks[t].key
    BY <1>0
  <2>2. PICK at \in DOMAIN waiters[key] :
            /\ waiters[key][at] = t
            /\ waiters' = [waiters EXCEPT ![key] = RemoveAt(@, at)]
            /\ flights' = flights /\ holder' = holder
    BY <1>3, <2>1 DEF Cancel
  <2>3. waiters'[key] = RemoveAt(waiters[key], at) /\ LineAt(key)
    BY <2>2 DEF LockInv
  <2>4. \A k \in Keys : Callers(k)' = Callers(k) \ {t} /\ Queued(k)' = Queued(k) \ {t}
    BY <1>0, FinishedIsNoCaller
  <2>5. LineAt(key)'
    BY <1>3, <2>1, <2>2, <2>3, <2>4, LineCloses
  <2>6. ASSUME NEW k \in Keys \ {key} PROVE LineAt(k)'
    <3>1. holder'[k] = holder[k] /\ waiters'[k] = waiters[k] /\ (k \in flights' <=> k \in flights)
      BY <2>2 DEF LockInv
    <3>2. Callers(k)' = Callers(k) /\ Queued(k)' = Queued(k)
      BY <2>1, <2>4, NoCaller
    <3> QED
      BY <3>1, <3>2, LineUntouched DEF LockInv
  <2>7. waiters' = [k \in Keys |-> waiters'[k]]
    BY <2>2 DEF LockInv
  <2> QED
    BY <2>5, <2>6, <2>7 DEF LockInv
<1> QED
  BY <1>1, <1>2, <1>3

LEMMA LockStep ==
    ASSUME LockInv, Shape, OneFetchPerKey, [Next]_vars
    PROVE  LockInv'
<1>1. ASSUME NEW t \in Tasks, NEW key \in Keys, Hit(t, key)
      PROVE  LockInv'
  <2>1. UNCHANGED locks /\ Finish(t, "document") /\ tasks[t].pc = "idle"
    BY <1>1 DEF Hit
  <2>2. \A k \in Keys : Callers(k)' = Callers(k) /\ Queued(k)' = Queued(k)
    BY <2>1, FinishedElsewhere
  <2> QED
    BY <2>1, <2>2, LocksUntouched
<1>2. ASSUME NEW t \in Tasks, NEW key \in Keys, SetSend(t, key)
      PROVE  LockInv'
  <2> DEFINE r == [pc |-> "writing", key |-> key, answer |-> 0]
  <2>1. /\ UNCHANGED locks /\ tasks[t].pc = "idle"
        /\ tasks' = [tasks EXCEPT ![t] = r] /\ r.pc = "writing"
    BY <1>2 DEF SetSend
  <2> HIDE DEF r
  <2>2. ASSUME NEW k \in Keys PROVE Callers(k)' = Callers(k) /\ Queued(k)' = Queued(k)
    <3>1. t \notin Callers(k) /\ t \notin Queued(k)
      BY <2>1, NoCaller
    <3>2. Callers(k)' = Callers(k) \ {t} /\ Queued(k)' = Queued(k) \ {t}
      BY <2>1, OthersStay
    <3> QED
      BY <3>1, <3>2
  <2> QED
    BY <2>1, <2>2, LocksUntouched
<1>3. ASSUME NEW t \in Tasks, Resume(t)
      PROVE  LockInv'
  <2>1. tasks[t].pc = "waiting" /\ tasks[t].key \in Keys /\ holder[tasks[t].key] = t
    BY <1>3, TaskShape DEF Resume
  <2>2. PICK key \in Keys : key = tasks[t].key
    BY <2>1
  <2>3. CASE Leave(tasks[t].key) /\ Finish(t, "document")
    BY <2>1, <2>2, <2>3, HolderLeaves
  <2>4. CASE Ask(t, tasks[t].key) /\ UNCHANGED locks
    <3> DEFINE r == [pc |-> "asking", key |-> tasks[t].key, cached |-> entries[tasks[t].key]]
    <3>1. r.pc = "asking" /\ r.key = key /\ tasks' = [tasks EXCEPT ![t] = r]
      BY <2>2, <2>4 DEF Ask
    <3> HIDE DEF r
    <3>2. t \in Callers(key)
      BY <2>1, <2>2 DEF Callers, At
    <3>3. ASSUME NEW k \in Keys
          PROVE  /\ Callers(k)' = Callers(k)
                 /\ Queued(k)' \ {holder[k]} = Queued(k) \ {holder[k]}
      <4>0. /\ Callers(k)' = IF k = key THEN Callers(k) \cup {t} ELSE Callers(k) \ {t}
            /\ Queued(k)' = Queued(k) \ {t}
        BY <3>1, OthersStay
      <4>1. CASE k = key
        <5>1. holder[k] = t
          BY <2>1, <2>2, <4>1
        <5> QED
          BY <3>2, <4>0, <4>1, <5>1
      <4>2. CASE k # key
        <5>1. t \notin Callers(k) /\ t \notin Queued(k)
          BY <2>2, <4>2, NoCaller
        <5> QED
          BY <4>0, <4>2, <5>1
      <4> QED
        BY <4>1, <4>2
    <3> QED
      BY <2>4, <3>3, LocksUntouched
  <2> QED
    BY <1>3, <2>3, <2>4 DEF Resume, Deliver
<1>4. ASSUME NEW t \in Tasks, Answer(t)
      PROVE  LockInv'
  <2>1. UNCHANGED locks /\ tasks[t].pc = "asking"
    BY <1>4 DEF Answer
  <2>2. tasks'[t].pc = "answered" /\ tasks'[t].key = tasks[t].key
        /\ \A u \in Tasks \ {t} : tasks'[u] = tasks[u]
    BY <1>4 DEF Answer, Shape
  <2>3. \A k \in Keys : Callers(k)' = Callers(k) /\ Queued(k)' = Queued(k)
    BY <2>1, <2>2 DEF Callers, Queued, At
  <2> QED
    BY <2>1, <2>3, LocksUntouched
<1>5. ASSUME NEW t \in Tasks, SetLand(t)
      PROVE  LockInv'
  <2>1. UNCHANGED locks /\ tasks[t].pc = "writing"
    BY <1>5 DEF SetLand
  <2>2. tasks'[t].pc = "written" /\ \A u \in Tasks \ {t} : tasks'[u] = tasks[u]
    <3>1. tasks[t] \in Writing
      BY <2>1 DEF Shape, Idle, Waiting, Fetching, Answered, Writing
    <3> QED
      BY <1>5, <3>1 DEF SetLand, Shape, Writing
  <2>3. \A k \in Keys : Callers(k)' = Callers(k) /\ Queued(k)' = Queued(k)
    BY <2>1, <2>2 DEF Callers, Queued, At
  <2> QED
    BY <2>1, <2>3, LocksUntouched
<1>6. ASSUME NEW t \in Tasks, Receive(t)
      PROVE  LockInv'
  <2>1. tasks[t].pc \in {"asking", "answered"} /\ Leave(tasks[t].key)
    BY <1>6 DEF Receive, ReceiveNotModified, ReceiveDocument, ReceiveRefusal, Degrade
  <2>2. PICK outcome : Finish(t, outcome)
    BY <1>6 DEF Receive, ReceiveNotModified, ReceiveDocument, ReceiveRefusal, Degrade, Deliver
  <2>3. PICK key \in Keys : key = tasks[t].key /\ holder[tasks[t].key] = t
    BY <2>1, FetcherHolds
  <2> QED
    BY <2>1, <2>2, <2>3, HolderLeaves
<1>7. ASSUME NEW t \in Tasks, SetReceive(t)
      PROVE  LockInv'
  <2>1. UNCHANGED locks /\ tasks[t].pc \in {"writing", "written"}
    BY <1>7 DEF SetReceive, SetAcknowledged, SetRejected, SetLost
  <2>2. PICK outcome : Finish(t, outcome)
    BY <1>7 DEF SetReceive, SetAcknowledged, SetRejected, SetLost
  <2>3. \A k \in Keys : Callers(k)' = Callers(k) /\ Queued(k)' = Queued(k)
    BY <2>1, <2>2, FinishedElsewhere
  <2> QED
    BY <2>1, <2>3, LocksUntouched
<1>8. CASE UNCHANGED <<locks, tasks>>
  <2>1. \A k \in Keys : Callers(k)' = Callers(k) /\ Queued(k)' = Queued(k)
    BY <1>8 DEF Callers, Queued, At
  <2> QED
    BY <1>8, <2>1, LocksUntouched
<1>9. CASE \/ \E token \in Tokens : Forget(token)
           \/ \E key \in Keys : Expire(key)
           \/ WriteElsewhere
           \/ UNCHANGED vars
  BY <1>8, <1>9 DEF Forget, Expire, WriteElsewhere, vars, locks
<1> QED
  BY <1>1, <1>2, <1>3, <1>4, <1>5, <1>6, <1>7, <1>9, MissKeepsLocks, CancelKeepsLocks DEF Next

LEMMA LockInvHolds == Spec => []LockInv
<1>1. Init => LockInv
  <2>1. ASSUME Init, NEW k \in Keys PROVE LineAt(k)
    <3>1. waiters[k] = <<>> /\ holder[k] = Nobody /\ k \notin flights
      BY <2>1 DEF Init
    <3>2. Queued(k) = {} /\ Line(k) = {}
      BY <2>1, <3>1 DEF Init, Queued, At, Line
    <3> QED
      BY <3>1, <3>2 DEF LineAt
  <2> QED
    BY <2>1 DEF Init, LockInv
<1>2. CacheInv /\ LockInv /\ [Next]_vars => LockInv'
  BY LockStep DEF CacheInv
<1> QED
  BY <1>1, <1>2, CacheInvHolds, PTL DEF Spec

(* A flight lives exactly as long as its callers, and its lock is held as  *)
(* long, through cancellations of the holder, of waiters and of the one    *)
(* just woken (FlightsEndWithTheirCallers).                                *)
THEOREM FlightsAlwaysEndWithTheirCallers == Spec => []FlightsEndWithTheirCallers
<1>1. CacheInv /\ LockInv => FlightsEndWithTheirCallers
  <2> SUFFICES ASSUME CacheInv, LockInv, NEW k \in Keys
               PROVE  /\ k \in flights <=> Callers(k) # {}
                      /\ k \in flights <=> holder[k] # Nobody
    BY DEF FlightsEndWithTheirCallers
  <2>1. LineAt(k)
    BY DEF LockInv
  <2>2. ASSUME NEW t \in Callers(k) PROVE holder[k] # Nobody
    <3>1. CASE t \in Fetchers(k)
      BY <3>1, NobodyAssumption DEF CacheInv, OneFetchPerKey, Callers, At
    <3>2. CASE t \notin Fetchers(k)
      <4>1. t \in Queued(k)
        BY <3>2 DEF Callers, Queued, Fetchers, At
      <4>2. CASE holder[k] = t
        BY <4>2, NobodyAssumption DEF Callers, At
      <4>3. CASE holder[k] # t
        BY <2>1, <4>1, <4>3 DEF LineAt, Line
      <4> QED
        BY <4>2, <4>3
    <3> QED
      BY <3>1, <3>2
  <2> QED
    BY <2>1, <2>2 DEF LineAt
<1> QED
  BY <1>1, CacheInvHolds, LockInvHolds, PTL
-----------------------------------------------------------------------------
(* The order of the cache.                                                 *)

(* later, by which keys come after a key, is a strict total order of C.    *)
Ordered(C, later) ==
    /\ \A k \in C : later[k] \subseteq C \ {k}
    /\ \A k \in Keys \ C : later[k] = {}
    /\ \A a, b \in C : a # b => a \in later[b] \/ b \in later[a]
    /\ \A a \in C : \A b \in later[a] : later[b] \subseteq later[a]

(* The inductive invariant: the dict lists each cached key once, and no    *)
(* more of them than the bound.                                            *)
OrderInv ==
    /\ newer \in [Keys -> SUBSET Keys]
    /\ IsFiniteSet(Cached)
    /\ Cardinality(Cached) <= MaxCached
    /\ Ordered(Cached, newer)

(* Of finitely many keys in order one is before all others.                *)
LEMMA OldestOf ==
    ASSUME NEW C \in SUBSET Keys, IsFiniteSet(C), C # {}, NEW later, Ordered(C, later)
    PROVE  \E k \in C : later[k] = C \ {k}
<1> DEFINE Before(k) == C \ later[k]
           T == {Before(k) : k \in C}
<1>1. T \subseteq FiniteSubsetsOf(C) /\ T # {}
  <2>1. \A k \in C : IsFiniteSet(Before(k)) /\ Before(k) \in SUBSET C
    BY FS_Subset
  <2> QED
    BY <2>1 DEF FiniteSubsetsOf
<1>2. \E S \in T : \A R \in T : ~ (<<R, S>> \in StrictSubsetOrdering(C))
  BY <1>1, FS_StrictSubsetOrderingWellFounded, WFMin, Zenon
<1>3. PICK k \in C : \A j \in C : ~ (<<Before(j), Before(k)>> \in StrictSubsetOrdering(C))
  BY <1>2
<1>4. ASSUME NEW j \in C, j # k
      PROVE  j \in later[k]
  <2> SUFFICES ASSUME j \notin later[k] PROVE FALSE
    OBVIOUS
  <2>1. k \in later[j] /\ later[k] \subseteq later[j] /\ k \notin later[k]
    BY <1>4 DEF Ordered
  <2>2. Before(j) \subseteq Before(k) /\ Before(j) # Before(k)
    BY <2>1
  <2> QED
    BY <1>3, <2>2 DEF StrictSubsetOrdering
<1>5. later[k] \subseteq C \ {k}
  BY DEF Ordered
<1> QED
  BY <1>4, <1>5

(* Keys that go leave the others in order.                                 *)
LEMMA WithoutOrdered ==
    ASSUME NEW C \in SUBSET Keys, NEW later \in [Keys -> SUBSET Keys], Ordered(C, later),
           NEW keys \in SUBSET Keys
    PROVE  /\ Without(later, keys) \in [Keys -> SUBSET Keys]
           /\ Ordered(C \ keys, Without(later, keys))
<1>1. \A k \in Keys : Without(later, keys)[k] = IF k \in keys THEN {} ELSE later[k] \ keys
  BY DEF Without
<1>2. Without(later, keys) \in [Keys -> SUBSET Keys]
  BY DEF Without
<1> QED
  BY <1>1, <1>2 DEF Ordered

(* A key put at the end comes after all others, which stay in order.       *)
LEMMA ToEndOrdered ==
    ASSUME newer \in [Keys -> SUBSET Keys], Ordered(Cached, newer), NEW key \in Keys
    PROVE  /\ ToEnd(key) \in [Keys -> SUBSET Keys]
           /\ Ordered(Cached \cup {key}, ToEnd(key))
<1>1. \A k \in Keys : ToEnd(key)[k] = IF k \in Cached \ {key} THEN newer[k] \cup {key} ELSE {}
  BY DEF ToEnd
<1>2. ToEnd(key) \in [Keys -> SUBSET Keys]
  BY DEF ToEnd
<1>3. Cached \subseteq Keys
  BY DEF Cached
<1> QED
  BY <1>1, <1>2, <1>3 DEF Ordered

(* How a step touches the order: not at all, by a hit, by a drop, or by an *)
(* answer that is stored.                                                  *)
LEMMA OrderKinds ==
    ASSUME CacheInv, [Next]_vars
    PROVE  \/ Cached' = Cached /\ newer' = newer
           \/ Cached' = Cached /\ \E key \in Cached : newer' = ToEnd(key)
           \/ /\ \E keys \in SUBSET Keys : /\ Cached' = Cached \ keys
                                           /\ newer' = Without(newer, keys)
              /\ \A t \in Tasks : tasks[t].pc = "answered" => tasks'[t] = tasks[t]
           \/ \E t \in Tasks : ReceiveDocument(t)
<1> USE DEF CacheInv
<1>1. ASSUME NEW t \in Tasks, NEW key \in Keys, Hit(t, key)
      PROVE  Cached' = Cached /\ \E k \in Cached : newer' = ToEnd(k)
  BY <1>1 DEF Hit, Cached, Fresh
<1>2. ASSUME UNCHANGED cache
      PROVE  Cached' = Cached /\ newer' = newer
  BY <1>2 DEF cache, Cached
<1>3. ASSUME NEW t \in Tasks, NEW key \in Keys, Miss(t, key) \/ SetSend(t, key)
      PROVE  UNCHANGED cache
  BY <1>3 DEF Miss, SetSend
<1>4. ASSUME NEW t \in Tasks,
             \/ Resume(t) \/ Answer(t) \/ ReceiveRefusal(t) \/ Degrade(t) \/ Cancel(t)
             \/ SetLand(t) \/ SetRejected(t) \/ SetLost(t)
      PROVE  UNCHANGED cache
  BY <1>4 DEF Resume, Answer, ReceiveRefusal, Degrade, Cancel, SetLand, SetRejected, SetLost
<1>5. ASSUME NEW t \in Tasks, ReceiveNotModified(t)
      PROVE  Cached' = Cached /\ newer' = newer
  <2>1. tasks[t].key \in Keys
    BY <1>5, TaskShape DEF ReceiveNotModified
  <2>2. \A k \in Keys : entries'[k] # NoEntry <=> entries[k] # NoEntry
    <3>1. entries[tasks[t].key] # NoEntry
             => [entries[tasks[t].key] EXCEPT !.fresh = TRUE] \in Entry
      BY <2>1 DEF Shape, Entry
    <3> QED
      BY <1>5, <2>1, <3>1, EntryTyped DEF ReceiveNotModified, Shape
  <2> QED
    BY <1>5, <2>2 DEF ReceiveNotModified, Cached
<1>6. ASSUME NEW key \in Keys, Expire(key)
      PROVE  Cached' = Cached /\ newer' = newer
  <2>1. [entries[key] EXCEPT !.fresh = FALSE] \in Entry
    BY <1>6 DEF Expire, Fresh, Shape, Entry
  <2>2. \A k \in Keys : entries'[k] # NoEntry <=> entries[k] # NoEntry
    BY <1>6, <2>1, EntryTyped DEF Expire, Fresh, Shape
  <2> QED
    BY <1>6, <2>2 DEF Expire, Cached
<1>7. ASSUME NEW keys \in SUBSET Keys, Drop(keys)
      PROVE  Cached' = Cached \ keys /\ newer' = Without(newer, keys)
  BY <1>7 DEF Drop, Cached
<1>8. ASSUME NEW t \in Tasks, SetAcknowledged(t)
      PROVE  /\ \E keys \in SUBSET Keys : /\ Cached' = Cached \ keys
                                          /\ newer' = Without(newer, keys)
             /\ \A u \in Tasks : tasks[u].pc = "answered" => tasks'[u] = tasks[u]
  <2>1. \E keys \in SUBSET Keys : Drop(keys)
    BY <1>8 DEF SetAcknowledged, OfNamespace, OfToken
  <2>2. \A u \in Tasks : tasks[u].pc = "answered" => tasks'[u] = tasks[u]
    BY <1>8 DEF SetAcknowledged, Finish, Shape
  <2> QED
    BY <1>7, <2>1, <2>2
<1>9. ASSUME NEW token \in Tokens, Forget(token)
      PROVE  /\ \E keys \in SUBSET Keys : /\ Cached' = Cached \ keys
                                          /\ newer' = Without(newer, keys)
             /\ \A u \in Tasks : tasks[u].pc = "answered" => tasks'[u] = tasks[u]
  <2>1. \E keys \in SUBSET Keys : Drop(keys)
    BY <1>9 DEF Forget, OfNamespace, OfToken
  <2> QED
    BY <1>7, <1>9, <2>1 DEF Forget
<1>10. CASE WriteElsewhere \/ UNCHANGED vars
  BY <1>2, <1>10 DEF WriteElsewhere, cache, vars
<1> QED
  BY <1>1, <1>2, <1>3, <1>4, <1>5, <1>6, <1>8, <1>9, <1>10 DEF Next, Receive, SetReceive

(* A document is stored: what is evicted was before all others, in a cache *)
(* that was full, and went alone.                                          *)
LEMMA RememberOrder ==
    ASSUME CacheInv, OrderInv, NEW t \in Tasks, ReceiveDocument(t)
    PROVE  /\ OrderInv'
           /\ \A k \in Cached \ Cached' : /\ Cardinality(Cached) = MaxCached
                                          /\ Cached = {k} \cup newer[k]
<1> DEFINE key == tasks[t].key
           inserted == ToEnd(key)
           all == Cached \cup {key}
           evicted == {k \in Keys : Cardinality(inserted[k]) >= MaxCached}
<1>1. key \in Keys /\ [revision |-> tasks[t].answer, fresh |-> TRUE] # NoEntry
  <2>1. tasks[t].key \in Keys /\ tasks[t].answer \in 0..MaxRevision
    BY TaskShape DEF ReceiveDocument, CacheInv
  <2> QED
    BY <2>1, EntryTyped DEF Entry
<1>2. /\ entries' = [k \in Keys |-> IF k \in evicted THEN NoEntry
                                    ELSE IF k = key THEN [revision |-> tasks[t].answer, fresh |-> TRUE]
                                    ELSE entries[k]]
      /\ newer' = Without(inserted, evicted)
  BY DEF ReceiveDocument, Remember
<1>3. /\ inserted \in [Keys -> SUBSET Keys] /\ Ordered(all, inserted)
      /\ \A k \in Keys : inserted[k] = IF k \in Cached \ {key} THEN newer[k] \cup {key} ELSE {}
  BY <1>1, ToEndOrdered DEF OrderInv, ToEnd
<1>4. /\ IsFiniteSet(Cached) /\ Cardinality(Cached) \in Nat /\ Cardinality(Cached) <= MaxCached
      /\ IsFiniteSet(all) /\ Cardinality(all) \in Nat
      /\ Cardinality(all) = IF key \in Cached THEN Cardinality(Cached) ELSE Cardinality(Cached) + 1
      /\ all \in SUBSET Keys /\ key \in all
  BY <1>1, FS_AddElement, FS_CardinalityType DEF OrderInv, Cached
<1>5. MaxCached \in Nat \ {0}
  BY BoundsAssumption
<1>6. Cached' = all \ evicted
  BY <1>1, <1>2 DEF Cached
<1> HIDE DEF key, inserted, all, evicted
<1>7. newer' \in [Keys -> SUBSET Keys] /\ Ordered(Cached', newer')
  <2>1. evicted \in SUBSET Keys
    BY DEF evicted
  <2> QED
    BY <1>2, <1>3, <1>4, <1>6, <2>1, WithoutOrdered
<1>8. ASSUME NEW k \in all
      PROVE  /\ IsFiniteSet(inserted[k]) /\ Cardinality(inserted[k]) \in Nat
             /\ inserted[k] \subseteq all \ {k}
             /\ Cardinality(all \ {k}) = Cardinality(all) - 1 /\ IsFiniteSet(all \ {k})
             /\ Cardinality(inserted[k]) <= Cardinality(all) - 1
  <2>1. inserted[k] \in SUBSET (all \ {k})
    BY <1>3 DEF Ordered
  <2>2. IsFiniteSet(all \ {k}) /\ Cardinality(all \ {k}) = Cardinality(all) - 1
    BY <1>4, FS_RemoveElement
  <2>3. IsFiniteSet(inserted[k]) /\ Cardinality(inserted[k]) <= Cardinality(all \ {k})
    BY <2>1, <2>2, FS_Subset
  <2> QED
    BY <2>1, <2>2, <2>3, FS_CardinalityType
<1>9. ASSUME NEW k \in evicted, k \in all
      PROVE  /\ Cardinality(Cached) = MaxCached /\ key \notin Cached
             /\ inserted[k] = all \ {k} /\ k # key
  <2>1. Cardinality(inserted[k]) >= MaxCached
    BY DEF evicted
  <2>2. Cardinality(all) >= MaxCached + 1
    <3>1. Cardinality(inserted[k]) \in Nat /\ Cardinality(inserted[k]) <= Cardinality(all) - 1
      BY <1>8, <1>9
    <3>2. Cardinality(all) \in Nat /\ MaxCached \in Nat
      BY <1>4, <1>5
    <3> QED
      BY <2>1, <3>1, <3>2
  <2>3. Cardinality(Cached) = MaxCached /\ key \notin Cached /\ Cardinality(all) = MaxCached + 1
    BY <1>4, <1>5, <2>2
  <2>4. Cardinality(inserted[k]) = Cardinality(all \ {k})
    BY <1>5, <1>8, <1>9, <2>1, <2>3
  <2>5. inserted[k] = all \ {k}
    <3>1. inserted[k] \in SUBSET (all \ {k}) /\ IsFiniteSet(all \ {k})
      BY <1>8, <1>9
    <3> QED
      BY <2>4, <3>1, FS_Subset
  <2>6. k # key
    <3>1. Cardinality(inserted[key]) = 0
      BY <1>1, <1>3, <1>4, FS_EmptySet DEF key
    <3> QED
      BY <1>5, <2>1, <3>1
  <2> QED
    BY <2>3, <2>5, <2>6
<1>10. IsFiniteSet(Cached') /\ Cardinality(Cached') \in Nat /\ Cardinality(Cached') <= Cardinality(all)
  <2>1. Cached' \in SUBSET all
    BY <1>6
  <2> QED
    BY <1>4, <2>1, FS_Subset, FS_CardinalityType
<1>11. Cardinality(Cached') <= MaxCached
  <2>1. PICK k \in all : inserted[k] = all \ {k}
    BY <1>3, <1>4, OldestOf
  <2>2. CASE k \in evicted
    <3>1. Cardinality(Cached) = MaxCached
      BY <1>9, <2>1, <2>2
    <3>2. Cached' \in SUBSET (all \ {k})
      BY <1>6, <2>2
    <3>3. Cardinality(Cached') <= Cardinality(all \ {k})
      BY <1>8, <2>1, <3>2, FS_Subset
    <3> QED
      BY <1>4, <1>5, <1>8, <1>10, <2>1, <3>3
  <2>3. CASE k \notin evicted
    <3>1. ~ (Cardinality(inserted[k]) >= MaxCached)
      BY <1>4, <2>3 DEF evicted
    <3>2. Cardinality(inserted[k]) = Cardinality(all) - 1
      BY <1>8, <2>1
    <3> QED
      BY <1>4, <1>5, <1>10, <3>1, <3>2
  <2> QED
    BY <2>2, <2>3
<1>12. ASSUME NEW k \in Cached \ Cached'
       PROVE  Cardinality(Cached) = MaxCached /\ Cached = {k} \cup newer[k]
  <2>1. k \in all /\ k \in evicted /\ k \in Keys
    BY <1>6, <1>12 DEF all, Cached
  <2>2. /\ Cardinality(Cached) = MaxCached /\ key \notin Cached
        /\ inserted[k] = all \ {k} /\ k # key
    BY <1>9, <2>1
  <2>3. inserted[k] = newer[k] \cup {key} /\ newer[k] \subseteq Cached \ {k}
    BY <1>3, <1>12, <2>1, <2>2 DEF OrderInv, Ordered
  <2> QED
    BY <1>12, <2>2, <2>3 DEF all
<1> QED
  BY <1>7, <1>10, <1>11, <1>12 DEF OrderInv

LEMMA OrderStep ==
    ASSUME CacheInv, OrderInv, [Next]_vars
    PROVE  OrderInv'
<1>1. CASE Cached' = Cached /\ newer' = newer
  BY <1>1 DEF OrderInv, Ordered
<1>2. ASSUME Cached' = Cached, NEW key \in Cached, newer' = ToEnd(key)
      PROVE  OrderInv'
  <2>1. key \in Keys /\ Cached \cup {key} = Cached
    BY DEF Cached
  <2>2. newer' \in [Keys -> SUBSET Keys] /\ Ordered(Cached, newer')
    BY <1>2, <2>1, ToEndOrdered DEF OrderInv
  <2> QED
    BY <1>2, <2>2 DEF OrderInv
<1>3. ASSUME NEW keys \in SUBSET Keys, Cached' = Cached \ keys, newer' = Without(newer, keys)
      PROVE  OrderInv'
  <2>1. Cached \in SUBSET Keys /\ newer \in [Keys -> SUBSET Keys] /\ Ordered(Cached, newer)
    BY DEF OrderInv, Cached
  <2>2. newer' \in [Keys -> SUBSET Keys] /\ Ordered(Cached', newer')
    BY <1>3, <2>1, WithoutOrdered
  <2>3. Cached' \in SUBSET Cached
    BY <1>3
  <2>4. /\ IsFiniteSet(Cached') /\ Cardinality(Cached') <= Cardinality(Cached)
        /\ Cardinality(Cached) \in Nat /\ Cardinality(Cached') \in Nat
    BY <2>3, FS_Subset, FS_CardinalityType DEF OrderInv
  <2>5. Cardinality(Cached') <= MaxCached
    BY <2>4, BoundsAssumption DEF OrderInv
  <2> QED
    BY <2>2, <2>4, <2>5 DEF OrderInv
<1> QED
  BY <1>1, <1>2, <1>3, OrderKinds, RememberOrder

LEMMA OrderInvHolds == Spec => []OrderInv
<1>1. Init => OrderInv
  <2>1. ASSUME Init
        PROVE  Cached = {} /\ newer = [k \in Keys |-> {}]
    BY <2>1 DEF Init, Cached
  <2>2. ASSUME Init
        PROVE  IsFiniteSet(Cached) /\ Cardinality(Cached) <= MaxCached
    BY <2>1, <2>2, FS_EmptySet, BoundsAssumption
  <2> QED
    BY <2>1, <2>2 DEF OrderInv, Ordered
<1>2. CacheInv /\ OrderInv /\ [Next]_vars => OrderInv'
  BY OrderStep
<1> QED
  BY <1>1, <1>2, CacheInvHolds, PTL DEF Spec

(* No interleaving of inserts, hits, drops and late answers makes the      *)
(* cache hold more than its bound.                                         *)
THEOREM CacheIsAlwaysBounded == Spec => []CacheIsBounded
<1>1. OrderInv => CacheIsBounded
  BY DEF OrderInv, CacheIsBounded
<1> QED
  BY <1>1, OrderInvHolds, PTL

(* The cache keeps to its bound, and only the oldest entry of a full cache *)
(* is driven out, and alone (EvictionTakesTheOldest).                      *)
THEOREM EvictionAlwaysTakesTheOldest == Spec => EvictionTakesTheOldest
<1>1. ASSUME CacheInv, OrderInv, [Next]_vars, NEW t \in Tasks, NEW k \in EvictedBy(t)
      PROVE  Cardinality(Cached) = MaxCached /\ Cached = {k} \cup newer[k]
  <2>1. /\ k \in Cached /\ k \notin Cached'
        /\ tasks[t].pc = "answered" /\ tasks'[t].pc = "idle"
    BY <1>1 DEF EvictedBy, Cached
  <2>2. ASSUME NEW u \in Tasks, ReceiveDocument(u)
        PROVE  Cardinality(Cached) = MaxCached /\ Cached = {k} \cup newer[k]
    BY <1>1, <2>1, <2>2, RememberOrder
  <2> QED
    BY <1>1, <2>1, <2>2, OrderKinds
<1>2. OrderInv' => CacheIsBounded'
  BY DEF OrderInv, CacheIsBounded
<1>3. CacheInv /\ OrderInv /\ OrderInv' /\ [Next]_vars =>
         [/\ CacheIsBounded'
          /\ \A t \in Tasks : \A k \in EvictedBy(t) :
                Cardinality(Cached) = MaxCached /\ Cached = {k} \cup newer[k]]_vars
  BY <1>1, <1>2
<1> QED
  BY <1>3, CacheInvHolds, OrderInvHolds, PTL DEF Spec, EvictionTakesTheOldest
-----------------------------------------------------------------------------
(* Types.                                                                  *)

(* What the other invariants leave open of TypeOK.                         *)
NamesInv == known \subseteq Namespaces /\ flights \subseteq Keys

LEMMA NamesStep ==
    ASSUME CacheInv, NamesInv, [Next]_vars
    PROVE  NamesInv'
<1>1. ASSUME NEW t \in Tasks, tasks[t].pc # "idle"
      PROVE  tasks[t].key \in Keys /\ NamespaceOf(tasks[t].key) \in Namespaces
  BY <1>1, TaskShape, KeysAssumption DEF CacheInv, NamespaceOf
<1>2. ASSUME NEW t \in Tasks, NEW key \in Keys, Hit(t, key) \/ Miss(t, key) \/ SetSend(t, key)
      PROVE  NamesInv'
  BY <1>2 DEF NamesInv, Hit, Miss, SetSend, locks
<1>3. ASSUME NEW t \in Tasks, ReceiveDocument(t)
      PROVE  NamesInv'
  BY <1>1, <1>3 DEF NamesInv, ReceiveDocument, Leave
<1>4. ASSUME NEW t \in Tasks,
             \/ Resume(t) \/ Answer(t) \/ Cancel(t) \/ SetLand(t) \/ SetReceive(t)
             \/ ReceiveNotModified(t) \/ ReceiveRefusal(t) \/ Degrade(t)
      PROVE  NamesInv'
  BY <1>4 DEF NamesInv, Resume, Answer, Cancel, SetLand, SetReceive, SetAcknowledged,
     SetRejected, SetLost, ReceiveNotModified, ReceiveRefusal, Degrade, Leave, locks
<1>5. CASE \/ \E token \in Tokens : Forget(token)
           \/ \E key \in Keys : Expire(key)
           \/ WriteElsewhere
           \/ UNCHANGED vars
  BY <1>5 DEF NamesInv, Forget, Expire, WriteElsewhere, vars, locks
<1> QED
  BY <1>2, <1>3, <1>4, <1>5 DEF Next, Receive

(* Every variable keeps its type: each by the invariant that speaks of it, *)
(* the waiters by the line behind a lock and the order of the cache by the *)
(* order of its keys.                                                      *)
THEOREM ClientTypeOK == Spec => []TypeOK
<1>1. Init => NamesInv
  BY DEF Init, NamesInv
<1>2. CacheInv /\ NamesInv /\ [Next]_vars => NamesInv'
  BY NamesStep
<1>3. CacheInv /\ LockInv /\ OrderInv /\ NamesInv => TypeOK
  <2> SUFFICES ASSUME CacheInv, LockInv, OrderInv, NamesInv
               PROVE  TypeOK
    OBVIOUS
  <2>1. waiters \in [Keys -> Seq(Tasks)]
    BY DEF LockInv, LineAt
  <2>2. holder \in [Keys -> Tasks \cup {Nobody}]
    <3>1. \A k \in Keys : holder[k] \in Tasks \cup {Nobody}
      BY DEF LockInv, LineAt, Callers, At
    <3>2. holder = [k \in Keys |-> holder[k]]
      BY DEF CacheInv, Shape
    <3> QED
      BY <3>1, <3>2
  <2> QED
    BY <2>1, <2>2 DEF TypeOK, CacheInv, Shape, OrderInv, NamesInv
<1> QED
  BY <1>1, <1>2, <1>3, CacheInvHolds, LockInvHolds, OrderInvHolds, PTL DEF Spec
=============================================================================
