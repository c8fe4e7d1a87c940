--------------------------- MODULE Database_proofs ---------------------------
(***************************************************************************)
(* An erasure that was answered left nothing behind, nothing follows the   *)
(* close, and calls are atomic, for any number of tasks, rows, retired     *)
(* keys and troubles.                                                      *)
(*                                                                         *)
(* All rest on what a task may take an answer for: a live job is the one   *)
(* its task awaits, no task has two, and none of a task that has its       *)
(* answer.  So the answer of a checkpoint is that of the checkpoint which  *)
(* was submitted after the erasing transaction had committed, and the      *)
(* effect of a transaction falls between the call and its answer.          *)
(***************************************************************************)
EXTENDS Database, SequenceTheorems, TLAPS

QueueTypes ==
    /\ queue \in Seq(Jobs)
    /\ running \in Jobs \cup {None}
    /\ waiting \in [Tasks -> Works \cup {None}]
    /\ answer \in [Tasks -> {"changed", "unchanged", "busy", "failed", None}]

Awaited(job) == job.live => waiting[job.task] = job.work /\ answer[job.task] = None

OneJob(job, other) == job.live /\ other.live => job.task # other.task

Assigned(job) ==
    /\ job.work.kind = "close" <=> job.task = CLOSER
    /\ job.work.kind = "forget" => job.work.rows = Erasable
ClosesLive(job) == job.task = CLOSER => job.live

QueueInv ==
    /\ QueueTypes
    /\ \A i \in 1..Len(queue) : /\ Awaited(queue[i])
                                /\ Assigned(queue[i])
                                /\ ClosesLive(queue[i])
    /\ running # None => Awaited(running) /\ Assigned(running) /\ ClosesLive(running)
    /\ \A i, j \in 1..Len(queue) : i # j => OneJob(queue[i], queue[j])
    /\ running # None => \A i \in 1..Len(queue) : OneJob(running, queue[i])

(* Nothing is left of a sweep that is over.                                *)
SweepRests == waiting[SWEEPER] = None => sweep = SweepStarts

RestTypes ==
    /\ life \in {"up", "closing", "down"}
    /\ sweep \in [next : DOMAIN DueKeys, removed : BOOLEAN]
    /\ SweepRests
    /\ troubles \in 0..MaxTroubles

DiskTypes ==
    /\ file \in SUBSET Rows
    /\ log \in Seq(SUBSET Rows)
    /\ synced \in 0..Len(log)
    /\ reading \in Nat \cup {None}
    /\ doomed \in [Erasers -> SUBSET Rows]
    /\ cleared \subseteq owed /\ owed \subseteq Rows

ReadingFits == reading # None => reading <= Len(log)

(* What the erasure of a request removed stays out of the table, and, once *)
(* its checkpoint has gone through, off the disk.                          *)
Checked(t) == Awaits(t, "checkpoint") /\ answer[t] \in {"changed", "unchanged"}

DoomedIsGone ==
    \A t \in Erasers : /\ doomed[t] \cap Table = {}
                       /\ Checked(t) => doomed[t] \cap OnDisk = {}

(* While the process closes, only the sweeper's last job and the close are *)
(* on the thread, the close last.                                          *)
LifeInv ==
    /\ life = "up" => waiting[CLOSER] = None
    /\ life # "up" => \A t \in Requests \cup {SWEEPER} : waiting[t] = None
    /\ life = "down" => queue = <<>> /\ running = None /\ waiting[CLOSER] = None
    /\ \A i \in 1..Len(queue) : queue[i].task = CLOSER => i = Len(queue)
    /\ running # None /\ running.task = CLOSER => queue = <<>>

(* A callable that runs on without its task: the task makes no other call  *)
(* meanwhile.                                                              *)
Orphaned == running # None /\ ~running.live

OrphanInv == Orphaned => /\ waiting[running.task] = None
                         /\ running.task = SWEEPER => life # "up"
-----------------------------------------------------------------------------
(* The parts of QueueInv, and what it says of a task that is about to make *)
(* a call: no live job of it is left.                                      *)
LEMMA NoLiveJob ==
    ASSUME QueueInv, NEW t \in Tasks, waiting[t] = None \/ answer[t] # None
    PROVE  /\ \A i \in 1..Len(queue) : queue[i].live => queue[i].task # t
           /\ running # None /\ running.live => running.task # t
<1>1. \A i \in 1..Len(queue) : queue[i] \in Jobs
  BY ElementOfSeq DEF QueueInv, QueueTypes
<1>2. \A job \in Jobs : job.work # None
  BY NoneAssumption DEF Jobs
<1> QED
  BY <1>1, <1>2 DEF QueueInv, QueueTypes, Awaited, Jobs

(* run: one more job at the end of the queue.                              *)
LEMMA SubmitKeepsQueue ==
    ASSUME QueueInv, NEW t \in Tasks, NEW work \in Works,
           waiting[t] = None \/ answer[t] # None,
           work.kind = "close" <=> t = CLOSER,
           work.kind = "forget" => work.rows = Erasable,
           Submit(t, work), running' = running
    PROVE  QueueInv'
<1> DEFINE job == [task |-> t, work |-> work, live |-> TRUE]
<1>1. /\ job \in Jobs
      /\ job.task = t /\ job.work = work /\ job.live
  BY DEF Jobs
<1>2. /\ \A i \in 1..Len(queue) : queue[i] \in Jobs
      /\ Len(queue) \in Nat
  BY ElementOfSeq, LenProperties DEF QueueInv, QueueTypes
<1>3. /\ queue' = Append(queue, job)
      /\ waiting' = [waiting EXCEPT ![t] = work]
      /\ answer' = [answer EXCEPT ![t] = None]
  BY DEF Submit
<1> HIDE DEF job
<1>4. /\ Len(queue') = Len(queue) + 1
      /\ \A i \in 1..Len(queue) : queue'[i] = queue[i]
      /\ queue'[Len(queue) + 1] = job
  BY <1>1, <1>3 DEF QueueInv, QueueTypes
<1>5. QueueTypes'
  BY <1>1, <1>3 DEF QueueInv, QueueTypes
<1>6. /\ waiting'[t] = work /\ answer'[t] = None
      /\ \A u \in Tasks : u # t => waiting'[u] = waiting[u] /\ answer'[u] = answer[u]
  BY <1>3 DEF QueueInv, QueueTypes
<1>7. ASSUME NEW i \in 1..Len(queue)'
      PROVE  Awaited(queue[i])' /\ Assigned(queue[i])' /\ ClosesLive(queue[i])'
  <2>1. CASE i = Len(queue) + 1
    BY <1>1, <1>4, <1>6, <2>1 DEF Awaited, Assigned, ClosesLive
  <2>2. CASE i # Len(queue) + 1
    <3>1. i \in 1..Len(queue) /\ queue'[i] = queue[i]
      BY <1>2, <1>4, <2>2
    <3>2. queue[i].live => queue[i].task # t
      BY <3>1, NoLiveJob
    <3>3. queue[i].task \in Tasks
      BY <1>2, <3>1 DEF Jobs
    <3> QED
      BY <1>6, <3>1, <3>2, <3>3 DEF QueueInv, Awaited, Assigned, ClosesLive
  <2> QED
    BY <2>1, <2>2
<1>8. running' # None => Awaited(running)' /\ Assigned(running)' /\ ClosesLive(running)'
  <2> SUFFICES ASSUME running # None
               PROVE  Awaited(running)' /\ Assigned(running)' /\ ClosesLive(running)'
    OBVIOUS
  <2>1. running.task \in Tasks
    BY DEF QueueInv, QueueTypes, Jobs
  <2>2. running.live => running.task # t
    BY NoLiveJob
  <2> QED
    BY <1>6, <2>1, <2>2 DEF QueueInv, Awaited, Assigned, ClosesLive
<1>9. ASSUME NEW i \in 1..Len(queue)', NEW j \in 1..Len(queue)', i # j
      PROVE  OneJob(queue[i], queue[j])'
  <2>1. /\ i # Len(queue) + 1 => i \in 1..Len(queue) /\ queue'[i] = queue[i]
        /\ j # Len(queue) + 1 => j \in 1..Len(queue) /\ queue'[j] = queue[j]
    BY <1>2, <1>4
  <2> QED
    BY <1>1, <1>4, <1>9, <2>1, NoLiveJob DEF QueueInv, OneJob
<1>10. running' # None => \A i \in 1..Len(queue)' : OneJob(running, queue[i])'
  <2> SUFFICES ASSUME running # None, NEW i \in 1..Len(queue)'
               PROVE  OneJob(running, queue[i])'
    OBVIOUS
  <2>1. i # Len(queue) + 1 => i \in 1..Len(queue) /\ queue'[i] = queue[i]
    BY <1>2, <1>4
  <2> QED
    BY <1>1, <1>4, <2>1, NoLiveJob DEF QueueInv, OneJob
<1> QED
  BY <1>5, <1>7, <1>8, <1>9, <1>10 DEF QueueInv

(* The task takes its answer: it has no live job any more.                 *)
LEMMA ReturnKeepsQueue ==
    ASSUME QueueInv, NEW t \in Tasks, answer[t] # None, Return(t), UNCHANGED thread
    PROVE  QueueInv'
<1>1. /\ \A i \in 1..Len(queue) : queue[i] \in Jobs
      /\ running # None => running \in Jobs
  BY ElementOfSeq DEF QueueInv, QueueTypes
<1>2. /\ queue' = queue /\ running' = running
      /\ waiting' = [waiting EXCEPT ![t] = None]
      /\ answer' = [answer EXCEPT ![t] = None]
  BY DEF Return, thread
<1>3. \A u \in Tasks : u # t => waiting'[u] = waiting[u] /\ answer'[u] = answer[u]
  BY <1>2 DEF QueueInv, QueueTypes
<1>4. QueueTypes'
  BY <1>2 DEF QueueInv, QueueTypes
<1>5. ASSUME NEW job \in Jobs, Awaited(job), job.live => job.task # t
      PROVE  Awaited(job)'
  BY <1>3, <1>5 DEF Awaited, Jobs
<1>6. \A i \in 1..Len(queue) : Awaited(queue[i])'
  BY <1>1, <1>2, <1>5, NoLiveJob DEF QueueInv
<1>7. running # None => Awaited(running)'
  BY <1>1, <1>2, <1>5, NoLiveJob DEF QueueInv
<1> QED
  BY <1>2, <1>4, <1>6, <1>7 DEF QueueInv, Assigned, ClosesLive, OneJob

(* A callable ends: its task, if it still waits, has its answer.           *)
LEMMA AnsweredKeepsQueue ==
    ASSUME QueueInv, running # None, NEW result \in {"changed", "unchanged", "busy", "failed"},
           Answered(result)
    PROVE  QueueInv'
<1>1. \A i \in 1..Len(queue) : queue[i] \in Jobs
  BY ElementOfSeq DEF QueueInv, QueueTypes
<1>2. running \in Jobs
  BY DEF QueueInv, QueueTypes
<1>3. /\ queue' = queue /\ running' = None /\ waiting' = waiting
      /\ answer' = IF running.live THEN [answer EXCEPT ![running.task] = result] ELSE answer
  BY DEF Answered
<1>4. QueueTypes'
  BY <1>3 DEF QueueInv, QueueTypes
<1>5. ASSUME NEW i \in 1..Len(queue) PROVE Awaited(queue[i])'
  <2>1. running.live /\ queue[i].live => queue[i].task # running.task
    BY DEF QueueInv, OneJob
  <2>2. queue[i].live => waiting[queue[i].task] = queue[i].work /\ answer[queue[i].task] = None
    BY DEF QueueInv, Awaited
  <2>3. queue[i].task \in Tasks
    BY <1>1 DEF Jobs
  <2>4. running.live /\ queue[i].live => answer'[queue[i].task] = answer[queue[i].task]
    BY <1>3, <2>1, <2>3 DEF QueueInv, QueueTypes
  <2> QED
    BY <1>3, <2>2, <2>4 DEF Awaited
<1> QED
  BY <1>3, <1>4, <1>5 DEF QueueInv, Assigned, ClosesLive, OneJob

(* The thread takes the first job, or passes over it.                      *)
LEMMA BeginKeepsQueue ==
    ASSUME QueueInv, Begin
    PROVE  QueueInv'
<1>1. /\ \A i \in 1..Len(queue) : queue[i] \in Jobs
      /\ Len(queue) \in Nat
  BY ElementOfSeq, LenProperties DEF QueueInv, QueueTypes
<1>2. /\ queue # <<>> /\ queue' = Tail(queue)
      /\ running' = IF Head(queue).live THEN Head(queue) ELSE None
      /\ waiting' = waiting /\ answer' = answer
  BY DEF Begin
<1>3. /\ Len(queue) > 0 /\ Len(queue') = Len(queue) - 1
      /\ Head(queue) = queue[1]
      /\ \A i \in 1..Len(queue)' : i + 1 \in 1..Len(queue) /\ queue'[i] = queue[i + 1]
  <2>1. Len(queue) > 0
    BY <1>1, <1>2, EmptySeq DEF QueueInv, QueueTypes
  <2>2. /\ Len(queue') = Len(queue) - 1
        /\ \A i \in 1..Len(queue)' : queue'[i] = queue[i + 1]
    BY <1>2, HeadTailProperties DEF QueueInv, QueueTypes
  <2>3. Head(queue) = queue[1]
    BY <1>2 DEF QueueInv, QueueTypes
  <2> QED
    BY <1>1, <2>1, <2>2, <2>3
<1>4. QueueTypes'
  <2>1. queue' \in Seq(Jobs)
    BY <1>2, HeadTailProperties DEF QueueInv, QueueTypes
  <2> QED
    BY <1>1, <1>2, <1>3, <2>1 DEF QueueInv, QueueTypes
<1>5. running' # None => running' = queue[1]
  BY <1>2, <1>3
<1>6. \A i \in 1..Len(queue)' : Awaited(queue[i])' /\ Assigned(queue[i])' /\ ClosesLive(queue[i])'
  BY <1>2, <1>3 DEF QueueInv, Awaited, Assigned, ClosesLive
<1>7. 1 \in 1..Len(queue)
  BY <1>1, <1>3
<1>8. running' # None => Awaited(running)' /\ Assigned(running)' /\ ClosesLive(running)'
  BY <1>2, <1>5, <1>7 DEF QueueInv, Awaited, Assigned, ClosesLive
<1>9. \A i, j \in 1..Len(queue)' : i # j => OneJob(queue[i], queue[j])'
  BY <1>1, <1>3 DEF QueueInv, OneJob
<1>10. running' # None => \A i \in 1..Len(queue)' : OneJob(running, queue[i])'
  BY <1>1, <1>3, <1>5, <1>7 DEF QueueInv, OneJob
<1> QED
  BY <1>4, <1>6, <1>8, <1>9, <1>10 DEF QueueInv

(* A cancelled task leaves no live job behind.                             *)
LEMMA AbandonKeepsQueue ==
    ASSUME QueueInv, NEW t \in Tasks, t # CLOSER, Abandon(t)
    PROVE  /\ QueueInv'
           /\ Len(queue') = Len(queue)
           /\ \A i \in 1..Len(queue) : queue'[i].task = queue[i].task
           /\ running' # None => running # None /\ running'.task = running.task
<1> DEFINE Left(job) == [job EXCEPT !.live = @ /\ job.task # t]
<1>1. \A i \in 1..Len(queue) : queue[i] \in Jobs
  BY ElementOfSeq DEF QueueInv, QueueTypes
<1>2. Len(queue) \in Nat /\ DOMAIN queue = 1..Len(queue)
  BY LenProperties DEF QueueInv, QueueTypes
<1>3. \A job \in Jobs : /\ Left(job) \in Jobs
                        /\ Left(job).task = job.task /\ Left(job).work = job.work
  BY DEF Jobs
<1>4. \A job \in Jobs : Left(job).live <=> job.live /\ job.task # t
  BY DEF Jobs
<1>5. /\ queue' = [i \in 1..Len(queue) |-> Left(queue[i])]
      /\ running' = IF running = None THEN None ELSE Left(running)
      /\ waiting' = [waiting EXCEPT ![t] = None]
      /\ answer' = [answer EXCEPT ![t] = None]
  BY <1>2 DEF Abandon, Return
<1> HIDE DEF Left
<1>6. /\ queue' \in Seq(Jobs)
      /\ Len(queue') = Len(queue)
  <2>1. queue' \in [1..Len(queue) -> Jobs]
    BY <1>1, <1>3, <1>5
  <2>2. queue' \in Seq(Jobs)
    BY <1>2, <2>1, SeqDef
  <2>3. DOMAIN queue' = 1..Len(queue') /\ Len(queue') \in Nat
    BY <2>2, LenProperties
  <2> QED
    BY <1>2, <2>1, <2>2, <2>3
<1>7. \A i \in 1..Len(queue) :
          /\ queue'[i].task = queue[i].task /\ queue'[i].work = queue[i].work
          /\ queue'[i].live <=> queue[i].live /\ queue[i].task # t
          /\ queue[i].task \in Tasks
  <2>1. \A job \in Jobs : job.task \in Tasks
    BY DEF Jobs
  <2> QED
    BY <1>1, <1>3, <1>4, <1>5, <2>1
<1>8. running' # None =>
          /\ running # None
          /\ running'.task = running.task /\ running'.work = running.work
          /\ running'.live <=> running.live /\ running.task # t
          /\ running.task \in Tasks
  <2>1. \A job \in Jobs : job.task \in Tasks
    BY DEF Jobs
  <2>2. running # None => running \in Jobs
    BY DEF QueueInv, QueueTypes
  <2> QED
    BY <1>3, <1>4, <1>5, <2>1, <2>2
<1>9. QueueTypes'
  BY <1>3, <1>5, <1>6 DEF QueueInv, QueueTypes
<1>10. \A u \in Tasks : u # t => waiting'[u] = waiting[u] /\ answer'[u] = answer[u]
  BY <1>5 DEF QueueInv, QueueTypes
<1>11. ASSUME NEW i \in 1..Len(queue)'
       PROVE  Awaited(queue[i])' /\ Assigned(queue[i])' /\ ClosesLive(queue[i])'
  <2>1. i \in 1..Len(queue)
    BY <1>6
  <2>2. Awaited(queue[i]) /\ Assigned(queue[i]) /\ ClosesLive(queue[i])
    BY <2>1 DEF QueueInv
  <2> QED
    BY <1>7, <1>10, <2>1, <2>2 DEF Awaited, Assigned, ClosesLive
<1>12. running' # None => Awaited(running)' /\ Assigned(running)' /\ ClosesLive(running)'
  BY <1>8, <1>10 DEF QueueInv, Awaited, Assigned, ClosesLive
<1>13. \A i, j \in 1..Len(queue)' : i # j => OneJob(queue[i], queue[j])'
  BY <1>6, <1>7 DEF QueueInv, OneJob
<1>14. running' # None => \A i \in 1..Len(queue)' : OneJob(running, queue[i])'
  BY <1>6, <1>7, <1>8 DEF QueueInv, OneJob
<1> QED
  BY <1>6, <1>7, <1>8, <1>9, <1>11, <1>12, <1>13, <1>14 DEF QueueInv
-----------------------------------------------------------------------------
LEMMA Submitted ==
    \A t \in Requests \cup {SWEEPER} : t \in Tasks /\ t # CLOSER
  BY TasksAssumption DEF Tasks, Requests

LEMMA Callables ==
    /\ \A row \in Rows : WriteOf(row) \in Works /\ WriteOf(row).kind = "write"
    /\ ForgetAccount \in Works /\ ForgetAccount.kind = "forget" /\ ForgetAccount.rows = Erasable
    /\ \A i \in DOMAIN DueKeys : PurgeOf(i) \in Works /\ PurgeOf(i).kind = "purge"
    /\ Checkpoint \in Works /\ Checkpoint.kind = "checkpoint"
    /\ Close \in Works /\ Close.kind = "close"
<1>1. \A i \in DOMAIN DueKeys : DueKeys[i] \in SUBSET Rows
  BY RowsAssumption
<1>2. Erasable \in SUBSET Rows
  BY RowsAssumption
<1> QED
  BY <1>1, <1>2 DEF WriteOf, ForgetAccount, PurgeOf, Checkpoint, Close, Works, Transactions

LEMMA SweepsFirst == SweepStarts \in [next : DOMAIN DueKeys, removed : BOOLEAN]
<1>1. DOMAIN DueKeys = 1..Len(DueKeys) /\ Len(DueKeys) \in Nat /\ Len(DueKeys) # 0
  BY RowsAssumption, EmptySeq, LenProperties
<1> QED
  BY <1>1 DEF SweepStarts

(* A sweep's locals end with it: whoever leaves the sweeper waiting for     *)
(* nothing starts them again, and no step of another task does.            *)
LEMMA SweepRestsStep ==
    ASSUME QueueInv, RestTypes, [Next]_vars
    PROVE  SweepRests'
<1>1. /\ SWEEPER \in Tasks /\ CLOSER \in Tasks /\ Requests \subseteq Tasks
      /\ SWEEPER # CLOSER /\ SWEEPER \notin Requests
      /\ waiting \in [Tasks -> Works \cup {None}]
  BY TasksAssumption DEF Tasks, QueueInv, QueueTypes
<1>2. ASSUME NEW t \in Tasks, t # SWEEPER, UNCHANGED sweep,
             (\E work : waiting' = [waiting EXCEPT ![t] = work]) \/ UNCHANGED waiting
      PROVE  SweepRests'
  BY <1>1, <1>2 DEF SweepRests, RestTypes
<1>3. CASE Begin \/ Finish
  BY <1>1, <1>2, <1>3 DEF Begin, Finish, Commit, Rollback, CheckpointTruncate, CheckpointBusy,
     CheckpointFails, CloseConnection, Answered, Return
<1>4. CASE \E t \in Writers, row \in Rows : RequestWrite(t, row)
  BY <1>1, <1>2, <1>4 DEF RequestWrite, Submit, Requests
<1>5. CASE \E t \in Erasers : RequestForget(t)
  BY <1>1, <1>2, <1>5 DEF RequestForget, Submit, Requests
<1>6. CASE \E t \in Requests : RequestReturns(t) \/ Disconnect(t)
  BY <1>1, <1>2, <1>6 DEF RequestReturns, WriteReturns, ForgetGoesOn, ForgetReturns,
     Disconnect, Abandon, Submit, Return
<1>7. CASE Sweep
  <2>1. CASE SweepBegins
    BY <2>1 DEF SweepBegins, SweepRests
  <2>2. CASE SweepGoesOn /\ sweep' # SweepStarts
    <3>1. ASSUME NEW work \in Works, Submit(SWEEPER, work)
          PROVE  waiting'[SWEEPER] # None
      BY <1>1, <3>1, NoneAssumption DEF Submit
    <3>2. CASE sweep.next = Len(DueKeys)
      BY <2>2, <3>1, <3>2, Callables DEF SweepGoesOn, SweepRests
    <3>3. CASE sweep.next # Len(DueKeys)
      <4>1. sweep.next \in 1..Len(DueKeys) /\ DOMAIN DueKeys = 1..Len(DueKeys)
            /\ Len(DueKeys) \in Nat
        BY RowsAssumption, LenProperties DEF RestTypes
      <4>2. PurgeOf(sweep.next + 1) \in Works
        BY <3>3, <4>1, Callables
      <4> QED
        BY <2>2, <3>1, <3>3, <4>2 DEF SweepGoesOn, SweepRests
    <3> QED
      BY <3>2, <3>3
  <2>3. CASE SweepEnds
    BY <2>3 DEF SweepEnds, SweepRests
  <2> QED
    BY <1>7, <2>1, <2>2, <2>3 DEF Sweep, SweepRests
<1>8. CASE Stop \/ Kill \/ PowerLoss
  BY <1>8 DEF Stop, Kill, PowerLoss, Vanish, SweepRests
<1>9. CASE CloseDatabase
  BY <1>1, <1>2, <1>9 DEF CloseDatabase, Submit
<1>10. CASE Start \/ BackupBegins \/ BackupEnds \/ UNCHANGED vars
  BY <1>10 DEF Start, BackupBegins, BackupEnds, vars, SweepRests, RestTypes
<1> QED
  BY <1>3, <1>4, <1>5, <1>6, <1>7, <1>8, <1>9, <1>10 DEF Next

(* Types of what is neither queue nor disk.                                *)
LEMMA RestStep ==
    ASSUME QueueInv, RestTypes, [Next]_vars
    PROVE  RestTypes'
<1>1. /\ DOMAIN DueKeys = 1..Len(DueKeys) /\ Len(DueKeys) \in Nat /\ Len(DueKeys) # 0
  BY RowsAssumption, EmptySeq, LenProperties
<1> SweepRests'
  BY SweepRestsStep
<1>2. ASSUME Trouble PROVE troubles' \in 0..MaxTroubles
  BY <1>2, BoundsAssumption DEF Trouble, RestTypes
<1>3. CASE Begin
  BY <1>3 DEF Begin, RestTypes
<1>4. CASE Finish
  BY <1>2, <1>4 DEF Finish, Commit, Rollback, CheckpointTruncate, CheckpointBusy,
     CheckpointFails, CloseConnection, Answered, RestTypes
<1>5. CASE \E t \in Writers, row \in Rows : RequestWrite(t, row)
  BY <1>5 DEF RequestWrite, RestTypes
<1>6. CASE \E t \in Erasers : RequestForget(t)
  BY <1>6 DEF RequestForget, RestTypes
<1>7. CASE \E t \in Requests : RequestReturns(t) \/ Disconnect(t)
  BY <1>7 DEF RequestReturns, WriteReturns, ForgetGoesOn, ForgetReturns, Disconnect, RestTypes
<1>8. CASE Sweep
  <2>1. CASE SweepBegins \/ SweepEnds
    BY <2>1, SweepsFirst DEF SweepBegins, SweepEnds, RestTypes
  <2>2. CASE SweepGoesOn
    <3>1. sweep.next \in 1..Len(DueKeys) /\ sweep.removed \in BOOLEAN
      BY <1>1 DEF RestTypes
    <3>2. sweep' \in [next : DOMAIN DueKeys, removed : BOOLEAN]
      <4>1. CASE sweep.next # Len(DueKeys)
                 /\ sweep' = [next |-> sweep.next + 1,
                              removed |-> sweep.removed \/ answer[SWEEPER] = "changed"]
        BY <1>1, <3>1, <4>1
      <4>2. CASE sweep' = sweep
        BY <4>2 DEF RestTypes
      <4>3. CASE sweep' = SweepStarts
        BY <4>3, SweepsFirst
      <4> QED
        BY <2>2, <4>1, <4>2, <4>3 DEF SweepGoesOn
    <3> QED
      BY <2>2, <3>2 DEF SweepGoesOn, RestTypes
  <2> QED
    BY <1>8, <2>1, <2>2 DEF Sweep
<1>9. CASE Stop
  BY <1>2, <1>9, SweepsFirst DEF Stop, RestTypes
<1>10. CASE CloseDatabase
  BY <1>10 DEF CloseDatabase, RestTypes
<1>11. CASE Kill \/ PowerLoss
  BY <1>2, <1>11, SweepsFirst DEF Kill, PowerLoss, Vanish, RestTypes
<1>12. CASE Start
  BY <1>12 DEF Start, RestTypes
<1>13. CASE BackupBegins \/ BackupEnds
  BY <1>2, <1>13 DEF BackupBegins, BackupEnds, RestTypes
<1>14. CASE UNCHANGED vars
  BY <1>14 DEF vars, RestTypes
<1> QED
  BY <1>3, <1>4, <1>5, <1>6, <1>7, <1>8, <1>9, <1>10, <1>11, <1>12, <1>13, <1>14 DEF Next

(* Every step treats the queue in one of the ways above.                   *)
LEMMA QueueStep ==
    ASSUME QueueInv, RestTypes, LifeInv, [Next]_vars
    PROVE  QueueInv'
<1>1. ASSUME UNCHANGED <<queue, running, waiting, answer>> PROVE QueueInv'
  BY <1>1 DEF QueueInv, QueueTypes, Awaited, Assigned, ClosesLive, OneJob
<1>2. CASE Begin
  BY <1>2, BeginKeepsQueue
<1>3. CASE Finish
  <2>1. CASE CloseConnection
    <3>1. /\ running # None /\ running.work.kind = "close" /\ running' = None
          /\ Return(CLOSER) /\ queue' = queue
      BY <2>1 DEF CloseConnection
    <3>2. /\ running.task = CLOSER /\ running.live
          /\ \A i \in 1..Len(queue) : queue[i].live => queue[i].task # CLOSER
      BY <3>1 DEF QueueInv, Assigned, ClosesLive, OneJob
    <3>3. \A i \in 1..Len(queue) : queue[i].task \in Tasks
      <4>1. \A i \in 1..Len(queue) : queue[i] \in Jobs
        BY ElementOfSeq DEF QueueInv, QueueTypes
      <4> QED
        BY <4>1 DEF Jobs
    <3>4. \A t \in Tasks : t # CLOSER => waiting'[t] = waiting[t] /\ answer'[t] = answer[t]
      BY <3>1 DEF Return, QueueInv, QueueTypes
    <3>5. QueueTypes'
      BY <3>1 DEF Return, QueueInv, QueueTypes
    <3>6. \A i \in 1..Len(queue) : Awaited(queue[i])'
      BY <3>1, <3>2, <3>3, <3>4 DEF QueueInv, Awaited
    <3> QED
      BY <3>1, <3>5, <3>6 DEF QueueInv, Assigned, ClosesLive, OneJob
  <2>2. CASE ~CloseConnection
    BY <1>3, <2>2, AnsweredKeepsQueue DEF Finish, Commit, Rollback, CheckpointTruncate,
       CheckpointBusy, CheckpointFails
  <2> QED
    BY <2>1, <2>2
<1>4. CASE \E t \in Writers, row \in Rows : RequestWrite(t, row)
  <2> PICK t \in Writers, row \in Rows : RequestWrite(t, row)
    BY <1>4
  <2>1. t \in Tasks /\ t # CLOSER
    BY Submitted DEF Requests
  <2>2. waiting[t] = None /\ Submit(t, WriteOf(row)) /\ running' = running
    BY DEF RequestWrite, Free
  <2> QED
    BY <2>1, <2>2, Callables, SubmitKeepsQueue
<1>5. CASE \E t \in Erasers : RequestForget(t)
  <2> PICK t \in Erasers : RequestForget(t)
    BY <1>5
  <2>1. t \in Tasks /\ t # CLOSER
    BY Submitted DEF Requests
  <2>2. waiting[t] = None /\ Submit(t, ForgetAccount) /\ running' = running
    BY DEF RequestForget, Free
  <2> QED
    BY <2>1, <2>2, Callables, SubmitKeepsQueue
<1>6. CASE \E t \in Requests : RequestReturns(t) \/ Disconnect(t)
  <2> PICK t \in Requests : RequestReturns(t) \/ Disconnect(t)
    BY <1>6
  <2>1. t \in Tasks /\ t # CLOSER
    BY Submitted
  <2>2. CASE WriteReturns(t) \/ ForgetReturns(t)
    BY <2>1, <2>2, ReturnKeepsQueue DEF WriteReturns, ForgetReturns, Awaits
  <2>3. CASE ForgetGoesOn(t)
    <3>1. CASE Ran(t) /\ Submit(t, Checkpoint)
      <4>1. answer[t] # None /\ running' = running
        BY <2>3, <3>1, NoneAssumption DEF ForgetGoesOn, Ran
      <4> QED
        BY <2>1, <3>1, <4>1, Callables, SubmitKeepsQueue
    <3>2. CASE answer[t] = "failed" /\ Return(t) /\ queue' = queue
      <4>1. answer[t] # None /\ UNCHANGED thread
        BY <2>3, <3>2, NoneAssumption DEF ForgetGoesOn, thread
      <4> QED
        BY <2>1, <3>2, <4>1, ReturnKeepsQueue
    <3> QED
      BY <2>3, <3>1, <3>2 DEF ForgetGoesOn
  <2>4. CASE Disconnect(t)
    BY <2>1, <2>4, AbandonKeepsQueue DEF Disconnect
  <2> QED
    BY <2>2, <2>3, <2>4 DEF RequestReturns
<1>7. CASE Sweep
  <2>1. SWEEPER \in Tasks /\ SWEEPER # CLOSER
    BY Submitted
  <2>2. CASE SweepBegins
    <3>1. 1 \in DOMAIN DueKeys
      BY SweepsFirst DEF SweepStarts
    <3>2. waiting[SWEEPER] = None /\ Submit(SWEEPER, PurgeOf(1)) /\ running' = running
      BY <2>2 DEF SweepBegins
    <3> QED
      BY <2>1, <3>1, <3>2, Callables, SubmitKeepsQueue
  <2>3. CASE SweepGoesOn
    <3>1. running' = running
      BY <2>3 DEF SweepGoesOn
    <3>2. Ran(SWEEPER) \/ answer[SWEEPER] = "failed" => answer[SWEEPER] # None
      BY NoneAssumption DEF Ran
    <3>3. CASE /\ Ran(SWEEPER) /\ sweep.next # Len(DueKeys)
               /\ Submit(SWEEPER, PurgeOf(sweep.next + 1))
      <4>1. sweep.next + 1 \in DOMAIN DueKeys
        <5>1. DOMAIN DueKeys = 1..Len(DueKeys) /\ Len(DueKeys) \in Nat
          BY RowsAssumption, LenProperties
        <5> QED
          BY <3>3, <5>1 DEF RestTypes
      <4> QED
        BY <2>1, <3>1, <3>2, <3>3, <4>1, Callables, SubmitKeepsQueue
    <3>4. CASE Ran(SWEEPER) /\ Submit(SWEEPER, Checkpoint)
      BY <2>1, <3>1, <3>2, <3>4, Callables, SubmitKeepsQueue
    <3>5. CASE (Ran(SWEEPER) \/ answer[SWEEPER] = "failed") /\ Return(SWEEPER) /\ queue' = queue
      BY <2>1, <3>1, <3>2, <3>5, ReturnKeepsQueue DEF thread
    <3> QED
      BY <2>3, <3>3, <3>4, <3>5 DEF SweepGoesOn
  <2>4. CASE SweepEnds
    BY <2>1, <2>4, ReturnKeepsQueue DEF SweepEnds
  <2> QED
    BY <1>7, <2>2, <2>3, <2>4 DEF Sweep
<1>8. CASE Stop
  BY <1>8, Submitted, AbandonKeepsQueue DEF Stop
<1>9. CASE CloseDatabase
  <2>1. CLOSER \in Tasks
    BY DEF Tasks
  <2>2. waiting[CLOSER] = None /\ Submit(CLOSER, Close) /\ running' = running
    BY <1>9 DEF CloseDatabase
  <2> QED
    BY <2>1, <2>2, Callables, SubmitKeepsQueue
<1>10. CASE Kill \/ PowerLoss
  <2>1. /\ queue' = <<>> /\ running' = None
        /\ waiting' = [t \in Tasks |-> None] /\ answer' = [t \in Tasks |-> None]
    BY <1>10 DEF Kill, PowerLoss, Vanish
  <2> QED
    BY <2>1 DEF QueueInv, QueueTypes
<1>11. CASE Start \/ BackupBegins \/ BackupEnds \/ UNCHANGED vars
  BY <1>1, <1>11 DEF Start, BackupBegins, BackupEnds, thread, vars
<1> QED
  BY <1>2, <1>3, <1>4, <1>5, <1>6, <1>7, <1>8, <1>9, <1>10, <1>11 DEF Next

(* As long as nobody awaits the close, no close is on the thread.          *)
LEMMA NoClose ==
    ASSUME QueueInv, waiting[CLOSER] = None
    PROVE  /\ \A i \in 1..Len(queue) : queue[i].task # CLOSER
           /\ running # None => running.task # CLOSER
<1>1. CLOSER \in Tasks
  BY DEF Tasks
<1> QED
  BY <1>1, NoLiveJob DEF QueueInv, ClosesLive

(* A task other than the closer makes a call only while the process is up. *)
LEMMA SubmitKeepsLife ==
    ASSUME QueueInv, LifeInv, NEW t \in Requests \cup {SWEEPER}, NEW work,
           life = "up" \/ waiting[t] # None, life \in {"up", "closing", "down"},
           Submit(t, work), running' = running, life' = life
    PROVE  LifeInv'
<1>1. t \in Tasks /\ t # CLOSER /\ CLOSER \in Tasks
  BY Submitted DEF Tasks
<1>2. life = "up" /\ waiting[CLOSER] = None
  BY DEF LifeInv
<1>3. waiting'[CLOSER] = None
  BY <1>1, <1>2 DEF Submit, QueueInv, QueueTypes
<1>4. /\ Len(queue) \in Nat
      /\ Len(queue') = Len(queue) + 1
      /\ \A i \in 1..Len(queue) : queue'[i] = queue[i]
      /\ queue'[Len(queue) + 1].task = t
  BY DEF Submit, QueueInv, QueueTypes
<1>5. \A i \in 1..Len(queue)' : queue'[i].task # CLOSER
  BY <1>1, <1>2, <1>4, NoClose
<1> QED
  BY <1>2, <1>3, <1>5, NoClose DEF LifeInv

LEMMA LifeStep ==
    ASSUME QueueInv, RestTypes, LifeInv, [Next]_vars
    PROVE  LifeInv'
<1>1. /\ life \in {"up", "closing", "down"}
      /\ Len(queue) \in Nat
      /\ \A t \in Requests \cup {SWEEPER} : t \in Tasks /\ t # CLOSER
      /\ CLOSER \in Tasks
  BY Submitted, LenProperties DEF RestTypes, QueueInv, QueueTypes, Tasks
<1>2. ASSUME NEW t \in Requests \cup {SWEEPER}, Return(t), UNCHANGED thread, life' = life
      PROVE  LifeInv'
  <2>1. \A u \in Tasks : waiting[u] = None => waiting'[u] = None
    BY <1>2 DEF Return, QueueInv, QueueTypes
  <2> QED
    BY <1>1, <1>2, <2>1 DEF LifeInv, thread
<1>3. ASSUME UNCHANGED <<queue, waiting, life>>, running' = None PROVE LifeInv'
  BY <1>3 DEF LifeInv
<1>4. CASE Begin
  <2>1. /\ queue # <<>> /\ queue' = Tail(queue) /\ waiting' = waiting /\ life' = life
        /\ running' = IF Head(queue).live THEN Head(queue) ELSE None
    BY <1>4 DEF Begin
  <2>2. /\ Len(queue) > 0 /\ Len(queue') = Len(queue) - 1 /\ Head(queue) = queue[1]
        /\ \A i \in 1..Len(queue)' : i + 1 \in 1..Len(queue) /\ queue'[i] = queue[i + 1]
    <3>1. Len(queue) > 0
      BY <1>1, <2>1, EmptySeq DEF QueueInv, QueueTypes
    <3>2. /\ Len(queue') = Len(queue) - 1
          /\ \A i \in 1..Len(queue)' : queue'[i] = queue[i + 1]
      BY <2>1, HeadTailProperties DEF QueueInv, QueueTypes
    <3>3. Head(queue) = queue[1]
      BY <2>1 DEF QueueInv, QueueTypes
    <3> QED
      BY <1>1, <3>1, <3>2, <3>3
  <2>3. \A i \in 1..Len(queue)' : queue'[i].task = CLOSER => i = Len(queue)'
    BY <1>1, <2>2 DEF LifeInv
  <2>4. running' # None /\ running'.task = CLOSER => queue' = <<>>
    <3> SUFFICES ASSUME running' # None, running'.task = CLOSER
                 PROVE  queue' = <<>>
      OBVIOUS
    <3>1. 1 \in 1..Len(queue) /\ queue[1].task = CLOSER
      BY <1>1, <2>1, <2>2
    <3>2. Len(queue') = 0
      BY <1>1, <2>2, <3>1 DEF LifeInv
    <3>3. queue' \in Seq(Jobs)
      BY <2>1, HeadTailProperties DEF QueueInv, QueueTypes
    <3> QED
      BY <3>2, <3>3, EmptySeq
  <2>5. life # "down"
    BY <2>1 DEF LifeInv
  <2> QED
    BY <2>1, <2>3, <2>4, <2>5 DEF LifeInv
<1>5. CASE Finish
  <2>1. CASE CloseConnection
    <3>1. /\ running # None /\ running.work.kind = "close" /\ running' = None
          /\ life' = "down" /\ Return(CLOSER) /\ queue' = queue
      BY <2>1 DEF CloseConnection
    <3>2. running.task = CLOSER /\ queue = <<>>
      BY <3>1 DEF QueueInv, Assigned, LifeInv
    <3>3. waiting[CLOSER] # None
      BY <3>1, NoClose, <3>2
    <3>4. life # "up"
      BY <3>3 DEF LifeInv
    <3>5. \A t \in Tasks : waiting'[t] = IF t = CLOSER THEN None ELSE waiting[t]
      BY <3>1 DEF Return, QueueInv, QueueTypes
    <3>6. Len(queue') = 0
      BY <3>1, <3>2
    <3> QED
      BY <1>1, <3>1, <3>2, <3>4, <3>5, <3>6 DEF LifeInv
  <2>2. CASE ~CloseConnection
    BY <1>3, <1>5, <2>2 DEF Finish, Commit, Rollback, CheckpointTruncate, CheckpointBusy,
       CheckpointFails, Answered
  <2> QED
    BY <2>1, <2>2
<1>6. CASE \E t \in Writers, row \in Rows : RequestWrite(t, row)
  BY <1>1, <1>6, SubmitKeepsLife DEF RequestWrite, Free, Requests
<1>7. CASE \E t \in Erasers : RequestForget(t)
  BY <1>1, <1>7, SubmitKeepsLife DEF RequestForget, Free, Requests
<1>8. CASE \E t \in Requests : RequestReturns(t) \/ Disconnect(t)
  <2> PICK t \in Requests : RequestReturns(t) \/ Disconnect(t)
    BY <1>8
  <2>1. CASE WriteReturns(t) \/ ForgetReturns(t)
    BY <1>2, <2>1 DEF WriteReturns, ForgetReturns
  <2>2. CASE ForgetGoesOn(t)
    <3>1. waiting[t] # None /\ running' = running /\ life' = life
      BY <2>2 DEF ForgetGoesOn, Awaits
    <3>2. CASE Submit(t, Checkpoint)
      BY <1>1, <3>1, <3>2, SubmitKeepsLife
    <3>3. CASE Return(t) /\ queue' = queue
      BY <1>2, <3>1, <3>3 DEF thread
    <3> QED
      BY <2>2, <3>2, <3>3 DEF ForgetGoesOn
  <2>3. CASE Disconnect(t)
    <3>1. Abandon(t) /\ life' = life /\ waiting[t] # None
      BY <2>3 DEF Disconnect
    <3>2. /\ life = "up" /\ waiting[CLOSER] = None
      BY <1>1, <3>1 DEF LifeInv
    <3>3. /\ Len(queue') = Len(queue)
          /\ \A i \in 1..Len(queue) : queue'[i].task = queue[i].task
          /\ running' # None => running # None /\ running'.task = running.task
      BY <1>1, <3>1, AbandonKeepsQueue
    <3>4. waiting'[CLOSER] = None
      BY <1>1, <3>1, <3>2 DEF Abandon, Return, QueueInv, QueueTypes
    <3> QED
      BY <3>1, <3>2, <3>3, <3>4, NoClose DEF LifeInv
  <2> QED
    BY <2>1, <2>2, <2>3 DEF RequestReturns
<1>9. CASE Sweep
  <2>1. CASE SweepBegins
    BY <1>1, <2>1, SubmitKeepsLife DEF SweepBegins
  <2>2. CASE SweepGoesOn
    <3>1. waiting[SWEEPER] # None /\ running' = running /\ life' = life
      BY <2>2 DEF SweepGoesOn, Awaits
    <3>2. CASE \E work : Submit(SWEEPER, work)
      BY <1>1, <3>1, <3>2, SubmitKeepsLife
    <3>3. CASE Return(SWEEPER) /\ queue' = queue
      BY <1>2, <3>1, <3>3 DEF thread
    <3> QED
      BY <2>2, <3>2, <3>3 DEF SweepGoesOn
  <2>3. CASE SweepEnds
    BY <1>2, <2>3 DEF SweepEnds
  <2> QED
    BY <1>9, <2>1, <2>2, <2>3 DEF Sweep
<1>10. CASE Stop
  <2>1. /\ Abandon(SWEEPER) /\ life = "up" /\ life' = "closing"
        /\ \A t \in Requests : waiting[t] = None
    BY <1>10 DEF Stop
  <2>2. waiting[CLOSER] = None
    BY <2>1 DEF LifeInv
  <2>3. /\ Len(queue') = Len(queue)
        /\ \A i \in 1..Len(queue) : queue'[i].task = queue[i].task
        /\ running' # None => running # None /\ running'.task = running.task
    BY <1>1, <2>1, AbandonKeepsQueue
  <2>4. \A t \in Requests \cup {SWEEPER} : waiting'[t] = None
    BY <1>1, <2>1 DEF Abandon, Return, QueueInv, QueueTypes
  <2> QED
    BY <2>1, <2>2, <2>3, <2>4, NoClose DEF LifeInv
<1>11. CASE CloseDatabase
  <2>1. /\ life = "closing" /\ life' = life /\ waiting[CLOSER] = None
        /\ Submit(CLOSER, Close) /\ running' = running
    BY <1>11 DEF CloseDatabase
  <2>2. /\ Len(queue') = Len(queue) + 1
        /\ \A i \in 1..Len(queue) : queue'[i] = queue[i]
    BY <2>1 DEF Submit, QueueInv, QueueTypes
  <2>3. \A i \in 1..Len(queue)' : queue'[i].task = CLOSER => i = Len(queue)'
    BY <1>1, <2>1, <2>2, NoClose
  <2>4. \A t \in Requests \cup {SWEEPER} : waiting'[t] = None
    BY <1>1, <2>1 DEF Submit, QueueInv, QueueTypes, LifeInv
  <2> QED
    BY <2>1, <2>3, <2>4, NoClose DEF LifeInv
<1>12. CASE Kill \/ PowerLoss
  <2>1. /\ queue' = <<>> /\ running' = None /\ life' = "down"
        /\ waiting' = [t \in Tasks |-> None]
    BY <1>12 DEF Kill, PowerLoss, Vanish
  <2> QED
    BY <1>1, <2>1 DEF LifeInv
<1>13. CASE Start
  BY <1>13 DEF Start, thread, LifeInv
<1>14. CASE BackupBegins \/ BackupEnds \/ UNCHANGED vars
  BY <1>14 DEF BackupBegins, BackupEnds, thread, vars, LifeInv
<1> QED
  BY <1>4, <1>5, <1>6, <1>7, <1>8, <1>9, <1>10, <1>11, <1>12, <1>13, <1>14 DEF Next
-----------------------------------------------------------------------------
(* The disk.  What a connection reads is on it, and nothing is on it that  *)
(* is not in the file or in some commit of the log.                        *)
DiskInv == DiskTypes /\ ReadingFits /\ DoomedIsGone /\ ErasedIsGone

LEMMA TableOnDisk ==
    ASSUME DiskTypes
    PROVE  Table \subseteq OnDisk /\ OnDisk \subseteq Rows
<1>1. /\ Len(log) \in Nat /\ DOMAIN log = 1..Len(log)
      /\ \A i \in 1..Len(log) : log[i] \in SUBSET Rows
      /\ log # <<>> => Len(log) \in 1..Len(log)
  BY ElementOfSeq, LenProperties, EmptySeq DEF DiskTypes
<1> QED
  BY <1>1 DEF Table, OnDisk, DiskTypes

(* A step that neither writes nor erases, and answers no checkpoint.       *)
LEMMA DiskRests ==
    ASSUME DiskInv, UNCHANGED <<disk, reading, owed, cleared>>,
           \A t \in Erasers : /\ doomed'[t] \subseteq doomed[t]
                              /\ Checked(t)' => Checked(t),
           doomed' \in [Erasers -> SUBSET Rows]
    PROVE  DiskInv'
<1>1. /\ file' = file /\ log' = log /\ synced' = synced /\ reading' = reading
      /\ owed' = owed /\ cleared' = cleared
  BY DEF disk
<1>2. Table' = Table /\ OnDisk' = OnDisk
  BY <1>1 DEF Table, OnDisk
<1>3. DoomedIsGone'
  BY <1>2 DEF DiskInv, DoomedIsGone
<1> QED
  BY <1>1, <1>2, <1>3 DEF DiskInv, DiskTypes, ReadingFits, ErasedIsGone

(* The log moves into the file, as far as anyone reads.                    *)
LEMMA TruncateKeepsDisk ==
    ASSUME DiskInv, Truncate, reading' = None, UNCHANGED history
    PROVE  DiskInv'
<1>1. /\ file' = Table /\ log' = <<>> /\ synced' = 0
      /\ doomed' = doomed /\ owed' = owed /\ cleared' = cleared
  BY DEF Truncate, history
<1>2. Table' = Table /\ OnDisk' = Table
  <2>1. DOMAIN log' = {}
    BY <1>1
  <2> QED
    BY <1>1, <2>1 DEF Table, OnDisk
<1>3. Table \subseteq OnDisk /\ OnDisk \subseteq Rows
  BY TableOnDisk DEF DiskInv
<1>4. DiskTypes'
  <2>1. log' \in Seq(SUBSET Rows) /\ Len(log') = 0
    BY <1>1, EmptySeq
  <2> QED
    BY <1>1, <1>3, <2>1 DEF DiskInv, DiskTypes
<1>5. DoomedIsGone'
  BY <1>1, <1>2, <1>3 DEF DiskInv, DoomedIsGone
<1>6. ErasedIsGone'
  BY <1>1, <1>2, <1>3 DEF DiskInv, ErasedIsGone
<1> QED
  BY <1>4, <1>5, <1>6 DEF DiskInv, ReadingFits

(* A transaction adds to the disk what it writes, and that nobody counts   *)
(* as erased any more.  Its answer is not that of a checkpoint.            *)
LEMMA CommitKeepsDisk ==
    ASSUME QueueInv, DiskInv, Commit
    PROVE  DiskInv'
<1> DEFINE new == Outcome(running.work)
           written == IF running.work.kind = "write" THEN running.work.rows ELSE {}
           erases == running.work.kind = "forget" /\ running.live
<1>1. /\ running # None /\ running.work.kind \in Transactions
      /\ log' = IF new = Table THEN log ELSE Append(log, new)
      /\ doomed' = [t \in Erasers |->
                      (IF erases /\ running.task = t THEN Erasable ELSE doomed[t]) \ written]
      /\ owed' = owed \ written /\ cleared' = cleared \ written
      /\ file' = file /\ synced' = synced /\ reading' = reading
      /\ Answered(IF new = Table THEN "unchanged" ELSE "changed")
  BY DEF Commit, Answered
<1>2. running.work \in Works /\ running.work.rows \in SUBSET Rows /\ running.task \in Tasks
  <2>1. running \in Jobs
    BY <1>1 DEF QueueInv, QueueTypes
  <2> QED
    BY <2>1 DEF Jobs, Works
<1>3. Table \subseteq OnDisk /\ OnDisk \subseteq Rows
  BY TableOnDisk DEF DiskInv
<1>4. new \subseteq Table \cup written /\ new \in SUBSET Rows
  BY <1>2, <1>3 DEF Outcome
<1>5. /\ Len(log) \in Nat /\ log' \in Seq(SUBSET Rows)
      /\ Table' = new /\ OnDisk' \subseteq OnDisk \cup written
      /\ Len(log') \in Nat /\ Len(log) <= Len(log')
  <2>1. log \in Seq(SUBSET Rows) /\ Len(log) \in Nat /\ DOMAIN log = 1..Len(log)
    BY LenProperties DEF DiskInv, DiskTypes
  <2>2. CASE new = Table
    BY <1>1, <2>1, <2>2 DEF Table, OnDisk
  <2>3. CASE new # Table
    <3>1. log' = Append(log, new)
      BY <1>1, <2>3
    <3>2. /\ log' \in Seq(SUBSET Rows) /\ Len(log') = Len(log) + 1
          /\ \A i \in 1..Len(log) : log'[i] = log[i]
          /\ log'[Len(log) + 1] = new
      BY <1>4, <2>1, <3>1
    <3>3. DOMAIN log' = 1..(Len(log) + 1) /\ log' # <<>>
      BY <2>1, <3>2, LenProperties, EmptySeq
    <3>4. Table' = new
      BY <3>2, <3>3 DEF Table
    <3>5. OnDisk' \subseteq OnDisk \cup new
      <4>1. \A i \in DOMAIN log' : i = Len(log) + 1 \/ (i \in DOMAIN log /\ log'[i] = log[i])
        BY <2>1, <3>2, <3>3
      <4> QED
        BY <1>1, <3>2, <4>1 DEF OnDisk
    <3> QED
      BY <1>3, <1>4, <2>1, <3>2, <3>4, <3>5
  <2> QED
    BY <2>2, <2>3
<1>6. DiskTypes'
  BY <1>1, <1>5, RowsAssumption DEF DiskInv, DiskTypes
<1>7. ReadingFits'
  BY <1>1, <1>5 DEF DiskInv, DiskTypes, ReadingFits
<1>8. ErasedIsGone'
  BY <1>1, <1>5 DEF DiskInv, ErasedIsGone
<1>9. ASSUME NEW t \in Erasers
      PROVE  /\ doomed'[t] \cap Table' = {}
             /\ Checked(t)' => doomed'[t] \cap OnDisk' = {}
  <2>1. CASE erases /\ running.task = t
    <3>1. doomed'[t] = Erasable \ written /\ written = {} /\ new = Table \ Erasable
      <4>1. running.work.rows = Erasable
        BY <1>1, <2>1 DEF QueueInv, Assigned
      <4> QED
        BY <1>1, <2>1, <4>1 DEF Outcome
    <3>2. ~Awaits(t, "checkpoint")'
      BY <1>1, <2>1 DEF Awaits, Answered, QueueInv, Awaited
    <3> QED
      BY <1>5, <3>1, <3>2 DEF Checked
  <2>2. CASE ~(erases /\ running.task = t)
    <3>1. doomed'[t] = doomed[t] \ written
      BY <1>1, <2>2
    <3>2. Checked(t)' => Checked(t)
      <4>1. CASE running.live /\ running.task = t
        BY <1>1, <4>1 DEF Checked, Awaits, Answered, QueueInv, Awaited, Transactions
      <4>2. CASE ~(running.live /\ running.task = t)
        BY <1>1, <1>2, <4>2 DEF Checked, Awaits, Answered, QueueInv, QueueTypes
      <4> QED
        BY <4>1, <4>2
    <3> QED
      BY <1>4, <1>5, <3>1, <3>2 DEF DiskInv, DoomedIsGone
  <2> QED
    BY <2>1, <2>2
<1> QED
  BY <1>6, <1>7, <1>8, <1>9 DEF DiskInv, DoomedIsGone

(* A checkpoint that a reader of the log holds up.                         *)
LEMMA BusyKeepsDisk ==
    ASSUME QueueInv, DiskInv, CheckpointBusy
    PROVE  DiskInv'
<1>1. /\ running # None /\ reading # None /\ reading' = reading /\ log' = log
      /\ file' = IF reading = 0 THEN file ELSE log[reading]
      /\ synced' \in {synced, Len(log)}
      /\ doomed' = doomed /\ owed' = owed /\ cleared' = cleared
      /\ Answered("busy")
  BY DEF CheckpointBusy, Answered, history
<1>2. /\ Len(log) \in Nat /\ DOMAIN log = 1..Len(log)
      /\ \A i \in 1..Len(log) : log[i] \in SUBSET Rows
      /\ log = <<>> <=> Len(log) = 0
  BY ElementOfSeq, LenProperties, EmptySeq DEF DiskInv, DiskTypes
<1>3. reading \in 0..Len(log)
  BY <1>1, <1>2 DEF DiskInv, DiskTypes, ReadingFits
<1>4. file' = file \/ (log # <<>> /\ \E i \in DOMAIN log : file' = log[i])
  BY <1>1, <1>2, <1>3
<1>5. Table' = Table /\ OnDisk' \subseteq OnDisk
  BY <1>1, <1>4 DEF Table, OnDisk
<1>6. DiskTypes'
  BY <1>1, <1>2, <1>4 DEF DiskInv, DiskTypes
<1>7. ASSUME NEW t \in Erasers, Checked(t)' PROVE Checked(t)
  <2>1. running.task \in Tasks
    <3>1. running \in Jobs
      BY <1>1 DEF QueueInv, QueueTypes
    <3> QED
      BY <3>1 DEF Jobs
  <2> QED
    BY <1>1, <1>7, <2>1 DEF Checked, Awaits, Answered, QueueInv, QueueTypes
<1>8. DoomedIsGone'
  BY <1>1, <1>5, <1>7 DEF DiskInv, DoomedIsGone
<1> QED
  BY <1>1, <1>5, <1>6, <1>8 DEF DiskInv, ReadingFits, ErasedIsGone

(* Whatever a power loss takes was on disk.                                *)
LEMMA PowerLossKeepsDisk ==
    ASSUME DiskInv, PowerLoss
    PROVE  DiskInv'
<1>1. /\ Len(log) \in Nat /\ DOMAIN log = 1..Len(log)
      /\ \A i \in 1..Len(log) : log[i] \in SUBSET Rows
  BY ElementOfSeq, LenProperties DEF DiskInv, DiskTypes
<1> PICK kept \in synced..Len(log) : log' = SubSeq(log, 1, kept)
  BY DEF PowerLoss
<1>2. kept \in 0..Len(log) /\ kept >= synced /\ synced \in Nat
  BY <1>1 DEF DiskInv, DiskTypes
<1>3. /\ log' \in Seq(SUBSET Rows) /\ Len(log') = kept
      /\ \A i \in 1..kept : log'[i] = log[i]
  BY <1>1, <1>2, SubSeqProperties
<1>4. DOMAIN log' = 1..kept
  BY <1>3, LenProperties
<1>5. /\ file' = file /\ synced' = synced /\ reading' = None
      /\ owed' = owed /\ cleared' = cleared /\ doomed' = [t \in Erasers |-> {}]
  BY DEF PowerLoss, Vanish
<1>6. OnDisk' \subseteq OnDisk
  BY <1>1, <1>2, <1>3, <1>4, <1>5 DEF OnDisk
<1>7. DiskTypes'
  BY <1>2, <1>3, <1>5 DEF DiskInv, DiskTypes
<1>8. DoomedIsGone' /\ ErasedIsGone'
  BY <1>5, <1>6 DEF DiskInv, DoomedIsGone, ErasedIsGone
<1> QED
  BY <1>5, <1>7, <1>8 DEF DiskInv, ReadingFits

(* What was erased joins what was answered, when the answer is its         *)
(* checkpoint's.                                                           *)
LEMMA ForgetReturnsKeepsDisk ==
    ASSUME QueueInv, DiskInv, NEW t \in Erasers, ForgetReturns(t)
    PROVE  DiskInv'
<1>1. /\ Awaits(t, "checkpoint") /\ Return(t) /\ UNCHANGED <<disk, reading>>
      /\ owed' = IF Ran(t) THEN owed \cup doomed[t] ELSE owed
      /\ cleared' = IF Ran(t) /\ answer[t] # "busy" THEN cleared \cup doomed[t] ELSE cleared
      /\ doomed' = [doomed EXCEPT ![t] = {}]
  BY DEF ForgetReturns
<1>2. file' = file /\ log' = log /\ synced' = synced /\ reading' = reading
  BY <1>1 DEF disk
<1>3. Table' = Table /\ OnDisk' = OnDisk
  BY <1>2 DEF Table, OnDisk
<1>4. doomed[t] \in SUBSET Rows
  BY DEF DiskInv, DiskTypes
<1>5. DiskTypes'
  BY <1>1, <1>2, <1>4 DEF DiskInv, DiskTypes
<1>6. ASSUME NEW u \in Erasers, Checked(u)', u # t PROVE Checked(u)
  <2>1. u \in Tasks
    BY DEF Tasks, Requests
  <2> QED
    BY <1>1, <1>6, <2>1 DEF Checked, Awaits, Return, QueueInv, QueueTypes
<1>7. DoomedIsGone'
  BY <1>1, <1>3, <1>6 DEF DiskInv, DiskTypes, DoomedIsGone
<1>8. ErasedIsGone'
  <2>1. Ran(t) /\ answer[t] # "busy" => doomed[t] \cap OnDisk = {}
    BY <1>1 DEF Ran, Checked, DiskInv, DoomedIsGone
  <2> QED
    BY <1>1, <1>3, <2>1 DEF DiskInv, ErasedIsGone
<1> QED
  BY <1>2, <1>5, <1>7, <1>8 DEF DiskInv, ReadingFits

LEMMA DiskStep ==
    ASSUME QueueInv, DiskInv, [Next]_vars
    PROVE  DiskInv'
<1>1. ASSUME NEW t \in Tasks, \/ \E work : Submit(t, work)
                              \/ Return(t)
                              \/ Abandon(t)
      PROVE  \A u \in Erasers : Checked(u)' => Checked(u)
  <2>1. /\ answer' = [answer EXCEPT ![t] = None]
        /\ \E w \in Works \cup {None} \cup {waiting'[t]} : waiting' = [waiting EXCEPT ![t] = w]
    BY <1>1 DEF Submit, Return, Abandon, QueueInv, QueueTypes
  <2>2. \A u \in Erasers : u \in Tasks
    BY DEF Tasks, Requests
  <2> QED
    BY <2>1, <2>2, NoneAssumption DEF Checked, Awaits, QueueInv, QueueTypes
<1>2. /\ doomed \in [Erasers -> SUBSET Rows]
      /\ \A t \in Requests \cup {SWEEPER} : t \in Tasks
  BY Submitted DEF DiskInv, DiskTypes
<1>3. ASSUME NEW t \in Tasks, \/ \E work : Submit(t, work)
                              \/ Return(t)
                              \/ Abandon(t),
             UNCHANGED <<disk, reading, history>>
      PROVE  DiskInv'
  BY <1>1, <1>2, <1>3, DiskRests DEF history
<1>4. ASSUME UNCHANGED <<disk, reading, waiting, history>>,
             answer' = answer \/ (running # None /\ Answered("failed"))
      PROVE  DiskInv'
  <2>1. \A u \in Erasers : u \in Tasks
    BY DEF Tasks, Requests
  <2>2. \A u \in Erasers : Checked(u)' => Checked(u)
    <3>1. CASE answer' = answer
      BY <1>4, <3>1 DEF Checked, Awaits
    <3>2. CASE running # None /\ Answered("failed")
      <4>1. running.task \in Tasks
        <5>1. running \in Jobs
          BY <3>2 DEF QueueInv, QueueTypes
        <5> QED
          BY <5>1 DEF Jobs
      <4> QED
        BY <1>4, <2>1, <3>2, <4>1 DEF Answered, Checked, Awaits, QueueInv, QueueTypes
    <3> QED
      BY <1>4, <3>1, <3>2
  <2> QED
    BY <1>2, <1>4, <2>2, DiskRests DEF history
<1>5. CASE Begin
  BY <1>4, <1>5 DEF Begin
<1>6. CASE Finish
  <2>1. CASE Commit
    BY <2>1, CommitKeepsDisk
  <2>2. CASE Rollback \/ CheckpointFails
    BY <1>4, <2>2 DEF Rollback, CheckpointFails, Answered
  <2>3. CASE CheckpointTruncate
    BY <2>3, TruncateKeepsDisk DEF CheckpointTruncate, Answered
  <2>4. CASE CheckpointBusy
    BY <2>4, BusyKeepsDisk
  <2>5. CASE CloseConnection
    <3>1. CLOSER \in Tasks
      BY DEF Tasks
    <3>2. CASE Truncate /\ reading = None
      BY <2>5, <3>2, TruncateKeepsDisk DEF CloseConnection
    <3>3. CASE UNCHANGED disk
      BY <1>3, <2>5, <3>1, <3>3 DEF CloseConnection
    <3> QED
      BY <2>5, <3>2, <3>3 DEF CloseConnection
  <2> QED
    BY <1>6, <2>1, <2>2, <2>3, <2>4, <2>5 DEF Finish
<1>7. CASE \E t \in Writers, row \in Rows : RequestWrite(t, row)
  BY <1>2, <1>3, <1>7 DEF RequestWrite, Requests
<1>8. CASE \E t \in Erasers : RequestForget(t)
  BY <1>2, <1>3, <1>8 DEF RequestForget, Requests
<1>9. CASE \E t \in Requests : RequestReturns(t) \/ Disconnect(t)
  <2> PICK t \in Requests : RequestReturns(t) \/ Disconnect(t)
    BY <1>9
  <2>1. CASE WriteReturns(t) \/ ForgetGoesOn(t)
    BY <1>2, <1>3, <2>1 DEF WriteReturns, ForgetGoesOn
  <2>2. CASE ForgetReturns(t) /\ t \in Erasers
    BY <2>2, ForgetReturnsKeepsDisk
  <2>3. CASE Disconnect(t)
    <3>1. Abandon(t) /\ UNCHANGED <<disk, reading, owed, cleared>>
      BY <2>3 DEF Disconnect
    <3>2. /\ doomed' \in [Erasers -> SUBSET Rows]
          /\ \A u \in Erasers : doomed'[u] \subseteq doomed[u]
      BY <1>2, <2>3 DEF Disconnect
    <3> QED
      BY <1>1, <1>2, <3>1, <3>2, DiskRests
  <2> QED
    BY <2>1, <2>2, <2>3 DEF RequestReturns
<1>10. CASE Sweep
  <2>1. \/ \E work : Submit(SWEEPER, work)
        \/ Return(SWEEPER)
    BY <1>10 DEF Sweep, SweepBegins, SweepGoesOn, SweepEnds
  <2>2. UNCHANGED <<disk, reading, history>>
    BY <1>10 DEF Sweep, SweepBegins, SweepGoesOn, SweepEnds
  <2> QED
    BY <1>2, <1>3, <2>1, <2>2
<1>11. CASE Stop
  BY <1>2, <1>3, <1>11 DEF Stop
<1>12. CASE CloseDatabase
  BY <1>3, <1>12 DEF CloseDatabase, Tasks
<1>13. CASE Kill
  <2>1. /\ UNCHANGED <<disk, reading, owed, cleared>>
        /\ doomed' = [t \in Erasers |-> {}] /\ waiting' = [t \in Tasks |-> None]
    BY <1>13 DEF Kill, Vanish
  <2>2. \A t \in Erasers : t \in Tasks
    BY DEF Tasks, Requests
  <2> QED
    BY <2>1, <2>2, DiskRests DEF Checked, Awaits
<1>14. CASE PowerLoss
  BY <1>14, PowerLossKeepsDisk
<1>15. CASE Start
  BY <1>4, <1>15 DEF Start
<1>16. CASE BackupBegins
  <2>1. /\ reading' = Len(log) /\ UNCHANGED <<disk, history, waiting, answer>>
    BY <1>16 DEF BackupBegins
  <2>2. Len(log) \in Nat
    BY LenProperties DEF DiskInv, DiskTypes
  <2> QED
    BY <2>1, <2>2 DEF disk, history, DiskInv, DiskTypes, ReadingFits, DoomedIsGone,
       ErasedIsGone, Checked, Awaits, Table, OnDisk
<1>17. CASE BackupEnds
  <2>1. /\ reading' = None /\ UNCHANGED <<history, waiting, answer>>
        /\ Truncate \/ UNCHANGED disk
    BY <1>17 DEF BackupEnds
  <2>2. CASE UNCHANGED disk
    BY <2>1, <2>2 DEF disk, history, DiskInv, DiskTypes, ReadingFits, DoomedIsGone,
       ErasedIsGone, Checked, Awaits, Table, OnDisk
  <2> QED
    BY <2>1, <2>2, TruncateKeepsDisk
<1>18. CASE UNCHANGED vars
  BY <1>4, <1>18 DEF vars, disk, history
<1> QED
  BY <1>5, <1>6, <1>7, <1>8, <1>9, <1>10, <1>11, <1>12, <1>13, <1>14, <1>15, <1>16, <1>17, <1>18
     DEF Next
-----------------------------------------------------------------------------
IInv == QueueInv /\ RestTypes /\ LifeInv /\ DiskInv

LEMMA InitHolds == Init => IInv
<1> SUFFICES ASSUME Init PROVE IInv
  OBVIOUS
<1>1. /\ file = DueRows /\ log = <<>> /\ synced = 0 /\ reading = None /\ life = "up"
      /\ queue = <<>> /\ running = None /\ waiting = [t \in Tasks |-> None]
      /\ answer = [t \in Tasks |-> None] /\ sweep = SweepStarts /\ troubles = 0
      /\ doomed = [t \in Erasers |-> {}] /\ owed = {} /\ cleared = {}
  BY DEF Init
<1>2. DueRows \in SUBSET Rows
  <2>1. \A i \in DOMAIN DueKeys : DueKeys[i] \in SUBSET Rows
    BY RowsAssumption
  <2> QED
    BY <2>1 DEF DueRows
<1>3. QueueInv
  BY <1>1 DEF QueueInv, QueueTypes
<1>4. RestTypes
  BY <1>1, SweepsFirst, BoundsAssumption DEF RestTypes, SweepRests
<1>5. LifeInv
  <2>1. CLOSER \in Tasks
    BY DEF Tasks
  <2> QED
    BY <1>1, <2>1 DEF LifeInv
<1>6. DiskTypes
  BY <1>1, <1>2 DEF DiskTypes
<1>7. ReadingFits /\ DoomedIsGone /\ ErasedIsGone
  <2>1. \A t \in Erasers : doomed[t] = {}
    BY <1>1
  <2> QED
    BY <1>1, <2>1 DEF ReadingFits, DoomedIsGone, ErasedIsGone
<1> QED
  BY <1>3, <1>4, <1>5, <1>6, <1>7 DEF IInv, DiskInv

LEMMA IInvAlways == Spec => []IInv
<1>1. IInv /\ [Next]_vars => IInv'
  BY QueueStep, RestStep, LifeStep, DiskStep DEF IInv
<1> QED
  BY <1>1, InitHolds, PTL DEF Spec

(* Queue, log and locals keep their types, for any number of requests,     *)
(* rows and retired keys: no place outside due(), no more of the log       *)
(* synced than there is.                                                   *)
THEOREM DatabaseTypeCorrect == Spec => []TypeOK
<1>1. IInv => TypeOK
  BY DEF IInv, QueueInv, QueueTypes, RestTypes, SweepRests, DiskInv, DiskTypes, TypeOK
<1> QED
  BY <1>1, IInvAlways, PTL

(* An erasure that was answered while no backup read the log has no byte   *)
(* left in the file or its log, through any crash and power loss.          *)
THEOREM ErasedIsGoneAlways == Spec => []ErasedIsGone
<1>1. IInv => ErasedIsGone
  BY DEF IInv, DiskInv
<1> QED
  BY <1>1, IInvAlways, PTL

(* The close is the last thing on the thread, whoever was cancelled and    *)
(* whatever they left there.                                               *)
THEOREM CloseComesLastAlways == Spec => []CloseComesLast
<1>1. IInv => CloseComesLast
  BY DEF IInv, LifeInv, CloseComesLast
<1> QED
  BY <1>1, IInvAlways, PTL
-----------------------------------------------------------------------------
(* Database implements AtomicCalls.  First, OrphanInv.                     *)
LEMMA RunningTask ==
    ASSUME QueueInv, running # None
    PROVE  running \in Jobs /\ running.task \in Tasks /\ running.work \in Works
<1>1. running \in Jobs
  BY DEF QueueInv, QueueTypes
<1> QED
  BY <1>1 DEF Jobs

LEMMA OrphanStep ==
    ASSUME QueueInv, RestTypes, LifeInv, OrphanInv, [Next]_vars
    PROVE  OrphanInv'
<1>1. ASSUME running' = None PROVE OrphanInv'
  BY <1>1 DEF OrphanInv, Orphaned
<1>2. ASSUME NEW t \in Tasks, running' = running, life' = life,
             running # None => running.task # t \/ waiting[t] # None \/ running.live,
             (\E work : Submit(t, work)) \/ Return(t)
      PROVE  OrphanInv'
  <2>1. \A u \in Tasks : u # t => waiting'[u] = waiting[u]
    BY <1>2 DEF Submit, Return, QueueInv, QueueTypes
  <2> QED
    BY <1>2, <2>1, RunningTask DEF OrphanInv, Orphaned
<1>3. ASSUME UNCHANGED <<running, waiting, life>> PROVE OrphanInv'
  BY <1>3 DEF OrphanInv, Orphaned
<1>4. ASSUME NEW t \in Tasks, Abandon(t), life = "up",
             (life' = life /\ t # SWEEPER) \/ life' = "closing"
      PROVE  OrphanInv'
  <2> SUFFICES ASSUME Orphaned'
               PROVE  waiting'[running'.task] = None /\ (running'.task = SWEEPER => life' # "up")
    BY DEF OrphanInv
  <2>1. /\ running # None
        /\ running' = [running EXCEPT !.live = @ /\ running.task # t]
        /\ waiting' = [waiting EXCEPT ![t] = None]
    BY <1>4 DEF Abandon, Return, Orphaned
  <2>2. /\ running \in Jobs /\ running.task \in Tasks
        /\ running'.task = running.task
        /\ ~running.live \/ running.task = t
    <3>1. running \in Jobs /\ running.task \in Tasks
      BY <2>1, RunningTask
    <3>2. running'.live <=> running.live /\ running.task # t
      BY <2>1, <3>1 DEF Jobs
    <3> QED
      BY <2>1, <3>1, <3>2 DEF Jobs, Orphaned
  <2>3. CASE running.task = t
    BY <1>4, <2>1, <2>2, <2>3 DEF QueueInv, QueueTypes
  <2>4. CASE running.task # t
    BY <1>4, <2>1, <2>2, <2>4 DEF OrphanInv, Orphaned, QueueInv, QueueTypes
  <2> QED
    BY <2>3, <2>4
<1>5. \A t \in Requests \cup {SWEEPER} : t \in Tasks /\ t # CLOSER
  BY Submitted
<1>6. CASE Begin
  <2>1. running' # None => running'.live
    BY <1>6 DEF Begin
  <2> QED
    BY <2>1 DEF OrphanInv, Orphaned
<1>7. CASE Finish
  BY <1>1, <1>7 DEF Finish, Commit, Rollback, CheckpointTruncate, CheckpointBusy,
     CheckpointFails, CloseConnection, Answered
<1>8. CASE \E t \in Writers, row \in Rows : RequestWrite(t, row)
  BY <1>2, <1>5, <1>8 DEF RequestWrite, Free, Requests
<1>9. CASE \E t \in Erasers : RequestForget(t)
  BY <1>2, <1>5, <1>9 DEF RequestForget, Free, Requests
<1>10. CASE \E t \in Requests : RequestReturns(t) \/ Disconnect(t)
  <2> PICK t \in Requests : RequestReturns(t) \/ Disconnect(t)
    BY <1>10
  <2>1. waiting[t] # None /\ t \in Tasks /\ t # SWEEPER
    BY <1>5, TasksAssumption DEF RequestReturns, WriteReturns, ForgetGoesOn, ForgetReturns,
       Disconnect, Awaits
  <2>2. CASE RequestReturns(t)
    <3>1. /\ running' = running /\ life' = life
          /\ (\E work : Submit(t, work)) \/ Return(t)
      BY <2>2 DEF RequestReturns, WriteReturns, ForgetGoesOn, ForgetReturns, thread
    <3> QED
      BY <1>2, <2>1, <3>1
  <2>3. CASE Disconnect(t)
    <3>1. life = "up"
      BY <2>1 DEF LifeInv
    <3> QED
      BY <1>4, <2>1, <2>3, <3>1 DEF Disconnect
  <2> QED
    BY <2>2, <2>3
<1>11. CASE Sweep
  <2>1. /\ running' = running /\ life' = life
        /\ (\E work : Submit(SWEEPER, work)) \/ Return(SWEEPER)
    BY <1>11 DEF Sweep, SweepBegins, SweepGoesOn, SweepEnds, thread
  <2>2. running # None => running.task # SWEEPER \/ waiting[SWEEPER] # None \/ running.live
    BY <1>11 DEF Sweep, SweepBegins, SweepGoesOn, SweepEnds, Awaits, OrphanInv, Orphaned
  <2> QED
    BY <1>2, <1>5, <2>1, <2>2
<1>12. CASE Stop
  BY <1>4, <1>5, <1>12 DEF Stop
<1>13. CASE CloseDatabase
  <2>1. CLOSER \in Tasks
    BY DEF Tasks
  <2> QED
    BY <1>2, <1>13, <2>1, NoClose DEF CloseDatabase
<1>14. CASE Kill \/ PowerLoss
  BY <1>1, <1>14 DEF Kill, PowerLoss, Vanish
<1>15. CASE Start
  <2>1. running' = None
    BY <1>15 DEF Start, thread, LifeInv
  <2> QED
    BY <1>1, <2>1
<1>16. CASE BackupBegins \/ BackupEnds \/ UNCHANGED vars
  BY <1>3, <1>16 DEF BackupBegins, BackupEnds, thread, vars
<1> QED
  BY <1>6, <1>7, <1>8, <1>9, <1>10, <1>11, <1>12, <1>13, <1>14, <1>15, <1>16 DEF Next

(* What each task calls for, as AtomicCalls sees it.                       *)
Calls == [t \in Tasks |-> CallOf(t)]

LEMMA CallsAre ==
    ASSUME QueueInv, NEW t \in Tasks
    PROVE  /\ CallOf(t) \in [work : Abstract!Works, phase : Abstract!Phases] \cup {None}
           /\ \A w \in Works, p \in {"open", "orphaned", "done", "failed"} :
                  [work |-> w, phase |-> p] # None
<1>1. \A w \in Works : w.kind \in Transactions => w \in Abstract!Works
  BY DEF Works, Transactions, Abstract!Works
<1>2. waiting[t] # None => waiting[t] \in Works
  BY DEF QueueInv, QueueTypes
<1>3. running # None => running.work \in Works
  BY RunningTask
<1>4. CallOf(t) \in [work : Abstract!Works, phase : Abstract!Phases] \cup {None}
  BY <1>1, <1>2, <1>3 DEF CallOf, Abstract!Phases
<1>5. \A w \in Works, p \in {"open", "orphaned", "done", "failed"} : [work |-> w, phase |-> p] # None
  BY NoneAssumption
<1> QED
  BY <1>4, <1>5

(* A task whose awaited work, answer and orphan stay the same calls for    *)
(* the same.                                                               *)
LEMMA SameCall ==
    ASSUME NEW u, waiting'[u] = waiting[u], answer'[u] = answer[u],
           \/ running' = running
           \/ ~(Orphaned /\ running.task = u) /\ ~(Orphaned /\ running.task = u)'
    PROVE  CallOf(u)' = CallOf(u)
BY DEF CallOf, Ran, Orphaned

LEMMA Stutters ==
    ASSUME Table' = Table, \A u \in Tasks : CallOf(u)' = CallOf(u)
    PROVE  UNCHANGED Abstract!vars
BY DEF Abstract!vars

(* One task's call changes.                                                *)
LEMMA OneCall ==
    ASSUME NEW t \in Tasks, \A u \in Tasks : u # t => CallOf(u)' = CallOf(u)
    PROVE  Calls' = [Calls EXCEPT ![t] = CallOf(t)'] /\ Calls[t] = CallOf(t) /\ Calls'[t] = CallOf(t)'
BY DEF Calls

LEMMA CallMaps ==
    ASSUME QueueInv, NEW t \in Tasks, \A u \in Tasks : u # t => CallOf(u)' = CallOf(u),
           Table' = Table, CallOf(t) = None \/ CallOf(t).phase \in {"done", "failed"},
           CallOf(t)' \in Abstract!Opened
    PROVE  Abstract!Next
<1>1. Abstract!Call(t)
  BY OneCall DEF Abstract!Call, Abstract!InPhase, Calls
<1> QED
  BY <1>1 DEF Abstract!Next

LEMMA LeaveMaps ==
    ASSUME QueueInv, NEW t \in Tasks, \A u \in Tasks : u # t => CallOf(u)' = CallOf(u),
           Table' = Table, CallOf(t) # None,
           \/ CallOf(t).phase \in {"open", "done", "failed"} /\ CallOf(t)' = None
           \/ CallOf(t).phase = "open" /\ CallOf(t)' = [CallOf(t) EXCEPT !.phase = "orphaned"]
    PROVE  Abstract!Next
<1>1. Abstract!Leave(t)
  BY OneCall DEF Abstract!Leave, Abstract!InPhase, Calls
<1> QED
  BY <1>1 DEF Abstract!Next

LEMMA EndMaps ==
    ASSUME QueueInv, NEW t \in Tasks, \A u \in Tasks : u # t => CallOf(u)' = CallOf(u),
           CallOf(t) # None, CallOf(t).phase \in {"open", "orphaned"},
           NEW phase \in {"done", "failed"},
           IF phase = "done" THEN Table' = Outcome(CallOf(t).work) ELSE Table' = Table,
           CallOf(t)' = IF CallOf(t).phase = "open" THEN [CallOf(t) EXCEPT !.phase = phase]
                                                    ELSE None
    PROVE  Abstract!Next
<1>1. Calls' = [Calls EXCEPT ![t] = IF @.phase = "open" THEN [@ EXCEPT !.phase = phase] ELSE None]
  BY OneCall
<1>2. CASE phase = "done"
  <2>1. Abstract!Effect(t)
    BY <1>1, <1>2 DEF Abstract!Effect, Abstract!End, Abstract!InPhase, Abstract!Outcome, Outcome, Calls
  <2> QED
    BY <2>1 DEF Abstract!Next
<1>3. CASE phase = "failed"
  <2>1. Abstract!Fail(t)
    BY <1>1, <1>3 DEF Abstract!Fail, Abstract!End, Abstract!InPhase, Calls
  <2> QED
    BY <2>1 DEF Abstract!Next
<1> QED
  BY <1>2, <1>3

(* A transaction ends, for whoever still waits for it.                     *)
LEMMA TransactionEnds ==
    ASSUME QueueInv, OrphanInv, running # None, running.work.kind \in Transactions,
           NEW result \in {"changed", "unchanged", "failed"}, Answered(result),
           IF result = "failed" THEN Table' = Table ELSE Table' = Outcome(running.work)
    PROVE  Abstract!Next
<1> DEFINE phase == IF result = "failed" THEN "failed" ELSE "done"
<1>1. /\ running \in Jobs /\ running.task \in Tasks /\ running.work \in Works
  BY RunningTask
<1> PICK t \in Tasks : t = running.task
  BY <1>1
<1>2. /\ running' = None /\ waiting' = waiting
      /\ answer' = IF running.live THEN [answer EXCEPT ![t] = result] ELSE answer
  BY DEF Answered
<1>3. ASSUME NEW u \in Tasks, u # t PROVE CallOf(u)' = CallOf(u)
  <2>1. answer'[u] = answer[u]
    BY <1>2, <1>3 DEF QueueInv, QueueTypes
  <2>2. ~(Orphaned /\ running.task = u) /\ ~(Orphaned /\ running.task = u)'
    BY <1>2, <1>3 DEF Orphaned
  <2> QED
    BY <1>2, <2>1, <2>2, SameCall
<1>4. running.work # None
  BY <1>1, NoneAssumption
<1>5. CASE running.live
  <2>1. waiting[t] = running.work /\ answer[t] = None /\ answer'[t] = result
    BY <1>1, <1>2, <1>5 DEF QueueInv, QueueTypes, Awaited
  <2>2. CallOf(t) = [work |-> running.work, phase |-> "open"]
    BY <1>4, <2>1 DEF CallOf
  <2>3. result # None
    BY NoneAssumption
  <2>4. CallOf(t)' = [work |-> running.work, phase |-> phase]
    BY <1>2, <1>4, <2>1, <2>3 DEF CallOf, Ran
  <2>5. CallOf(t) # None
    BY <1>1, <2>2, CallsAre
  <2> QED
    BY <1>1, <1>3, <2>2, <2>4, <2>5, EndMaps
<1>6. CASE ~running.live
  <2>1. waiting[t] = None
    BY <1>6 DEF OrphanInv, Orphaned
  <2>2. CallOf(t) = [work |-> running.work, phase |-> "orphaned"]
    BY <1>6, <2>1 DEF CallOf
  <2>3. CallOf(t)' = None
    BY <1>2, <2>1 DEF CallOf
  <2>4. CallOf(t) # None
    BY <1>1, <2>2, CallsAre
  <2> QED
    BY <1>1, <1>3, <2>2, <2>3, <2>4, EndMaps
<1> QED
  BY <1>5, <1>6

(* Anything else ends, and no call was about it.                           *)
LEMMA OtherEnds ==
    ASSUME QueueInv, OrphanInv, running # None, running.work.kind \notin Transactions,
           NEW result, Answered(result), Table' = Table
    PROVE  UNCHANGED Abstract!vars
<1> PICK t \in Tasks : t = running.task
  BY RunningTask
<1>1. /\ running' = None /\ waiting' = waiting
      /\ answer' = IF running.live THEN [answer EXCEPT ![t] = result] ELSE answer
  BY DEF Answered
<1>2. ASSUME NEW u \in Tasks, u # t PROVE CallOf(u)' = CallOf(u)
  <2>1. answer'[u] = answer[u]
    BY <1>1, <1>2 DEF QueueInv, QueueTypes
  <2>2. ~(Orphaned /\ running.task = u) /\ ~(Orphaned /\ running.task = u)'
    BY <1>1, <1>2 DEF Orphaned
  <2> QED
    BY <1>1, <2>1, <2>2, SameCall
<1>3. CallOf(t)' = CallOf(t)
  <2>1. CASE running.live
    <3>1. waiting[t] = running.work
      BY <2>1 DEF QueueInv, Awaited
    <3> QED
      BY <1>1, <3>1 DEF CallOf
  <2>2. CASE ~running.live
    <3>1. waiting[t] = None
      BY <2>2 DEF OrphanInv, Orphaned
    <3> QED
      BY <1>1, <3>1 DEF CallOf
  <2> QED
    BY <2>1, <2>2
<1> QED
  BY <1>2, <1>3, Stutters

(* A task makes a call, after none or after one that was answered.         *)
LEMMA SubmitMaps ==
    ASSUME QueueInv, OrphanInv, NEW t \in Tasks, NEW work \in Works,
           Submit(t, work), running' = running, Table' = Table,
           waiting[t] = None => ~(Orphaned /\ running.task = t),
           waiting[t] # None => Ran(t)
    PROVE  [Abstract!Next]_Abstract!vars
<1>1. /\ waiting' = [waiting EXCEPT ![t] = work] /\ answer' = [answer EXCEPT ![t] = None]
  BY DEF Submit
<1>2. \A u \in Tasks : u # t => CallOf(u)' = CallOf(u)
  BY <1>1, SameCall DEF QueueInv, QueueTypes
<1>3. ~(Orphaned /\ running.task = t) /\ ~(Orphaned /\ running.task = t)'
  BY DEF OrphanInv, Orphaned
<1>4. waiting'[t] = work /\ answer'[t] = None /\ work # None
  BY <1>1, NoneAssumption DEF QueueInv, QueueTypes
<1>5. CallOf(t) = IF waiting[t] # None /\ waiting[t].kind \in Transactions
                  THEN [work |-> waiting[t], phase |-> "done"] ELSE None
  <2>1. waiting[t] # None => answer[t] # None
    BY NoneAssumption DEF Ran
  <2> QED
    BY <1>3, <2>1 DEF CallOf, Orphaned
<1>6. CASE work.kind \in Transactions
  <2>1. CallOf(t)' = [work |-> work, phase |-> "open"]
    BY <1>4, <1>6 DEF CallOf
  <2>2. CallOf(t)' \in Abstract!Opened
    BY <1>6, <2>1 DEF Abstract!Opened, Abstract!Works, Works, Transactions
  <2> QED
    BY <1>2, <1>5, <2>2, CallMaps
<1>7. CASE work.kind \notin Transactions
  <2>1. CallOf(t)' = None
    BY <1>3, <1>4, <1>7 DEF CallOf, Orphaned
  <2>2. CASE CallOf(t) = None
    BY <1>2, <2>1, <2>2, Stutters
  <2>3. CASE CallOf(t) # None
    BY <1>2, <1>5, <2>1, <2>3, LeaveMaps
  <2> QED
    BY <2>2, <2>3
<1> QED
  BY <1>6, <1>7

(* A task takes its answer.                                                *)
LEMMA ReturnMaps ==
    ASSUME QueueInv, OrphanInv, NEW t \in Tasks, waiting[t] # None,
           answer[t] # None, Return(t), running' = running, Table' = Table
    PROVE  [Abstract!Next]_Abstract!vars
<1>1. /\ waiting' = [waiting EXCEPT ![t] = None] /\ answer' = [answer EXCEPT ![t] = None]
  BY DEF Return
<1>2. \A u \in Tasks : u # t => CallOf(u)' = CallOf(u)
  BY <1>1, SameCall DEF QueueInv, QueueTypes
<1>3. ~(Orphaned /\ running.task = t) /\ ~(Orphaned /\ running.task = t)'
  BY DEF OrphanInv, Orphaned
<1>4. waiting'[t] = None
  BY <1>1 DEF QueueInv, QueueTypes
<1>5. CallOf(t)' = None
  BY <1>3, <1>4 DEF CallOf, Orphaned
<1>6. CallOf(t) = None \/ CallOf(t).phase \in {"done", "failed"}
  BY <1>3 DEF CallOf, Orphaned
<1>7. CASE CallOf(t) = None
  BY <1>2, <1>5, <1>7, Stutters
<1>8. CASE CallOf(t) # None
  BY <1>2, <1>5, <1>6, <1>8, LeaveMaps
<1> QED
  BY <1>7, <1>8

(* A task goes away: its call is dropped, or goes on without it.           *)
LEMMA AbandonMaps ==
    ASSUME QueueInv, OrphanInv, NEW t \in Tasks, Abandon(t), Table' = Table,
           waiting[t] = None => ~(Orphaned /\ running.task = t)
    PROVE  [Abstract!Next]_Abstract!vars
<1>1. /\ waiting' = [waiting EXCEPT ![t] = None] /\ answer' = [answer EXCEPT ![t] = None]
      /\ running' = IF running = None THEN None
                    ELSE [running EXCEPT !.live = @ /\ running.task # t]
  BY DEF Abandon, Return
<1>2. running # None =>
          /\ running' # None
          /\ running'.task = running.task /\ running'.work = running.work
          /\ running'.live <=> running.live /\ running.task # t
  <2> SUFFICES ASSUME running # None
               PROVE  /\ running' # None
                      /\ running'.task = running.task /\ running'.work = running.work
                      /\ running'.live <=> running.live /\ running.task # t
    OBVIOUS
  <2>1. running \in Jobs
    BY RunningTask
  <2>2. running' \in Jobs
    BY <1>1, <2>1 DEF Jobs
  <2>3. running' # None
    BY <2>2, NoneAssumption
  <2> QED
    BY <1>1, <2>1, <2>3 DEF Jobs
<1>3. ASSUME NEW u \in Tasks, u # t PROVE CallOf(u)' = CallOf(u)
  <2>1. waiting'[u] = waiting[u] /\ answer'[u] = answer[u]
    BY <1>1, <1>3 DEF QueueInv, QueueTypes
  <2> QED
    BY <1>1, <1>2, <1>3, <2>1 DEF CallOf, Ran
<1>4. waiting'[t] = None
  BY <1>1 DEF QueueInv, QueueTypes
<1>5. ~(Orphaned /\ running.task = t)
  BY DEF OrphanInv
<1>6. CallOf(t)' = IF running # None /\ running.task = t /\ running.work.kind \in Transactions
                   THEN [work |-> running.work, phase |-> "orphaned"] ELSE None
  BY <1>1, <1>2, <1>4 DEF CallOf
<1>7. CASE running # None /\ running.task = t /\ running.work.kind \in Transactions
  <2>1. running.live /\ waiting[t] = running.work /\ answer[t] = None
    BY <1>5, <1>7 DEF Orphaned, QueueInv, Awaited
  <2>2. running.work # None
    BY <1>7, RunningTask, NoneAssumption
  <2>3. CallOf(t) = [work |-> running.work, phase |-> "open"]
    BY <1>7, <2>1, <2>2 DEF CallOf
  <2>4. CallOf(t) # None
    BY <1>7, <2>3, RunningTask, CallsAre
  <2>5. CallOf(t)' = [CallOf(t) EXCEPT !.phase = "orphaned"]
    BY <1>6, <1>7, <2>3
  <2> QED
    BY <1>3, <2>3, <2>4, <2>5, LeaveMaps
<1>8. CASE ~(running # None /\ running.task = t /\ running.work.kind \in Transactions)
  <2>1. CallOf(t)' = None
    BY <1>6, <1>8
  <2>2. CallOf(t) = None \/ CallOf(t).phase \in {"open", "done", "failed"}
    BY <1>8 DEF CallOf
  <2>3. CASE CallOf(t) = None
    BY <1>3, <2>1, <2>3, Stutters
  <2>4. CASE CallOf(t) # None
    BY <1>3, <2>1, <2>2, <2>4, LeaveMaps
  <2> QED
    BY <2>3, <2>4
<1> QED
  BY <1>7, <1>8

LEMMA StepMaps ==
    ASSUME IInv, OrphanInv, [Next]_vars
    PROVE  [Abstract!Next]_Abstract!vars
<1>1. QueueInv /\ RestTypes /\ LifeInv /\ DiskInv
  BY DEF IInv
<1>2. ASSUME UNCHANGED disk \/ Truncate PROVE Table' = Table
  <2>1. CASE UNCHANGED disk
    BY <2>1 DEF disk, Table
  <2>2. CASE Truncate
    BY <2>2 DEF Truncate, Table
  <2> QED
    BY <1>2, <2>1, <2>2
<1>3. ASSUME UNCHANGED <<running, waiting, answer>>, Table' = Table
      PROVE  UNCHANGED Abstract!vars
  BY <1>3, SameCall, Stutters
<1>4. \A t \in Requests \cup {SWEEPER} : t \in Tasks /\ t # CLOSER
  BY Submitted
<1>5. CASE Begin
  <2>1. /\ running = None /\ waiting' = waiting /\ answer' = answer /\ UNCHANGED disk
        /\ running' # None => running'.live
    BY <1>5 DEF Begin
  <2>2. \A u \in Tasks : CallOf(u)' = CallOf(u)
    BY <2>1, SameCall DEF Orphaned
  <2> QED
    BY <1>2, <2>1, <2>2, Stutters
<1>6. CASE Finish
  <2>1. CASE Commit
    <3>1. /\ running # None /\ running.work.kind \in Transactions
          /\ log' = IF Outcome(running.work) = Table THEN log
                                                     ELSE Append(log, Outcome(running.work))
          /\ file' = file
          /\ Answered(IF Outcome(running.work) = Table THEN "unchanged" ELSE "changed")
      BY <2>1 DEF Commit
    <3>2. Table' = Outcome(running.work)
      <4>1. log \in Seq(SUBSET Rows)
        BY <1>1 DEF DiskInv, DiskTypes
      <4>2. CASE Outcome(running.work) = Table
        BY <3>1, <4>2 DEF Table
      <4>3. CASE Outcome(running.work) # Table
        <5>1. log' = Append(log, Outcome(running.work))
          BY <3>1, <4>3
        <5>2. Outcome(running.work) \in SUBSET Rows
          <6>1. running.work.rows \in SUBSET Rows
            BY <1>1, <3>1, RunningTask DEF Works
          <6>2. Table \subseteq Rows
            BY <1>1, TableOnDisk DEF DiskInv
          <6> QED
            BY <6>1, <6>2 DEF Outcome
        <5>3. /\ Len(log') = Len(log) + 1 /\ Len(log) \in Nat
              /\ log'[Len(log) + 1] = Outcome(running.work)
              /\ log' \in Seq(SUBSET Rows)
          BY <4>1, <5>1, <5>2
        <5>4. log' # <<>>
          BY <5>3, EmptySeq
        <5> QED
          BY <5>3, <5>4 DEF Table
      <4> QED
        BY <4>2, <4>3
    <3> QED
      BY <1>1, <3>1, <3>2, TransactionEnds
  <2>2. CASE Rollback
    BY <1>1, <1>2, <2>2, TransactionEnds DEF Rollback
  <2>3. CASE CheckpointTruncate \/ CheckpointFails
    <3>1. /\ running # None /\ running.work.kind \notin Transactions
          /\ Answered("changed") \/ Answered("failed")
          /\ Truncate \/ UNCHANGED disk
      BY <2>3 DEF CheckpointTruncate, CheckpointFails, Transactions
    <3> QED
      BY <1>1, <1>2, <3>1, OtherEnds
  <2>4. CASE CheckpointBusy
    <3>1. /\ running # None /\ reading # None /\ log' = log
          /\ file' = IF reading = 0 THEN file ELSE log[reading]
          /\ running.work.kind \notin Transactions /\ Answered("busy")
      BY <2>4 DEF CheckpointBusy, Transactions
    <3>2. Table' = Table
      <4>1. CASE log = <<>>
        <5>1. reading = 0
          BY <1>1, <3>1, <4>1 DEF DiskInv, DiskTypes, ReadingFits
        <5> QED
          BY <3>1, <4>1, <5>1 DEF Table
      <4>2. CASE log # <<>>
        BY <3>1, <4>2 DEF Table
      <4> QED
        BY <4>1, <4>2
    <3> QED
      BY <1>1, <3>1, <3>2, OtherEnds
  <2>5. CASE CloseConnection
    <3>1. /\ running # None /\ running.work.kind = "close" /\ running' = None
          /\ Return(CLOSER)
          /\ Truncate \/ UNCHANGED disk
      BY <2>5 DEF CloseConnection
    <3>2. CLOSER \in Tasks /\ running.task = CLOSER /\ running.live /\ waiting[CLOSER].kind = "close"
      BY <1>1, <3>1 DEF Tasks, QueueInv, Assigned, ClosesLive, Awaited
    <3>3. /\ waiting' = [waiting EXCEPT ![CLOSER] = None]
          /\ answer' = [answer EXCEPT ![CLOSER] = None]
      BY <3>1 DEF Return
    <3>4. ASSUME NEW u \in Tasks, u # CLOSER PROVE CallOf(u)' = CallOf(u)
      <4>1. waiting'[u] = waiting[u] /\ answer'[u] = answer[u]
        BY <1>1, <3>3, <3>4 DEF QueueInv, QueueTypes
      <4> QED
        BY <3>1, <3>2, <4>1, SameCall DEF Orphaned
    <3>5. CallOf(CLOSER) = None
      BY <3>2 DEF CallOf, Transactions
    <3>6. CallOf(CLOSER)' = None
      <4>1. waiting'[CLOSER] = None
        BY <1>1, <3>2, <3>3 DEF QueueInv, QueueTypes
      <4> QED
        BY <3>1, <4>1 DEF CallOf
    <3> QED
      BY <1>2, <3>1, <3>4, <3>5, <3>6, Stutters
  <2> QED
    BY <1>6, <2>1, <2>2, <2>3, <2>4, <2>5 DEF Finish
<1>7. CASE \E t \in Writers, row \in Rows : RequestWrite(t, row)
  <2> PICK t \in Writers, row \in Rows : RequestWrite(t, row)
    BY <1>7
  <2>1. /\ t \in Tasks /\ Submit(t, WriteOf(row)) /\ UNCHANGED disk /\ running' = running
        /\ waiting[t] = None /\ (running # None => running.task # t)
    BY <1>4 DEF RequestWrite, Free, Requests
  <2> QED
    BY <1>1, <1>2, <2>1, Callables, SubmitMaps DEF Orphaned
<1>8. CASE \E t \in Erasers : RequestForget(t)
  <2> PICK t \in Erasers : RequestForget(t)
    BY <1>8
  <2>1. /\ t \in Tasks /\ Submit(t, ForgetAccount) /\ UNCHANGED disk /\ running' = running
        /\ waiting[t] = None /\ (running # None => running.task # t)
    BY <1>4 DEF RequestForget, Free, Requests
  <2> QED
    BY <1>1, <1>2, <2>1, Callables, SubmitMaps DEF Orphaned
<1>9. CASE \E t \in Requests : RequestReturns(t) \/ Disconnect(t)
  <2> PICK t \in Requests : RequestReturns(t) \/ Disconnect(t)
    BY <1>9
  <2>1. t \in Tasks
    BY <1>4
  <2>2. CASE WriteReturns(t) \/ ForgetReturns(t)
    <3>1. /\ waiting[t] # None /\ answer[t] # None /\ Return(t)
          /\ running' = running /\ UNCHANGED disk
      BY <2>2 DEF WriteReturns, ForgetReturns, Awaits, thread
    <3> QED
      BY <1>1, <1>2, <2>1, <3>1, ReturnMaps
  <2>3. CASE ForgetGoesOn(t)
    <3>1. /\ waiting[t] # None /\ running' = running /\ UNCHANGED disk
          /\ \/ Ran(t) /\ Submit(t, Checkpoint)
             \/ answer[t] = "failed" /\ Return(t)
      BY <2>3 DEF ForgetGoesOn, Awaits
    <3> QED
      BY <1>1, <1>2, <2>1, <3>1, Callables, SubmitMaps, ReturnMaps, NoneAssumption
  <2>4. CASE Disconnect(t)
    BY <1>1, <1>2, <2>1, <2>4, AbandonMaps DEF Disconnect
  <2> QED
    BY <2>2, <2>3, <2>4 DEF RequestReturns
<1>10. CASE Sweep
  <2>1. SWEEPER \in Tasks
    BY <1>4
  <2>2. CASE SweepBegins
    <3>1. /\ life = "up" /\ waiting[SWEEPER] = None /\ Submit(SWEEPER, PurgeOf(1))
          /\ running' = running /\ UNCHANGED disk
      BY <2>2 DEF SweepBegins
    <3>2. PurgeOf(1) \in Works
      BY SweepsFirst, Callables DEF SweepStarts
    <3>3. ~(Orphaned /\ running.task = SWEEPER)
      BY <3>1 DEF OrphanInv
    <3> QED
      BY <1>1, <1>2, <2>1, <3>1, <3>2, <3>3, SubmitMaps
  <2>3. CASE SweepGoesOn
    <3>1. waiting[SWEEPER] # None /\ running' = running /\ UNCHANGED disk
      BY <2>3 DEF SweepGoesOn, Awaits
    <3>2. CASE \E work \in Works : Ran(SWEEPER) /\ Submit(SWEEPER, work)
      BY <1>1, <1>2, <2>1, <3>1, <3>2, SubmitMaps
    <3>3. CASE (Ran(SWEEPER) \/ answer[SWEEPER] = "failed") /\ Return(SWEEPER)
      <4>1. answer[SWEEPER] # None
        BY <3>3, NoneAssumption DEF Ran
      <4> QED
        BY <1>1, <1>2, <2>1, <3>1, <3>3, <4>1, ReturnMaps
    <3>4. sweep.next # Len(DueKeys) => PurgeOf(sweep.next + 1) \in Works
      <4>1. DOMAIN DueKeys = 1..Len(DueKeys) /\ Len(DueKeys) \in Nat
        BY RowsAssumption, LenProperties
      <4>2. sweep.next \in 1..Len(DueKeys)
        BY <1>1, <4>1 DEF RestTypes
      <4> QED
        BY <4>1, <4>2, Callables
    <3> QED
      BY <2>3, <3>2, <3>3, <3>4, Callables DEF SweepGoesOn
  <2>4. CASE SweepEnds
    <3>1. /\ waiting[SWEEPER] # None /\ answer[SWEEPER] # None /\ Return(SWEEPER)
          /\ running' = running /\ UNCHANGED disk
      BY <2>4 DEF SweepEnds, Awaits, thread
    <3> QED
      BY <1>1, <1>2, <2>1, <3>1, ReturnMaps
  <2> QED
    BY <1>10, <2>2, <2>3, <2>4 DEF Sweep
<1>11. CASE Stop
  <2>1. life = "up" /\ Abandon(SWEEPER) /\ UNCHANGED disk
    BY <1>11 DEF Stop
  <2>2. ~(Orphaned /\ running.task = SWEEPER)
    BY <2>1 DEF OrphanInv
  <2> QED
    BY <1>1, <1>2, <1>4, <2>1, <2>2, AbandonMaps
<1>12. CASE CloseDatabase
  <2>1. /\ CLOSER \in Tasks /\ waiting[CLOSER] = None /\ Submit(CLOSER, Close)
        /\ running' = running /\ UNCHANGED disk
    BY <1>12 DEF CloseDatabase, Tasks
  <2>2. ~(Orphaned /\ running.task = CLOSER)
    BY <1>1, <2>1, NoClose DEF Orphaned
  <2> QED
    BY <1>1, <1>2, <2>1, <2>2, Callables, SubmitMaps
<1>13. CASE Kill \/ PowerLoss
  <2>1. running' = None /\ waiting' = [t \in Tasks |-> None]
    BY <1>13 DEF Kill, PowerLoss, Vanish
  <2>2. Calls' = [t \in Tasks |-> None]
    BY <2>1 DEF Calls, CallOf
  <2>3. CASE Kill
    <3>1. Table' = Table
      BY <1>2, <2>3 DEF Kill
    <3> QED
      BY <2>2, <3>1 DEF Abstract!Next, Abstract!Kill, Calls
  <2>4. CASE PowerLoss
    <3>1. DiskInv'
      BY <1>1, <2>4, PowerLossKeepsDisk
    <3>2. Table' \in SUBSET Rows
      <4>1. /\ file' \in SUBSET Rows
            /\ \A i \in 1..Len(log') : log'[i] \in SUBSET Rows
            /\ log' # <<>> => Len(log') \in 1..Len(log')
        BY <3>1, ElementOfSeq, LenProperties, EmptySeq DEF DiskInv, DiskTypes
      <4> QED
        BY <4>1 DEF Table
    <3> QED
      BY <2>2, <3>2 DEF Abstract!Next, Abstract!PowerLoss, Calls
  <2> QED
    BY <1>13, <2>3, <2>4
<1>14. CASE Start \/ BackupBegins \/ BackupEnds \/ UNCHANGED vars
  <2>1. /\ UNCHANGED <<running, waiting, answer>>
        /\ UNCHANGED disk \/ Truncate
    BY <1>14 DEF Start, BackupBegins, BackupEnds, thread, vars, disk
  <2> QED
    BY <1>2, <1>3, <2>1
<1> QED
  BY <1>5, <1>6, <1>7, <1>8, <1>9, <1>10, <1>11, <1>12, <1>13, <1>14 DEF Next

(* However its callers are queued, cancelled and killed: every behaviour   *)
(* of the queue, the thread and the log is one of AtomicCalls.             *)
THEOREM DatabaseImplementsAtomicCalls == Spec => CallsAreAtomic
<1>1. Init => Abstract!Init
  <2> SUFFICES ASSUME Init PROVE Abstract!Init
    OBVIOUS
  <2>1. Table \in SUBSET Rows
    BY InitHolds, TableOnDisk DEF IInv, DiskInv
  <2>2. [t \in Tasks |-> CallOf(t)] = [t \in Tasks |-> None]
    BY DEF Init, CallOf
  <2> QED
    BY <2>1, <2>2 DEF Abstract!Init
<1>2. Init => OrphanInv
  BY DEF Init, OrphanInv, Orphaned
<1>3. IInv /\ OrphanInv /\ [Next]_vars => OrphanInv'
  BY OrphanStep DEF IInv
<1>4. IInv /\ OrphanInv /\ [Next]_vars => [Abstract!Next]_Abstract!vars
  BY StepMaps
<1> QED
  BY <1>1, <1>2, <1>3, <1>4, IInvAlways, PTL DEF Spec, CallsAreAtomic, Abstract!Spec
==============================================================================
