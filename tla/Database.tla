------------------------------ MODULE Database ------------------------------
(***************************************************************************)
(* Database: the one connection to the SQLite file, the one thread that    *)
(* may touch it, the queue in front of that thread, and the write-ahead    *)
(* log behind it; with the three callers whose steps depend on it: a       *)
(* request that writes, Erasure.forget, and the retired sweeper's loop.    *)
(*                                                                         *)
(* A caller submits one callable and waits for its answer.  Cancelled      *)
(* while that is queued, the callable never runs; cancelled while it runs, *)
(* it runs on and nobody is told.  Nothing else touches the connection, so *)
(* a transaction is one step, at its COMMIT.  Reads occupy the queue and   *)
(* change nothing; they are left out.                                      *)
(*                                                                         *)
(* SQLite is external: a commit appends to the log, a truncating           *)
(* checkpoint moves the log into the file and empties it unless another    *)
(* connection is reading, the last connection to close does the same, a    *)
(* kill loses nothing that was committed, and a power loss may lose        *)
(* commits since the last sync (synchronous = NORMAL).  The log is taken   *)
(* to stay below the 1000 pages at which SQLite checkpoints by itself.     *)
(***************************************************************************)
EXTENDS Integers, Sequences, FiniteSets

CONSTANTS
    Writers,    \* tasks of requests that write
    Erasers,    \* tasks of requests that forget the account
    SWEEPER,    \* the task "retired-sweeper"
    CLOSER,     \* the task that runs Container.aclose
    Rows,       \* settings rows: a place and a value
    Erasable,   \* the rows of the account that asks to be forgotten
    DueKeys,    \* due(): for each key past its window, the rows it may have
    None,       \* no work, no job, no answer, no backup
    MaxLog,     \* bound: no write is accepted that would make the log longer
    MaxTroubles \* bound: how often a callable fails, an operator backs the file up,
                \* or the process ends

Requests == Writers \cup Erasers
Tasks == Requests \cup {SWEEPER, CLOSER}
DueRows == UNION {DueKeys[i] : i \in DOMAIN DueKeys}

ASSUME TasksAssumption ==
    /\ Writers \cap Erasers = {}
    /\ SWEEPER \notin Requests /\ CLOSER \notin Requests /\ SWEEPER # CLOSER
ASSUME RowsAssumption ==
    Erasable \subseteq Rows /\ DueKeys \in Seq(SUBSET Rows) /\ DueKeys # <<>>
ASSUME BoundsAssumption ==
    MaxLog \in Nat /\ MaxTroubles \in Nat

VARIABLES
    file,     \* the rows whose bytes are in the database file
    log,      \* the -wal file: the whole table after each commit in it
    synced,   \* how much of the log a power loss cannot take
    reading,  \* how much of the log a running backup reads, if one runs
    life,     \* the process: "up", "closing" or "down"
    queue,    \* the executor's queue of jobs
    running,  \* the job on the worker thread
    waiting,  \* what each task awaits
    answer,   \* what its future holds
    sweep,    \* sweep_once's place in due(), and whether it removed anything
    troubles, \* how many there were
    doomed,   \* history: what the erasure of a request has removed
    owed,     \* history: what erasures removed that were answered
    cleared   \* history: the part of it where no backup was in the way

disk == <<file, log, synced>>
thread == <<queue, running>>
history == <<doomed, owed, cleared>>
vars == <<file, log, synced, reading, life, queue, running, waiting, answer,
          sweep, troubles, doomed, owed, cleared>>

(* What a connection reads: the newest commit.                             *)
Table == IF log = <<>> THEN file ELSE log[Len(log)]

(* What grep finds.                                                        *)
OnDisk == file \cup UNION {log[i] : i \in DOMAIN log}
-----------------------------------------------------------------------------
(* Callables.                                                              *)

Transactions == {"write", "forget", "purge"}
Works == [kind : Transactions \cup {"checkpoint", "close"}, rows : SUBSET Rows]
Jobs == [task : Tasks, work : Works, live : BOOLEAN]

WriteOf(row) == [kind |-> "write", rows |-> {row}]
ForgetAccount == [kind |-> "forget", rows |-> Erasable]
PurgeOf(i) == [kind |-> "purge", rows |-> DueKeys[i]]
Checkpoint == [kind |-> "checkpoint", rows |-> {}]
Close == [kind |-> "close", rows |-> {}]

ASSUME NoneAssumption ==
    /\ None \notin Works \cup Jobs \cup Nat \cup {"changed", "unchanged", "busy", "failed"}
    /\ None \notin [work : Works, phase : {"open", "orphaned", "done", "failed"}]

Outcome(work) ==
    IF work.kind = "write" THEN Table \cup work.rows ELSE Table \ work.rows

(* The locals of sweep_once, when it is entered and when it is left.       *)
SweepStarts == [next |-> 1, removed |-> FALSE]

(* Type invariant.  What a sweep has counted is a local of it: between two  *)
(* sweeps, and while the process is down, nothing of the last one is left.  *)
TypeOK ==
    /\ file \in SUBSET Rows
    /\ log \in Seq(SUBSET Rows)
    /\ synced \in 0..Len(log)
    /\ reading \in Nat \cup {None}
    /\ life \in {"up", "closing", "down"}
    /\ queue \in Seq(Jobs)
    /\ running \in Jobs \cup {None}
    /\ waiting \in [Tasks -> Works \cup {None}]
    /\ answer \in [Tasks -> {"changed", "unchanged", "busy", "failed", None}]
    /\ sweep \in [next : DOMAIN DueKeys, removed : BOOLEAN]
    /\ waiting[SWEEPER] = None => sweep = SweepStarts
    /\ troubles \in 0..MaxTroubles
    /\ doomed \in [Erasers -> SUBSET Rows]
    /\ cleared \subseteq owed /\ owed \subseteq Rows

(* Retired rows are there from when their keys were live; the rest is      *)
(* written by requests.                                                    *)
Init ==
    /\ file = DueRows
    /\ log = <<>>
    /\ synced = 0
    /\ reading = None
    /\ life = "up"
    /\ queue = <<>>
    /\ running = None
    /\ waiting = [t \in Tasks |-> None]
    /\ answer = [t \in Tasks |-> None]
    /\ sweep = SweepStarts
    /\ troubles = 0
    /\ doomed = [t \in Erasers |-> {}]
    /\ owed = {}
    /\ cleared = {}
-----------------------------------------------------------------------------
Trouble == troubles < MaxTroubles /\ troubles' = troubles + 1

(* run and transact: one callable into the queue, and wait.                *)
Submit(t, work) ==
    /\ queue' = Append(queue, [task |-> t, work |-> work, live |-> TRUE])
    /\ waiting' = [waiting EXCEPT ![t] = work]
    /\ answer' = [answer EXCEPT ![t] = None]

(* The task goes on with its answer and calls for nothing more.            *)
Return(t) ==
    /\ waiting' = [waiting EXCEPT ![t] = None]
    /\ answer' = [answer EXCEPT ![t] = None]

Awaits(t, kind) == waiting[t] # None /\ waiting[t].kind = kind

Ran(t) == answer[t] \in {"changed", "unchanged", "busy"}

(* A caller is cancelled.  Its future cancels the callable if that is still*)
(* queued, and the worker passes over it; a running one runs on.           *)
Abandon(t) ==
    /\ queue' = [i \in DOMAIN queue |->
                    [queue[i] EXCEPT !.live = @ /\ queue[i].task # t]]
    /\ running' = IF running = None THEN None
                  ELSE [running EXCEPT !.live = @ /\ running.task # t]
    /\ Return(t)
-----------------------------------------------------------------------------
(* The worker thread.                                                      *)

Begin ==
    /\ running = None
    /\ queue # <<>>
    /\ queue' = Tail(queue)
    /\ running' = IF Head(queue).live THEN Head(queue) ELSE None
    /\ UNCHANGED <<disk, reading, life, waiting, answer, sweep, troubles, history>>

Answered(result) ==
    /\ running' = None
    /\ answer' = IF running.live THEN [answer EXCEPT ![running.task] = result]
                                 ELSE answer
    /\ UNCHANGED <<reading, queue, waiting, sweep>>

(* _in_transaction, when nothing raises.  Nothing is logged of a           *)
(* transaction that changes nothing.                                       *)
Commit ==
    LET new == Outcome(running.work)
        written == IF running.work.kind = "write" THEN running.work.rows ELSE {}
        erases == running.work.kind = "forget" /\ running.live
    IN  /\ running # None
        /\ running.work.kind \in Transactions
        /\ log' = IF new = Table THEN log ELSE Append(log, new)
        /\ doomed' = [t \in Erasers |->
                        (IF erases /\ running.task = t THEN Erasable ELSE doomed[t])
                            \ written]
        /\ owed' = owed \ written
        /\ cleared' = cleared \ written
        /\ Answered(IF new = Table THEN "unchanged" ELSE "changed")
        /\ UNCHANGED <<file, synced, life, troubles>>

(* Mutant of Rollback: the log keeps what the work had done before it      *)
(* raised.                                                                 *)
Rollback_KeepsTheWork ==
    /\ running # None
    /\ running.work.kind \in Transactions
    /\ Trouble
    /\ log' = Append(log, Outcome(running.work))
    /\ Answered("failed")
    /\ UNCHANGED <<file, synced, life, history>>

(* Mutant of Rollback: the exception ends on the worker thread, and nobody *)
(* is told.                                                                *)
Rollback_Unanswered ==
    /\ running # None
    /\ running.work.kind \in Transactions
    /\ Trouble
    /\ running' = None
    /\ UNCHANGED <<disk, reading, life, queue, waiting, answer, sweep, history>>

(* _in_transaction, when the work raises: the disk is full, the file       *)
(* unreadable.                                                             *)
Rollback ==
    /\ running # None
    /\ running.work.kind \in Transactions
    /\ Trouble
    /\ Answered("failed")
    /\ UNCHANGED <<disk, life, history>>

(* The log moved into the file, and emptied.                               *)
Truncate ==
    /\ file' = Table
    /\ log' = <<>>
    /\ synced' = 0

(* Mutant of CheckpointTruncate: a FULL checkpoint, which leaves the log.  *)
CheckpointTruncate_Full ==
    /\ running # None
    /\ running.work.kind = "checkpoint"
    /\ reading = None
    /\ file' = Table
    /\ synced' = Len(log)
    /\ Answered("changed")
    /\ UNCHANGED <<log, life, troubles, history>>

(* checkpoint_truncate with nobody else reading.                           *)
CheckpointTruncate ==
    /\ running # None
    /\ running.work.kind = "checkpoint"
    /\ reading = None
    /\ Truncate
    /\ Answered("changed")
    /\ UNCHANGED <<life, troubles, history>>

(* checkpoint_truncate while a backup reads: after busy_timeout SQLite     *)
(* answers "busy", in a row nobody looks at.  What the backup's snapshot   *)
(* covers has been moved into the file, the log stays as it is.            *)
CheckpointBusy ==
    /\ running # None
    /\ running.work.kind = "checkpoint"
    /\ reading # None
    /\ file' = IF reading = 0 THEN file ELSE log[reading]
    /\ synced' \in {synced, Len(log)}
    /\ Answered("busy")
    /\ UNCHANGED <<log, life, troubles, history>>

CheckpointFails ==
    /\ running # None
    /\ running.work.kind = "checkpoint"
    /\ Trouble
    /\ Answered("failed")
    /\ UNCHANGED <<disk, life, history>>

(* The connection closes, the thread ends.  The last connection to close   *)
(* empties the log.                                                        *)
CloseConnection ==
    /\ running # None
    /\ running.work.kind = "close"
    /\ life' = "down"
    /\ running' = None
    /\ Return(CLOSER)
    /\ IF reading = None THEN Truncate ELSE UNCHANGED disk
    /\ UNCHANGED <<reading, queue, sweep, troubles, history>>

Finish ==
    \/ Commit \/ Rollback
    \/ CheckpointTruncate \/ CheckpointBusy \/ CheckpointFails
    \/ CloseConnection
-----------------------------------------------------------------------------
(* Requests.  A task's name is free again once its job has left the worker.*)
Free(t) ==
    /\ life = "up"
    /\ waiting[t] = None
    /\ \A i \in DOMAIN queue : queue[i].task # t
    /\ running # None => running.task # t

RequestWrite(t, row) ==
    /\ Free(t)
    /\ row \notin DueRows
    /\ Len(log) + Len(queue) + (IF running = None THEN 0 ELSE 1) < MaxLog
    /\ Submit(t, WriteOf(row))
    /\ UNCHANGED <<disk, reading, life, running, sweep, troubles, history>>

WriteReturns(t) ==
    /\ Awaits(t, "write")
    /\ answer[t] # None
    /\ Return(t)
    /\ UNCHANGED <<disk, reading, life, thread, sweep, troubles, history>>

(* Erasure.forget: the transaction,                                        *)
RequestForget(t) ==
    /\ Free(t)
    /\ Submit(t, ForgetAccount)
    /\ UNCHANGED <<disk, reading, life, running, sweep, troubles, history>>

(* then the checkpoint, whatever the transaction removed,                  *)
ForgetGoesOn(t) ==
    /\ Awaits(t, "forget")
    /\ \/ /\ Ran(t)
          /\ Submit(t, Checkpoint)
       \/ /\ answer[t] = "failed"
          /\ Return(t)
          /\ UNCHANGED queue
    /\ UNCHANGED <<disk, reading, life, running, sweep, troubles, history>>

(* then the answer.                                                        *)
ForgetReturns(t) ==
    /\ Awaits(t, "checkpoint")
    /\ answer[t] # None
    /\ Return(t)
    /\ owed' = IF Ran(t) THEN owed \cup doomed[t] ELSE owed
    /\ cleared' = IF Ran(t) /\ answer[t] # "busy" THEN cleared \cup doomed[t] ELSE cleared
    /\ doomed' = [doomed EXCEPT ![t] = {}]
    /\ UNCHANGED <<disk, reading, life, thread, sweep, troubles>>

(* The caller of a request goes away.                                      *)
Disconnect(t) ==
    /\ waiting[t] # None
    /\ Abandon(t)
    /\ doomed' = [e \in Erasers |-> IF e = t THEN {} ELSE doomed[e]]
    /\ UNCHANGED <<disk, reading, life, sweep, troubles, owed, cleared>>
-----------------------------------------------------------------------------
(* The sweeper: sweep_once for ever, whatever happens in it.               *)

SweepBegins ==
    /\ life = "up"
    /\ waiting[SWEEPER] = None
    /\ Submit(SWEEPER, PurgeOf(1))
    /\ sweep' = SweepStarts
    /\ UNCHANGED <<disk, reading, life, running, troubles, history>>

(* Mutant of SweepGoesOn: no guard around the sweep, so a failure ends the *)
(* task.                                                                   *)
SweepGoesOn_Unguarded ==
    LET removed == sweep.removed \/ answer[SWEEPER] = "changed"
        last == sweep.next = Len(DueKeys)
    IN  /\ Awaits(SWEEPER, "purge")
        /\ Ran(SWEEPER)
        /\ \/ /\ ~last
              /\ Submit(SWEEPER, PurgeOf(sweep.next + 1))
              /\ sweep' = [next |-> sweep.next + 1, removed |-> removed]
           \/ /\ last /\ removed
              /\ Submit(SWEEPER, Checkpoint)
              /\ UNCHANGED sweep
           \/ /\ last /\ ~removed
              /\ Return(SWEEPER)
              /\ sweep' = SweepStarts
              /\ UNCHANGED queue
        /\ UNCHANGED <<disk, reading, life, running, troubles, history>>

(* Mutant of SweepGoesOn: the count is kept on the sweeper, and a failed    *)
(* sweep leaves its own to the next.                                       *)
SweepGoesOn_KeepsTheCount ==
    LET removed == sweep.removed \/ answer[SWEEPER] = "changed"
        last == sweep.next = Len(DueKeys)
    IN  /\ Awaits(SWEEPER, "purge")
        /\ \/ /\ Ran(SWEEPER) /\ ~last
              /\ Submit(SWEEPER, PurgeOf(sweep.next + 1))
              /\ sweep' = [next |-> sweep.next + 1, removed |-> removed]
           \/ /\ Ran(SWEEPER) /\ last /\ removed
              /\ Submit(SWEEPER, Checkpoint)
              /\ UNCHANGED sweep
           \/ /\ answer[SWEEPER] = "failed" \/ (Ran(SWEEPER) /\ last /\ ~removed)
              /\ Return(SWEEPER)
              /\ sweep' = [SweepStarts EXCEPT !.removed = removed]
              /\ UNCHANGED queue
        /\ UNCHANGED <<disk, reading, life, running, troubles, history>>

(* The next key; after the last a checkpoint, if any row went; a failure   *)
(* ends the sweep (_sweep_guarded).                                        *)
SweepGoesOn ==
    LET removed == sweep.removed \/ answer[SWEEPER] = "changed"
        last == sweep.next = Len(DueKeys)
    IN  /\ Awaits(SWEEPER, "purge")
        /\ \/ /\ Ran(SWEEPER) /\ ~last
              /\ Submit(SWEEPER, PurgeOf(sweep.next + 1))
              /\ sweep' = [next |-> sweep.next + 1, removed |-> removed]
           \/ /\ Ran(SWEEPER) /\ last /\ removed
              /\ Submit(SWEEPER, Checkpoint)
              /\ UNCHANGED sweep
           \/ /\ answer[SWEEPER] = "failed" \/ (Ran(SWEEPER) /\ last /\ ~removed)
              /\ Return(SWEEPER)
              /\ sweep' = SweepStarts
              /\ UNCHANGED queue
        /\ UNCHANGED <<disk, reading, life, running, troubles, history>>

SweepEnds ==
    /\ Awaits(SWEEPER, "checkpoint")
    /\ answer[SWEEPER] # None
    /\ Return(SWEEPER)
    /\ sweep' = SweepStarts
    /\ UNCHANGED <<disk, reading, life, thread, troubles, history>>
-----------------------------------------------------------------------------
(* The end of the process, and the next one.                               *)

(* Mutant of Stop: the sweeper is left to itself.                          *)
Stop_SweeperGoesOn ==
    /\ life = "up"
    /\ Trouble
    /\ \A t \in Requests : waiting[t] = None
    /\ life' = "closing"
    /\ UNCHANGED <<disk, reading, thread, waiting, answer, sweep, history>>

(* Container.aclose, which the server runs when no request is left: the    *)
(* sweeper is cancelled first,                                             *)
Stop ==
    /\ life = "up"
    /\ Trouble
    /\ \A t \in Requests : waiting[t] = None
    /\ life' = "closing"
    /\ Abandon(SWEEPER)
    /\ sweep' = SweepStarts
    /\ UNCHANGED <<disk, reading, history>>

(* and the connection closes through the queue (Database.aclose).          *)
CloseDatabase ==
    /\ life = "closing"
    /\ waiting[CLOSER] = None
    /\ Submit(CLOSER, Close)
    /\ UNCHANGED <<disk, reading, life, running, sweep, troubles, history>>

(* What is lost with the process, at any moment.                           *)
Vanish ==
    /\ life # "down"
    /\ Trouble
    /\ life' = "down"
    /\ queue' = <<>>
    /\ running' = None
    /\ waiting' = [t \in Tasks |-> None]
    /\ answer' = [t \in Tasks |-> None]
    /\ sweep' = SweepStarts
    /\ doomed' = [t \in Erasers |-> {}]
    /\ UNCHANGED <<owed, cleared>>

Kill ==
    /\ Vanish
    /\ UNCHANGED <<disk, reading>>

PowerLoss ==
    /\ Vanish
    /\ \E kept \in synced..Len(log) : log' = SubSeq(log, 1, kept)
    /\ reading' = None
    /\ UNCHANGED <<file, synced>>

(* Database.__init__: the log that is found is used as it is.              *)
Start ==
    /\ life = "down"
    /\ life' = "up"
    /\ UNCHANGED <<disk, reading, thread, waiting, answer, sweep, troubles, history>>

(* sqlite3 settings.db ".backup", at any moment: a reader of the log as it *)
(* is then.  Without a process it is the last connection to close.         *)
BackupBegins ==
    /\ Trouble
    /\ reading = None
    /\ reading' = Len(log)
    /\ UNCHANGED <<disk, life, thread, waiting, answer, sweep, history>>

BackupEnds ==
    /\ reading # None
    /\ reading' = None
    /\ IF life = "down" THEN Truncate ELSE UNCHANGED disk
    /\ UNCHANGED <<life, thread, waiting, answer, sweep, troubles, history>>
-----------------------------------------------------------------------------
RequestReturns(t) ==
    \/ WriteReturns(t)
    \/ t \in Erasers /\ (ForgetGoesOn(t) \/ ForgetReturns(t))
Sweep == SweepBegins \/ SweepGoesOn \/ SweepEnds

Next ==
    \/ Begin
    \/ Finish
    \/ \E t \in Writers, row \in Rows : RequestWrite(t, row)
    \/ \E t \in Erasers : RequestForget(t)
    \/ \E t \in Requests : RequestReturns(t) \/ Disconnect(t)
    \/ Sweep
    \/ Stop
    \/ CloseDatabase
    \/ Kill
    \/ PowerLoss
    \/ Start
    \/ BackupBegins
    \/ BackupEnds

Spec == Init /\ [][Next]_vars

(* The thread runs what is queued, the event loop resumes what has its     *)
(* answer, the sweeper's sleep ends, and somebody starts the process.      *)
Fairness ==
    /\ WF_vars(Begin)
    /\ WF_vars(Finish)
    /\ \A t \in Requests : WF_vars(RequestReturns(t))
    /\ WF_vars(Sweep)
    /\ WF_vars(CloseDatabase)
    /\ WF_vars(Start)

FairSpec == Spec /\ Fairness
-----------------------------------------------------------------------------
(* When an erasure has been answered and no backup was reading, no byte of *)
(* what it erased is in the file or its log, now or after any crash, until *)
(* the account writes that row again: the checkpoint of Erasure.forget     *)
(* comes after its transaction, and everything queued between is in it.    *)
ErasedIsGone == cleared \cap OnDisk = {}

(* Nothing is queued behind the close, and nothing runs after it: the      *)
(* sweeper has been stopped before, and an abandoned callable is ahead.    *)
CloseComesLast == life = "down" => queue = <<>> /\ running = None

(* However its callers are queued, cancelled and killed, and whichever     *)
(* callables fail, transact is what AtomicCalls says: whole, at most once, *)
(* between call and answer, and not at all when answered with a failure.   *)
CallOf(t) ==
    IF waiting[t] # None /\ waiting[t].kind \in Transactions
    THEN [work |-> waiting[t], phase |-> IF answer[t] = None THEN "open"
                                         ELSE IF Ran(t) THEN "done" ELSE "failed"]
    ELSE IF running # None /\ running.task = t /\ ~running.live
                           /\ running.work.kind \in Transactions
    THEN [work |-> running.work, phase |-> "orphaned"]
    ELSE None

Abstract == INSTANCE AtomicCalls
                WITH table <- Table, call <- [t \in Tasks |-> CallOf(t)]

CallsAreAtomic == Abstract!Spec

(* The rows of a retired key are destroyed in the end, whatever single     *)
(* sweeps fail and however often the process ends: the sweeper sweeps      *)
(* before it sleeps, and goes on after a failure.                          *)
DueRowsAreDestroyed == \A row \in DueRows : <>[](row \notin Table)

(* Every call of a request ends, whether or not it is cancelled, and       *)
(* whatever is queued before it.                                           *)
CallsEnd == \A t \in Requests : waiting[t] # None ~> waiting[t] = None

(* "`forget_settings` leaves no trace of a value in the database file or   *)
(* its `-wal`" (docs/testing.md): also while ".backup" runs, which is how  *)
(* docs/operations.md says to back up a running service.                   *)
ErasureLeavesNoTrace == owed \cap OnDisk = {}
=============================================================================
