---------------------------- MODULE AtomicCalls -----------------------------
(***************************************************************************)
(* What transact promises its callers, without queue, worker or log.       *)
(*                                                                         *)
(* A call takes effect at one instant between being made and being         *)
(* answered, and at most once.  One that is answered with a failure has    *)
(* changed nothing.  A caller may leave: its call is then dropped, or goes *)
(* on without it and takes effect later, whole.  A kill ends all calls and *)
(* keeps the table; only a power loss may take the table back.             *)
(***************************************************************************)
CONSTANTS Tasks, Rows, None

VARIABLES
    table,  \* the rows there are
    call    \* what each task has called for, if anything

vars == <<table, call>>

Works == [kind : {"write", "forget", "purge"}, rows : SUBSET Rows]
Opened == [work : Works, phase : {"open"}]
Phases == {"open", "orphaned", "done", "failed"}

TypeOK ==
    /\ table \in SUBSET Rows
    /\ call \in [Tasks -> [work : Works, phase : Phases] \cup {None}]

Init ==
    /\ table \in SUBSET Rows
    /\ call = [t \in Tasks |-> None]

InPhase(t, phases) == call[t] # None /\ call[t].phase \in phases

Outcome(work, stored) ==
    IF work.kind = "write" THEN stored \cup work.rows ELSE stored \ work.rows

(* A caller with an answer may call again at once.                         *)
Call(t) ==
    /\ call[t] = None \/ InPhase(t, {"done", "failed"})
    /\ call'[t] \in Opened
    /\ call' = [call EXCEPT ![t] = call'[t]]
    /\ UNCHANGED table

(* The end of a call: its caller, if there still is one, has an answer.    *)
End(t, phase) ==
    call' = [call EXCEPT ![t] = IF @.phase = "open" THEN [@ EXCEPT !.phase = phase]
                                                    ELSE None]

Effect(t) ==
    /\ InPhase(t, {"open", "orphaned"})
    /\ table' = Outcome(call[t].work, table)
    /\ End(t, "done")

Fail(t) ==
    /\ InPhase(t, {"open", "orphaned"})
    /\ End(t, "failed")
    /\ UNCHANGED table

(* The caller takes its answer, or leaves without one.                     *)
Leave(t) ==
    /\ \/ /\ InPhase(t, {"open", "done", "failed"})
          /\ call' = [call EXCEPT ![t] = None]
       \/ /\ InPhase(t, {"open"})
          /\ call' = [call EXCEPT ![t].phase = "orphaned"]
    /\ UNCHANGED table

Kill ==
    /\ call' = [t \in Tasks |-> None]
    /\ UNCHANGED table

PowerLoss ==
    /\ call' = [t \in Tasks |-> None]
    /\ table' \in SUBSET Rows

Next ==
    \/ \E t \in Tasks :
        \/ Call(t)
        \/ Effect(t)
        \/ Fail(t)
        \/ Leave(t)
    \/ Kill
    \/ PowerLoss

Spec == Init /\ [][Next]_vars
=============================================================================
