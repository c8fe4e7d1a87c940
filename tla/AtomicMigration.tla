-------------------------- MODULE AtomicMigration ---------------------------
(***************************************************************************)
(* What migrate promises whoever uses the file, without scripts, locks,    *)
(* timeouts or crashes.                                                    *)
(*                                                                         *)
(* The tables and the record of their version move together, one version   *)
(* at a time and never back, and the choices in them stay what they were.  *)
(* A process serves only once the last version is reached, and only while  *)
(* one serves is a choice made or taken back, one at a time.  Whatever     *)
(* else a start does, and however it ends, is not seen in the file.        *)
(***************************************************************************)
EXTENDS Integers

CONSTANTS
    Processes,
    Latest,    \* the last version there is
    Choosable  \* what may be chosen: records with a profile, a key and a value

VARIABLES
    layout,    \* the version the tables are of
    recorded,  \* the versions they are recorded to be of
    choices,   \* what is chosen, whichever layout it is in
    serving    \* the processes that serve requests

vars == <<layout, recorded, choices, serving>>

SameName(c, d) == c.profile = d.profile /\ c.key = d.key

(* A fresh file, or one that any release left behind.                      *)
Init ==
    /\ layout \in 0..Latest
    /\ recorded = 1..layout
    /\ choices \in SUBSET Choosable
    /\ \A c, d \in choices : SameName(c, d) => c = d
    /\ layout = 0 => choices = {}
    /\ serving = {}

Migrate ==
    /\ layout < Latest
    /\ layout' = layout + 1
    /\ recorded' = recorded \cup {layout'}
    /\ UNCHANGED <<choices, serving>>

Serve(p) ==
    /\ layout = Latest
    /\ serving' = serving \cup {p}
    /\ UNCHANGED <<layout, recorded, choices>>

Leave(p) ==
    /\ serving' = serving \ {p}
    /\ UNCHANGED <<layout, recorded, choices>>

Choose ==
    /\ serving # {}
    /\ \E c \in choices' : /\ c \in Choosable
                           /\ choices' = {d \in choices : ~SameName(c, d)} \cup {c}
    /\ UNCHANGED <<layout, recorded, serving>>

TakeBack ==
    /\ serving # {}
    /\ \E c \in choices : choices' = choices \ {c}
    /\ UNCHANGED <<layout, recorded, serving>>

Next ==
    \/ Migrate
    \/ \E p \in Processes : Serve(p) \/ Leave(p)
    \/ Choose
    \/ TakeBack

Spec == Init /\ [][Next]_vars
=============================================================================
