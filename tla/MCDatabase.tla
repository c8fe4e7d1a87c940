----------------------------- MODULE MCDatabase -----------------------------
(* Instances of Database for TLC.                                          *)
EXTENDS Database

CONSTANTS w, e, mine, old

(* One key past its window, and two, one of which nobody had set.  The     *)
(* account that may be forgotten has a row of its own and a retired one.   *)
OneKey == <<{old}>>
TwoKeys == <<{old}, {}>>
=============================================================================
