-------------------------- MODULE MCSettingsClient --------------------------
(* Instances of SettingsClient for TLC.                                    *)
EXTENDS SettingsClient

CONSTANTS t1, t2, t3, token, common, search, noProfile, work, home

(* One namespace in two profiles, and in three.                            *)
ProfileKeys == {<<token, search, noProfile>>, <<token, search, work>>}
ThreeProfileKeys == ProfileKeys \cup {<<token, search, home>>}

(* Any task asks for any document.                                         *)
AllKeys == [t \in Tasks |-> Keys]

(* Every task asks for the document without a profile, the first and the   *)
(* second for one of their own besides.                                    *)
OneInCommon ==
    [t \in Tasks |-> {<<token, search, noProfile>>} \cup
                     IF t = t1 THEN {<<token, search, work>>}
                     ELSE IF t = t2 THEN {<<token, search, home>>} ELSE {}]
=============================================================================
