-------------------------- MODULE MCSettingsStore --------------------------
(***************************************************************************)
(* Small instances of SettingsStore.  Key k1 is account-scoped and k2      *)
(* profile-scoped; the change lists are the shapes the service builds: a   *)
(* single set or reset, an import over the account and two profiles, one   *)
(* that names an account-scoped key twice, and the empty document.         *)
(***************************************************************************)
EXTENDS SettingsStore, TLC

CONSTANTS a1, a2, k1, k2, p1, p2, p3, v1, v2, star

MCSymmetry ==
    Permutations({a1, a2}) \cup Permutations({p1, p2, p3}) \cup Permutations({v1, v2})

Set(p, k, v) == [row |-> <<p, k>>, value |-> v]
Reset(p, k)  == [row |-> <<p, k>>, value |-> Unset]

Singles ==
    {<<Set(star, k1, v)>> : v \in {v1, v2}}
        \cup {<<Set(p, k2, v)>> : p \in {p1, p2, p3}, v \in {v1, v2}}
        \cup {<<Reset(star, k1)>>} \cup {<<Reset(p, k2)>> : p \in {p1, p2, p3}}

Imports ==
    {<<Set(star, k1, v), Set(pq[1], k2, v), Set(pq[2], k2, v)>> :
        pq \in {x \in {p1, p2, p3} \X {p1, p2, p3} : x[1] # x[2]}, v \in {v1, v2}}

NamedTwice == {<<Set(star, k1, v1), Set(star, k1, v2)>>, <<Set(star, k1, v2), Set(star, k1, v1)>>}

MCChangeLists == Singles \cup Imports \cup NamedTwice \cup {<<>>}
=============================================================================
