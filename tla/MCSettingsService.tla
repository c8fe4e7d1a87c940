------------------------- MODULE MCSettingsService -------------------------
(***************************************************************************)
(* Small instances of SettingsService: common.retention (account-scoped,   *)
(* clampable), spotify.market (profile-scoped) and keyring.reauth          *)
(* (owner-only).  The deployments are the plain build, one whose policy    *)
(* pins the market and narrows the retention away from its default, one    *)
(* that retired the market, and an older build in which the market was     *)
(* still account-scoped.                                                   *)
(***************************************************************************)
EXTENDS SettingsService

CONSTANTS a1, retention, market, reauth, common, spotify, keyring, p1, p2, v1, v2,
          settings, service

MCNamespaceOf == [k \in {retention, market, reauth} |->
                     CASE k = retention -> common [] k = market -> spotify [] k = reauth -> keyring]

(* One name in two namespaces, as job_retention_hours is in common and in  *)
(* spotify.                                                                *)
MCNameOf == [k \in {retention, market, reauth} |-> IF k = market THEN retention ELSE k]

KeyringGranted == [a \in {service} |-> {keyring}]
SpotifyGranted == [a \in {service} |-> {spotify}]

Plain == [live    |-> {retention, market, reauth},
          scope   |-> [k \in Keys |-> IF k = market THEN "profile" ELSE "account"],
          default |-> [k \in Keys |-> v1],
          allowed |-> [k \in Keys |-> {v1, v2}],
          catalogueDefault |-> [k \in Keys |-> v1],
          catalogueAllowed |-> [k \in Keys |-> {v1, v2}],
          pin     |-> [k \in Keys |-> NotPinned]]

Strict == [Plain EXCEPT !.pin[market] = v2, !.allowed[retention] = {v2}]

Retired == [Plain EXCEPT !.live = {retention, reauth}]

Before == [Plain EXCEPT !.scope[market] = "account"]

AllDeployments == {Plain, Strict, Retired, Before}
PlainOrStrict == {Plain, Strict}

Named(k, v) == [key |-> k, value |-> v]
Entry(p, k, v) == [profile |-> p, key |-> k, value |-> v]

MCDocuments == {<<>>, <<Named(retention, v1), Named(market, v2)>>}

(* An import over two profiles, the second of which names the retention    *)
(* once more.                                                              *)
MCImports ==
    {<<Entry(NoProfile, retention, v1), Entry(p1, market, v2),
       Entry(p2, market, v1), Entry(p2, retention, v2)>>}

MCLegacyDocuments == {<<Named(retention, v2), Named(market, v1)>>}

OneReader == {<<settings, p1>>}
AService == {<<service, p1>>}
=============================================================================
