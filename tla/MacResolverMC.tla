---------------------------- MODULE MacResolverMC ----------------------------
(***************************************************************************)
(* Instances of MacResolver for TLC.                                       *)
(***************************************************************************)
EXTENDS MacResolver, TLC

CONSTANTS h1, h2, oa, ob, d1, d2, d3

(* Two programs with marks and domains of their own. *)
DistinctOwners == h1 :> {oa} @@ h2 :> {ob}
OwnDomains     == h1 :> {{d1}, {d1, d2}} @@ h2 :> {{d3}}
=============================================================================
