---------------------------- MODULE ResolvConfMC ----------------------------
(***************************************************************************)
(* Instances of ResolvConf for TLC: two slots, two owner marks.            *)
(***************************************************************************)
EXTENDS ResolvConfInv, TLC

CONSTANTS h1, h2, oa, ob

(* Two programs with marks of their own. *)
DistinctOwners == h1 :> {oa} @@ h2 :> {ob}

(* Each slot may use either mark, so two handles may share one. *)
AnyOwner == h1 :> {oa, ob} @@ h2 :> {oa, ob}

(* One program, run again and again. *)
OneOwner == h1 :> {oa}
=============================================================================
