------------------------------- MODULE NrptMC -------------------------------
(***************************************************************************)
(* Instances of Nrpt for TLC.                                              *)
(***************************************************************************)
EXTENDS Nrpt, TLC

CONSTANTS h1, h2, oa, ob, ka, kb

(* Two programs with marks of their own. *)
DistinctOwners == h1 :> {oa} @@ h2 :> {ob}

(* Marks that differ in more than case name different subkeys. *)
OwnKeys == oa :> ka @@ ob :> kb

(* Registry key names ignore case: "VPN" and "vpn" name one subkey. *)
SharedKey == oa :> ka @@ ob :> ka

RuleSymmetry == Permutations(RuleId)
=============================================================================
