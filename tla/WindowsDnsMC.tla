---------------------------- MODULE WindowsDnsMC ----------------------------
(***************************************************************************)
(* Instances of WindowsDns for TLC.                                        *)
(***************************************************************************)
EXTENDS WindowsDns

(* A configuration may have servers of each family, or leave the interface  *)
(* alone.                                                                   *)
AnyFamilies == [h \in Handle |-> SUBSET Family]
=============================================================================
