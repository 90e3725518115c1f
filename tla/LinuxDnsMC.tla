----------------------------- MODULE LinuxDnsMC -----------------------------
(***************************************************************************)
(* Instances of LinuxDns for TLC.                                          *)
(***************************************************************************)
EXTENDS LinuxDns, TLC

CONSTANTS h1, h2, l1, l2

(* Two programs, each with a link of its own or none. *)
OwnLinks == h1 :> {l1, NoDevice} @@ h2 :> {l2, NoDevice}
=============================================================================
