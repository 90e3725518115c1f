---------------------------- MODULE MacGlobalMC ----------------------------
(***************************************************************************)
(* Instances of MacGlobal for TLC.                                         *)
(***************************************************************************)
EXTENDS MacGlobal, TLC

CONSTANTS h1, h2, s1, s2, en0, en1, utun0, u1, o1

(* A service of each interface, and an entry with and without other keys.   *)
Interfaces == s1 :> en0 @@ s2 :> en1
Entries    == {NoDns, [servers |-> u1, others |-> o1]}

(* One program uses the primary service, the other names an interface or a  *)
(* tunnel that has no service.                                              *)
Devices == h1 :> {NoDevice} @@ h2 :> {en1, utun0}
=============================================================================
