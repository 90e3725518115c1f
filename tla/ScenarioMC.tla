----------------------------- MODULE ScenarioMC -----------------------------
(* Small instances of Scenario: see the README for the choice of bounds. *)
EXTENDS Scenario

CONSTANTS up, other, stub, self   \* addresses

MCName      == {"overlay", "forward", "outside", "static"}
MCOverlay   == {"overlay"}
MCAddress   == {up, other, stub, self}
MCLeadsBack == {other, stub, self}
MCStub      == {stub}

(* A server that is asked twice, one that follows the system's DNS, the stub. *)
MCParentLists == {<<>>, <<up, up>>, <<other>>, <<stub>>}

(* A bound: a parent that leads back is met in one mode, and without a device. *)
MCInit == Init /\ (parents = <<other>> => mode = "global" /\ ~tun)
MCSpec == MCInit /\ [][Next]_vars /\ WF_vars(RunnerStep)
=============================================================================
