------------------------------ MODULE UndoLog ------------------------------
(***************************************************************************)
(* What a temporary change of a system file promises: the configuration    *)
(* others installed is overridden under an undo log of one entry, so that  *)
(* it can be brought back from any state.  ResolvConf implements it.       *)
(***************************************************************************)
CONSTANTS
  Original,    \* configurations of others
  Override,    \* configurations a handle puts in force for a while
  Broken,      \* an incomplete configuration
  Nothing      \* no saved copy

VARIABLES
  active,      \* the configuration in force
  saved,       \* the undo entry
  original     \* history: the last configuration others installed

vars == <<active, saved, original>>

Init ==
  /\ original \in Original
  /\ active = original
  /\ saved = Nothing

(* The undo entry is written, spoilt or dropped while nothing is overridden. *)
Save ==
  /\ active = original
  /\ saved' \in {original, Broken, Nothing}
  /\ UNCHANGED <<active, original>>

(* What is in force is overwritten, or put back in place, while a complete  *)
(* undo entry exists.                                                       *)
Overwrite ==
  /\ saved = original
  /\ active' \in Override \cup {original, Broken}
  /\ UNCHANGED <<saved, original>>

(* The undo entry itself is moved into place. *)
Restore ==
  /\ saved = original
  /\ active' = saved
  /\ saved' = Nothing
  /\ UNCHANGED original

(* Others install a configuration of theirs. *)
Edit ==
  /\ original' \in Original
  /\ active' = original'
  /\ UNCHANGED saved

Next == Save \/ Overwrite \/ Restore \/ Edit

Spec == Init /\ [][Next]_vars

(* The configuration of others is in force or in the undo log, whatever     *)
(* step of an override was the last one to be taken.                        *)
Recoverable == original \in {active, saved}
=============================================================================
