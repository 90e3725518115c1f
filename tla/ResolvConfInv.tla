--------------------------- MODULE ResolvConfInv ---------------------------
(***************************************************************************)
(* The inductive invariants of ResolvConf, for calls that do not overlap   *)
(* and for closes that do: what each of the four file moves knows of       *)
(* RESOLV_CONF, BACKUP and TEMP at each of its steps.                      *)
(***************************************************************************)
EXTENDS ResolvConf

(* Calls do not overlap, and others edit RESOLV_CONF only between calls.    *)
Serial == Overlap = "none" /\ Edits # "anytime"

OneCall == \A h, k \in Handle : InCall(h) /\ InCall(k) => h = k

InForce == file["conf"] = user
Saved   == file["bak"] = user /\ file["bak"] # Absent

(* UserConfigKept, and BACKUP is a file where it is relied on: a user's     *)
(* configuration that is no file at all is never overridden.                *)
Kept == InForce \/ Saved

(* A slot outside a file move, or between two of them. *)
NoMove(h) ==
  job[h] = "none" =>
    pc[h] \in Rest \cup {"probe_link", "probe_stub", "cleanup_residual", "check_stale", "closing"}

(* RESOLV_CONF is copied to a BACKUP that did not exist. *)
BackupMove(h) ==
  job[h] = "backup" =>
    /\ pc[h] \in {"copy_open", "write", "fsync"}
    /\ InForce
    /\ pc[h] = "copy_open" => file["bak"] = Absent
    /\ pc[h] = "write" => /\ fd[h] = "bak"
                         /\ buf[h] = user /\ buf[h] # Absent
    /\ pc[h] = "fsync" => Saved

(* TEMP is written beside an untouched RESOLV_CONF and its copy. *)
TempMove(h) ==
  job[h] = "temp" =>
    /\ pc[h] \in {"temp_open", "write", "fsync"}
    /\ InForce /\ Saved
    /\ pc[h] = "write" => fd[h] = "tmp" /\ buf[h] = cfg[h]
    /\ pc[h] = "fsync" => file["tmp"] = cfg[h]

(* TEMP moves over RESOLV_CONF, by rename or by the copy of the fallback. *)
InstallMove(h) ==
  job[h] = "install" =>
    /\ pc[h] \in {"rename", "copy_open", "write", "fsync", "remove", "sync_dir"}
    /\ Saved
    /\ pc[h] \in {"rename", "copy_open"} => file["tmp"] = cfg[h]
    /\ pc[h] = "write" => fd[h] = "conf" /\ buf[h] = cfg[h]

(* BACKUP moves over a RESOLV_CONF that carries the owner header.  Once the *)
(* copy of the fallback is written, the two are equal until BACKUP goes.    *)
RestoreMove(h) ==
  job[h] \in {"reclaim", "restore"} =>
    /\ pc[h] \in {"require_backup", "rename", "copy_open", "write", "fsync", "remove", "sync_dir"}
    /\ pc[h] # "sync_dir" => Saved
    /\ pc[h] \in {"require_backup", "rename"} => OwnedBy(file["conf"], cfg[h].owner)
    /\ pc[h] = "write" => fd[h] = "conf" /\ buf[h] = user
    /\ pc[h] \in {"fsync", "remove"} => InForce
    /\ pc[h] = "sync_dir" => InForce /\ file["bak"] = Absent

(* Files are open only between open(2) and write(2). *)
Descriptors == \A h \in Handle : pc[h] # "write" => fd[h] = NoFd

(* A call and a handle have a configuration. *)
Configured == \A h \in Handle : InCall(h) \/ pc[h] = "live" => cfg[h] \in Managed

Move(h) == NoMove(h) /\ BackupMove(h) /\ TempMove(h) /\ InstallMove(h) /\ RestoreMove(h)

Moves == \A h \in Handle : Move(h)

(* The state at every step of the four file moves, from which it follows    *)
(* that the user's configuration is in RESOLV_CONF or in BACKUP.            *)
IInv ==
  /\ TypeOK /\ Configured
  /\ Kept /\ OneCall /\ Descriptors /\ Moves

-----------------------------------------------------------------------------
(* No two slots pass the same mark, two applies do not overlap, and others  *)
(* edit RESOLV_CONF only between calls.                                     *)
ClosesOverlap ==
  /\ \A h, k \in Handle : h # k => OwnersOf[h] \cap OwnersOf[k] = {}
  /\ Overlap \in {"none", "close"} /\ Edits # "anytime"

(* A slot that works on a file move; at its last step the files are done.   *)
Moving(h) == job[h] # "none" /\ pc[h] # "sync_dir"

OneApply == \A h, k \in Handle : Applying(h) /\ Applying(k) => h = k
OneMove  == \A h, k \in Handle : Moving(h) /\ Moving(k) => h = k

(* The mark of a call or a handle is one of its program's.                  *)
OwnMark(h) == InCall(h) \/ pc[h] = "live" => cfg[h] \in Managed /\ cfg[h].owner \in OwnersOf[h]

(* TEMP moves over the user's RESOLV_CONF.                                  *)
Installs(h) ==
  job[h] = "install" =>
    /\ pc[h] \in {"rename", "copy_open", "write", "fsync", "remove", "sync_dir"}
    /\ Saved
    /\ pc[h] # "sync_dir" => file["tmp"] = cfg[h]
    /\ pc[h] \in {"rename", "copy_open"} => InForce
    /\ pc[h] = "write" => file["conf"] = Torn /\ fd[h] = "conf" /\ buf[h] = cfg[h]
    /\ pc[h] \in {"fsync", "remove", "sync_dir"} => file["conf"] = cfg[h]

(* BACKUP moves over a RESOLV_CONF that carries the slot's own mark.  What  *)
(* becomes of either once BACKUP is gone is no more this slot's.            *)
PutsBack(h) ==
  job[h] \in {"reclaim", "restore"} =>
    /\ pc[h] \in {"require_backup", "rename", "copy_open", "write", "fsync", "remove", "sync_dir"}
    /\ pc[h] # "sync_dir" => Saved
    /\ pc[h] \in {"require_backup", "rename", "copy_open"} => OwnedBy(file["conf"], cfg[h].owner)
    /\ pc[h] = "write" => file["conf"] = Torn /\ fd[h] = "conf" /\ buf[h] = user
    /\ pc[h] \in {"fsync", "remove"} => InForce

(* Unless others edit it, RESOLV_CONF is a handle's until its close.        *)
Holds(h) ==
  pc[h] \in {"live", "closing"} /\ "edit" \notin happened => file["conf"] = cfg[h] /\ Saved

Marks == \A h \in Handle : OwnMark(h)

Fits(h) ==
  NoMove(h) /\ BackupMove(h) /\ TempMove(h) /\ Installs(h) /\ PutsBack(h) /\ Holds(h)

FilesInv == Kept /\ OneApply /\ OneMove /\ Descriptors /\ \A h \in Handle : Fits(h)

OverlapInv == TypeOK /\ Marks /\ FilesInv

(* The slots that account for a RESOLV_CONF that is not the user's, for a   *)
(* BACKUP and for a TEMP.                                                   *)
Overrides(h) ==
  \/ pc[h] \in {"live", "closing"}
  \/ job[h] = "install"
  \/ job[h] \in {"reclaim", "restore"} /\ pc[h] # "sync_dir"

BacksUp(h) ==
  \/ Overrides(h)
  \/ job[h] = "temp"
  \/ job[h] = "backup" /\ pc[h] # "copy_open"

Prepares(h) == job[h] \in {"temp", "install"} /\ pc[h] # "sync_dir"

(* As long as nothing has gone wrong, no file is left to nobody.            *)
Explained ==
  happened = {} =>
    /\ InForce \/ \E h \in Handle : Overrides(h)
    /\ file["bak"] = Absent \/ \E h \in Handle : BacksUp(h)
    /\ file["tmp"] = Absent \/ \E h \in Handle : Prepares(h)

(* What an apply has looked at stays as it was: BACKUP never holds what is  *)
(* systemd-resolved's, and no override is left on one of its links.         *)
Probed(h) ==
  Applying(h) =>
    /\ pc[h] # "probe_link" => link # "resolved"
    /\ pc[h] \notin {"probe_link", "probe_stub"} => file["conf"] \notin Stub

Spared ==
  /\ mounted => link = "file"
  /\ \A h \in Handle : pc[h] = "copy_open" /\ job[h] # "backup" => mounted
  /\ file["conf"] \in Managed \cup {Torn} => link # "resolved"
  /\ "io" \notin happened =>
       file["bak"] \notin Stub /\ \A h \in Handle : Probed(h)

(* A slot that is past both probes of is_managed_by_resolved. *)
Past(h) == Applying(h) /\ pc[h] \notin {"probe_link", "probe_stub"}
=============================================================================
