----------------------------- MODULE ResolvConf -----------------------------
(***************************************************************************)
(* The Linux /etc/resolv.conf backend (src/platform/linux/resolv_conf.rs)  *)
(* behind the handle SetDns (src/lib.rs), one action per system call that  *)
(* another program, a failing disk or a killed process can come between.   *)
(*                                                                         *)
(* A handle slot stands for one SetDns value and the thread that calls     *)
(* apply and close on it.  After an error, a close, a forget or a crash    *)
(* the slot is free for the next apply, so a slot also plays the next run  *)
(* of the same program.                                                    *)
(***************************************************************************)
EXTENDS Naturals, FiniteSets

CONSTANTS
  Handle,       \* slots for SetDns values
  Owner,        \* owner marks
  Server,       \* values of Config.servers
  OwnersOf,     \* OwnersOf[h]: the marks the program using slot h may pass
  User,         \* contents other programs write in /etc/resolv.conf
  Stub,         \* those of User whose only nameservers are resolved's stubs
  LinkKinds,    \* what /etc/resolv.conf may be: see Links
  MountKinds,   \* may it be a bind mount, so that rename(2) gives EBUSY?
  Overlap,      \* which calls may overlap: "none", "close" or "any"
  Edits,        \* when others rewrite it: "never", "between" calls, "anytime"
  Mishaps,      \* which of "io", "crash" and "forget" may happen
  Absent,       \* no such file
  Torn,         \* a file truncated by open(2) and not yet written
  None          \* no configuration

(* The file as render_resolv_conf writes it: the owner header, then servers. *)
Managed == [owner : Owner, servers : Server]

Content == User \cup Managed \cup {Torn}

Path == {"conf", "bak", "tmp"}     \* RESOLV_CONF, BACKUP, TEMP

(* "file": a regular file, or nothing.  The others are symbolic links: one  *)
(* whose target contains systemd/resolve, and any other.                    *)
Links == {"file", "resolved", "elsewhere"}

ASSUME ContentAssumption ==
  /\ Stub \subseteq User
  /\ Absent \notin User /\ Torn \notin User /\ Absent # Torn
  /\ Absent \notin Managed /\ Torn \notin Managed
  /\ None \notin User \cup Managed \cup {Absent, Torn}
  /\ User \cap Managed = {}

ASSUME RegimeAssumption ==
  /\ OwnersOf \in [Handle -> SUBSET Owner]
  /\ LinkKinds \subseteq Links /\ MountKinds \subseteq BOOLEAN
  /\ Overlap \in {"none", "close", "any"}
  /\ Edits \in {"never", "between", "anytime"}
  /\ Mishaps \subseteq {"io", "crash", "forget"}

VARIABLES
  file,      \* [Path -> content], "conf" being what a read of it returns
  link,      \* what kind of directory entry RESOLV_CONF is
  mounted,   \* is RESOLV_CONF a mount point?
  pc,        \* pc[h]: the next system call of the call running in slot h
  job,       \* job[h]: which of the four file moves that call belongs to
  cfg,       \* cfg[h]: the file slot h renders from its configuration
  fd,        \* fd[h]: path of the file the slot has open for writing
  buf,       \* buf[h]: what the slot read and is about to write
  user,      \* history: the last configuration others installed
  happened   \* history: which mishaps and edits there were so far

fileVars == <<file, link, mounted>>
history  == <<user, happened>>
vars     == <<file, link, mounted, pc, job, cfg, fd, buf, user, happened>>

(* cleanup_residual and close move BACKUP back; apply copies RESOLV_CONF to *)
(* BACKUP, writes TEMP and moves TEMP over RESOLV_CONF.                     *)
Jobs == {"none", "reclaim", "backup", "temp", "install", "restore"}

From(j) == IF j = "backup" THEN "conf" ELSE IF j = "install" THEN "tmp" ELSE "bak"
To(j)   == IF j = "backup" THEN "bak" ELSE IF j = "temp" THEN "tmp" ELSE "conf"

Steps == {"probe_link", "probe_stub", "cleanup_residual", "require_backup",
          "check_stale", "copy_open", "temp_open", "write", "fsync", "rename",
          "remove", "sync_dir", "closing"}
Rest  == {"idle", "live", "dead"}
NoFd  == "none"

-----------------------------------------------------------------------------
InCall(h) == pc[h] \in Steps

Applying(h) == InCall(h) /\ pc[h] # "closing" /\ job[h] # "restore"

MayApply == \A k \in Handle : CASE Overlap = "none"  -> ~InCall(k)
                                [] Overlap = "close" -> ~Applying(k)
                                [] OTHER             -> TRUE

MayClose == Overlap = "none" => \A k \in Handle : ~InCall(k)

(* content.starts_with(owner_header(owner)).  The header ends in a newline, *)
(* so no owner's header is a prefix of another's.                           *)
OwnedBy(c, o) == c \in Managed /\ c.owner = o

Goto(h, l) == pc' = [pc EXCEPT ![h] = l]

(* The call in slot h returns and leaves the slot at l, one of Rest. *)
Return(h, l) ==
  /\ Goto(h, l)
  /\ job' = [job EXCEPT ![h] = "none"]
  /\ buf' = [buf EXCEPT ![h] = Absent]
  /\ cfg' = IF l = "live" THEN cfg ELSE [cfg EXCEPT ![h] = None]

Happens(m) == happened' = happened \cup {m} /\ UNCHANGED user

(* Err(_) to the caller.  A failed apply makes no handle and a failed close *)
(* has consumed its handle, so the slot is free either way.                 *)
Fail(h) == Return(h, "idle") /\ fd' = [fd EXCEPT ![h] = NoFd]

-----------------------------------------------------------------------------
(* Slips the properties below must notice, one for each action they vary.   *)

(* Config::normalize forgets to validate the owner. *)
ApplyUnvalidated(h) ==
  /\ pc[h] \in {"idle", "dead"} /\ MayApply
  /\ \E o \in OwnersOf[h] \cup {None}, s \in Server :
       cfg' = [cfg EXCEPT ![h] = [owner |-> o, servers |-> s]]
  /\ Goto(h, "probe_link")
  /\ UNCHANGED <<fileVars, job, fd, buf, history>>

(* The link itself is not looked at. *)
ProbeLinkSkipped(h) ==
  /\ pc[h] = "probe_link" /\ Goto(h, "probe_stub")
  /\ UNCHANGED <<fileVars, job, cfg, fd, buf, history>>

(* Residual state is never cleaned up. *)
CleanupResidualSkipped(h) ==
  /\ pc[h] = "cleanup_residual" /\ Goto(h, "check_stale")
  /\ UNCHANGED <<fileVars, job, cfg, fd, buf, history>>

(* Any setdns header is taken for one's own. *)
CleanupResidualOfAnyOwner(h) ==
  /\ pc[h] = "cleanup_residual"
  /\ IF file["conf"] \in Managed
       THEN job' = [job EXCEPT ![h] = "reclaim"] /\ Goto(h, "require_backup")
       ELSE Goto(h, "check_stale") /\ UNCHANGED job
  /\ UNCHANGED <<fileVars, cfg, fd, buf, history>>

(* A backup that is already there is overwritten. *)
CheckStaleSkipped(h) ==
  /\ pc[h] = "check_stale"
  /\ job' = [job EXCEPT ![h] = "backup"] /\ Goto(h, "copy_open")
  /\ UNCHANGED <<fileVars, cfg, fd, buf, history>>

(* The destination of a copy is created before the source is opened. *)
CopyOpenTruncatesFirst(h) ==
  /\ pc[h] = "copy_open"
  /\ LET src == From(job[h])
         dst == To(job[h])
     IN /\ file' = [file EXCEPT ![dst] = Torn]
        /\ IF file[src] = Absent
             THEN Fail(h)
             ELSE /\ fd' = [fd EXCEPT ![h] = dst]
                  /\ buf' = [buf EXCEPT ![h] = file[src]]
                  /\ Goto(h, "write")
                  /\ UNCHANGED <<job, cfg>>
  /\ UNCHANGED <<link, mounted, history>>

(* The EBUSY fallback keeps the source. *)
FsyncEndsTheCopy(h) ==
  /\ pc[h] = "fsync"
  /\ pc' = [pc EXCEPT ![h] = CASE job[h] = "backup" -> "temp_open"
                               [] job[h] = "temp"   -> "rename"
                               [] OTHER             -> "sync_dir"]
  /\ job' = [job EXCEPT ![h] = CASE job[h] = "backup" -> "temp"
                                 [] job[h] = "temp"   -> "install"
                                 [] OTHER             -> job[h]]
  /\ UNCHANGED <<fileVars, cfg, fd, buf, history>>

(* Dropping the handle restores nothing. *)
CloseWithoutRestore(h) ==
  /\ pc[h] = "live" /\ MayClose /\ Return(h, "idle")
  /\ UNCHANGED <<fileVars, fd, history>>

-----------------------------------------------------------------------------
(* SetDns::apply reaches this backend for a global configuration without a  *)
(* device or without systemd-resolved on the bus.                           *)
Apply(h) ==
  /\ pc[h] \in {"idle", "dead"}
  /\ MayApply
  /\ \E o \in OwnersOf[h], s \in Server :
       cfg' = [cfg EXCEPT ![h] = [owner |-> o, servers |-> s]]
  /\ Goto(h, "probe_link")
  /\ UNCHANGED <<fileVars, job, fd, buf, history>>

(* is_managed_by_resolved, first the link, then the content.  A read that   *)
(* fails counts as "not managed" (the "io" disjuncts).                      *)
ProbeLink(h) ==
  /\ pc[h] = "probe_link"
  /\ \/ link = "resolved" /\ Fail(h) /\ UNCHANGED history
     \/ /\ \/ link # "resolved" /\ UNCHANGED history
           \/ "io" \in Mishaps /\ Happens("io")
        /\ Goto(h, "probe_stub")
        /\ UNCHANGED <<job, cfg, fd, buf>>
  /\ UNCHANGED fileVars

ProbeStub(h) ==
  /\ pc[h] = "probe_stub"
  /\ \/ file["conf"] \in Stub /\ Fail(h) /\ UNCHANGED history
     \/ /\ \/ file["conf"] \notin Stub /\ UNCHANGED history
           \/ "io" \in Mishaps /\ Happens("io")
        /\ Goto(h, "cleanup_residual")
        /\ UNCHANGED <<job, cfg, fd, buf>>
  /\ UNCHANGED fileVars

(* cleanup_residual reads RESOLV_CONF; a missing file and a file without    *)
(* this owner's header are left alone.                                      *)
CleanupResidual(h) ==
  /\ pc[h] = "cleanup_residual"
  /\ IF OwnedBy(file["conf"], cfg[h].owner)
       THEN job' = [job EXCEPT ![h] = "reclaim"] /\ Goto(h, "require_backup")
       ELSE Goto(h, "check_stale") /\ UNCHANGED job
  /\ UNCHANGED <<fileVars, cfg, fd, buf, history>>

(* close reads RESOLV_CONF: an error if it is missing or trampled. *)
CloseReads(h) ==
  /\ pc[h] = "closing"
  /\ IF OwnedBy(file["conf"], cfg[h].owner)
       THEN /\ job' = [job EXCEPT ![h] = "restore"]
            /\ Goto(h, "require_backup")
            /\ UNCHANGED <<cfg, fd, buf>>
       ELSE Fail(h)
  /\ UNCHANGED <<fileVars, history>>

(* Path::new(BACKUP).exists() in cleanup_residual and in close. *)
RequireBackup(h) ==
  /\ pc[h] = "require_backup"
  /\ IF file["bak"] = Absent
       THEN Fail(h)
       ELSE Goto(h, "rename") /\ UNCHANGED <<job, cfg, fd, buf>>
  /\ UNCHANGED <<fileVars, history>>

(* Path::new(BACKUP).exists() in apply: StaleBackup, or go on to the copy. *)
CheckStale(h) ==
  /\ pc[h] = "check_stale"
  /\ IF file["bak"] # Absent
       THEN Fail(h)
       ELSE /\ job' = [job EXCEPT ![h] = "backup"]
            /\ Goto(h, "copy_open")
            /\ UNCHANGED <<cfg, fd, buf>>
  /\ UNCHANGED <<fileVars, history>>

(* fs::copy opens the source, which must exist, then creates or truncates   *)
(* the destination.  The source is read in the same step.                   *)
CopyOpen(h) ==
  /\ pc[h] = "copy_open"
  /\ LET src == From(job[h])
         dst == To(job[h])
     IN IF file[src] = Absent
          THEN Fail(h) /\ UNCHANGED file
          ELSE /\ file' = [file EXCEPT ![dst] = Torn]
               /\ fd' = [fd EXCEPT ![h] = dst]
               /\ buf' = [buf EXCEPT ![h] = file[src]]
               /\ Goto(h, "write")
               /\ UNCHANGED <<job, cfg>>
  /\ UNCHANGED <<link, mounted, history>>

(* write_temp creates or truncates TEMP. *)
TempOpen(h) ==
  /\ pc[h] = "temp_open"
  /\ file' = [file EXCEPT !["tmp"] = Torn]
  /\ fd' = [fd EXCEPT ![h] = "tmp"]
  /\ buf' = [buf EXCEPT ![h] = cfg[h]]
  /\ Goto(h, "write")
  /\ UNCHANGED <<link, mounted, job, cfg, history>>

(* The bytes go to the open file, under whatever name it has by now; a file *)
(* that was unlinked meanwhile takes them out of sight.                     *)
Write(h) ==
  /\ pc[h] = "write"
  /\ file' = IF fd[h] = NoFd THEN file ELSE [file EXCEPT ![fd[h]] = buf[h]]
  /\ fd' = [fd EXCEPT ![h] = NoFd]
  /\ buf' = [buf EXCEPT ![h] = Absent]
  /\ Goto(h, "fsync")
  /\ UNCHANGED <<link, mounted, job, cfg, history>>

(* copy_with_fsync opens the destination again by name; write_temp syncs    *)
(* the file it holds.                                                       *)
Fsync(h) ==
  /\ pc[h] = "fsync"
  /\ IF job[h] # "temp" /\ file[To(job[h])] = Absent
       THEN Fail(h)
       ELSE /\ pc' = [pc EXCEPT ![h] = CASE job[h] = "backup" -> "temp_open"
                                         [] job[h] = "temp"   -> "rename"
                                         [] OTHER             -> "remove"]
            /\ job' = [job EXCEPT ![h] = CASE job[h] = "backup" -> "temp"
                                           [] job[h] = "temp"   -> "install"
                                           [] OTHER             -> job[h]]
            /\ UNCHANGED <<cfg, fd, buf>>
  /\ UNCHANGED <<fileVars, history>>

(* Descriptors of a file that loses its name p. *)
FdsAfterUnlink(p) == [k \in Handle |-> IF fd[k] = p THEN NoFd ELSE fd[k]]

(* Open files follow a rename: the source's descriptors now name the        *)
(* destination, and those of the replaced file name nothing.                *)
FdsAfterRename(src, dst) ==
  [k \in Handle |-> IF fd[k] = src THEN dst ELSE FdsAfterUnlink(dst)[k]]

(* rename(From, RESOLV_CONF): atomic, replacing a symbolic link itself; on  *)
(* a mount point the kernel answers EBUSY and the code falls back to a copy.*)
Rename(h) ==
  /\ pc[h] = "rename"
  /\ LET src == From(job[h])
     IN \/ /\ file[src] = Absent
           /\ Fail(h)
           /\ UNCHANGED <<file, link>>
        \/ /\ file[src] # Absent /\ mounted
           /\ Goto(h, "copy_open")
           /\ UNCHANGED <<file, link, job, cfg, fd, buf>>
        \/ /\ file[src] # Absent /\ ~mounted
           /\ file' = [file EXCEPT !["conf"] = file[src], ![src] = Absent]
           /\ link' = "file"
           /\ fd' = FdsAfterRename(src, "conf")
           /\ Goto(h, "sync_dir")
           /\ UNCHANGED <<job, cfg, buf>>
  /\ UNCHANGED <<mounted, history>>

(* The last step of the EBUSY fallback: fs::remove_file(from). *)
Remove(h) ==
  /\ pc[h] = "remove"
  /\ LET src == From(job[h])
     IN IF file[src] = Absent
          THEN Fail(h) /\ UNCHANGED file
          ELSE /\ file' = [file EXCEPT ![src] = Absent]
               /\ fd' = FdsAfterUnlink(src)
               /\ Goto(h, "sync_dir")
               /\ UNCHANGED <<job, cfg, buf>>
  /\ UNCHANGED <<link, mounted, history>>

(* sync_dir(ETC) ends cleanup_residual, apply and close. *)
SyncDir(h) ==
  /\ pc[h] = "sync_dir"
  /\ CASE job[h] = "reclaim" -> /\ job' = [job EXCEPT ![h] = "none"]
                                /\ Goto(h, "check_stale")
                                /\ UNCHANGED <<cfg, buf>>
       [] job[h] = "install" -> Return(h, "live")
       [] OTHER              -> Return(h, "idle")
  /\ UNCHANGED <<fileVars, fd, history>>

(* SetDns::close, or the drop of the handle, which makes the same calls and *)
(* logs the error instead of returning it.                                  *)
Close(h) ==
  /\ pc[h] = "live"
  /\ MayClose
  /\ Goto(h, "closing")
  /\ UNCHANGED <<fileVars, job, cfg, fd, buf, history>>

-----------------------------------------------------------------------------
(* Any system call may fail with an I/O error, which the code returns.  The *)
(* two probes turn errors into answers, and the two exists() cannot fail.   *)
IoError(h) ==
  /\ "io" \in Mishaps
  /\ InCall(h) /\ pc[h] \notin {"probe_link", "probe_stub", "require_backup", "check_stale"}
  /\ Fail(h)
  /\ UNCHANGED fileVars
  /\ Happens("io")

(* mem::forget, or a process that exits without dropping its handle. *)
Forget(h) ==
  /\ "forget" \in Mishaps
  /\ pc[h] = "live"
  /\ Return(h, "idle")
  /\ UNCHANGED <<fileVars, fd>>
  /\ Happens("forget")

(* The process dies inside apply or close. *)
Crash(h) ==
  /\ "crash" \in Mishaps
  /\ InCall(h)
  /\ Return(h, "dead")
  /\ fd' = [fd EXCEPT ![h] = NoFd]
  /\ UNCHANGED fileVars
  /\ Happens("crash")

(* A DHCP client, a network manager or an administrator rewrites, relinks   *)
(* or removes RESOLV_CONF; a mount point can only be rewritten in place.    *)
ExternalEdit ==
  /\ Edits # "never"
  /\ Edits = "between" => \A h \in Handle : ~InCall(h)
  /\ \E c \in User \cup {Absent}, l \in LinkKinds :
       /\ mounted => c # Absent /\ l = "file"
       /\ file' = [file EXCEPT !["conf"] = c]
       /\ link' = l
       /\ user' = c
       /\ happened' = happened \cup {"edit"}
  /\ fd' = IF mounted THEN fd ELSE FdsAfterUnlink("conf")
  /\ UNCHANGED <<mounted, pc, job, cfg, buf>>

-----------------------------------------------------------------------------
Init ==
  /\ mounted \in MountKinds
  /\ link \in LinkKinds
  /\ \E c \in User \cup {Absent} :
       /\ mounted => c # Absent /\ link = "file"
       /\ file = [p \in Path |-> IF p = "conf" THEN c ELSE Absent]
       /\ user = c
  /\ pc  = [h \in Handle |-> "idle"]
  /\ job = [h \in Handle |-> "none"]
  /\ cfg = [h \in Handle |-> None]
  /\ fd  = [h \in Handle |-> NoFd]
  /\ buf = [h \in Handle |-> Absent]
  /\ happened = {}

(* The system calls of the call running in slot h. *)
Step(h) ==
  \/ ProbeLink(h) \/ ProbeStub(h) \/ CleanupResidual(h) \/ CloseReads(h)
  \/ RequireBackup(h) \/ CheckStale(h) \/ CopyOpen(h) \/ TempOpen(h)
  \/ Write(h) \/ Fsync(h) \/ Rename(h) \/ Remove(h) \/ SyncDir(h)

Next ==
  \/ \E h \in Handle : \/ Apply(h) \/ Close(h) \/ Step(h)
                       \/ IoError(h) \/ Forget(h) \/ Crash(h)
  \/ ExternalEdit

Spec == Init /\ [][Next]_vars
(* The calls are straight-line blocking code, so one that started goes on.  *)
(* The program keeps its side of the README's contract: it drops its handle *)
(* at the end of a scope, and it is run again after a crash or a forget.    *)
Fairness == \A h \in Handle : WF_vars(Step(h)) /\ WF_vars(Apply(h)) /\ WF_vars(Close(h))

FairSpec == Spec /\ Fairness

-----------------------------------------------------------------------------
(* The shape of the state: every variable of the backend and of its calls   *)
(* stays within the values declared above.                                  *)
TypeOK ==
  /\ file \in [Path -> Content \cup {Absent}]
  /\ link \in Links
  /\ mounted \in BOOLEAN
  /\ pc \in [Handle -> Steps \cup Rest]
  /\ job \in [Handle -> Jobs]
  /\ cfg \in [Handle -> Managed \cup {None}]
  /\ fd \in [Handle -> Path \cup {NoFd}]
  /\ buf \in [Handle -> Content \cup {Absent}]
  /\ user \in User \cup {Absent}
  /\ happened \subseteq {"io", "crash", "forget", "edit"}

(* The configuration others installed is never lost: at every instant, and  *)
(* so after a crash or an error at any step of apply or close, either       *)
(* RESOLV_CONF or BACKUP holds it complete.                                 *)
UserConfigKept == user \in {file["conf"], file["bak"]}

(* The discipline behind it: RESOLV_CONF is overwritten only while BACKUP   *)
(* holds a complete copy of the user's configuration, and BACKUP is written *)
(* or removed only while RESOLV_CONF is that configuration.                 *)
Undo == INSTANCE UndoLog WITH
  Original <- User \cup {Absent},
  Override <- Managed,
  Broken   <- Torn,
  Nothing  <- None,
  active   <- file["conf"],
  saved    <- IF file["bak"] = Absent THEN None ELSE file["bak"],
  original <- user

(* apply and close, system call by system call, implement the undo log.     *)
ImplementsUndoLog == Undo!Spec

(* "The DNS configuration stays active while this value is alive"           *)
(* (src/lib.rs:12): unless others edit it, resolv.conf is, while slot h     *)
(* holds a handle, the file that handle installed.                          *)
LiveActive ==
  "edit" \notin happened =>
    \A h \in Handle : pc[h] = "live" => file["conf"] = cfg[h]

(* The README's promise of a temporary change (README.md:3): if nothing     *)
(* went wrong, the configuration of before the first apply is back when no  *)
(* handle is left and no call is running.                                   *)
IdleMeansRestored ==
  happened = {} /\ (\A h \in Handle : pc[h] = "idle") => file["conf"] = user

(* The system call on which close returns Ok(()). *)
CloseReturnsOk(h) == job[h] = "restore" /\ SyncDir(h)

(* A close that reports success has put the user's configuration back and   *)
(* left no backup that would block the next apply.                          *)
CloseRestores ==
  [][\A h \in Handle :
       CloseReturnsOk(h) => file'["conf"] = user /\ file'["bak"] = Absent]_vars

(* Without I/O errors and edits close never returns an error: neither       *)
(* Trampled nor MissingBackup, whatever apply of another owner ran beside   *)
(* it, was refused or died.                                                 *)
CloseSucceeds ==
  [][\A h \in Handle :
       (pc[h] = "closing" \/ job[h] = "restore") /\ pc'[h] = "idle"
         => CloseReturnsOk(h) \/ happened' \cap {"io", "edit"} # {}]_vars

(* A configuration that systemd-resolved manages is not this backend's to   *)
(* change (README.md:92): while no other program relinks the file during a  *)
(* call and reading it does not fail, no system call touches it.            *)
ResolvedKept ==
  [][\A h \in Handle :
       Step(h) /\ (link = "resolved" \/ file["conf"] \in Stub)
         => \/ file'["conf"] = file["conf"] /\ link' = link
            \/ "io" \in happened]_vars

(* An apply that is refused with no other handle in use and nothing having  *)
(* gone wrong leaves no BACKUP, no TEMP and no owner header behind: what    *)
(* the docker cases assert after one (lib.sh, assert_no_setdns_residue).    *)
FailedApplyLeavesNothing ==
  [][\A h \in Handle :
       (/\ Applying(h) /\ pc'[h] = "idle" /\ happened' = {}
        /\ \A k \in Handle \ {h} : pc[k] = "idle")
         => /\ file'["bak"] = Absent /\ file'["tmp"] = Absent
            /\ file'["conf"] \notin Managed]_vars

CrashesCease == <>[][~\E h \in Handle : Crash(h)]_vars

(* Once crashes cease, a program that is run again with its owner mark gets *)
(* the user's configuration back in force, whatever a crash or a forget     *)
(* left in resolv.conf.                                                     *)
OwnedIsReclaimed ==
  CrashesCease => (file["conf"] \in Managed ~> file["conf"] = user)

(* Once crashes cease, no backup stays behind for ever: a program that is   *)
(* run again with its owner mark cleans up its old state (README.md:52-54). *)
BackupIsReclaimed ==
  CrashesCease => (file["bak"] # Absent ~> file["bak"] = Absent)
=============================================================================
