----------------------------- MODULE MacResolver -----------------------------
(***************************************************************************)
(* The macOS split-DNS back end (src/platform/macos/resolver.rs): one file *)
(* below /etc/resolver for each domain, marked with its owner in the first *)
(* line.  One action per system call that another program, a failing disk  *)
(* or a killed process can come between.                                   *)
(*                                                                         *)
(* The order in which the domains and the directory are gone through is    *)
(* left open.  A directory that does not exist is an empty one.            *)
(***************************************************************************)
EXTENDS Naturals

CONSTANTS
  Handle,       \* slots for SetDns values
  Owner,        \* owner marks
  Domain,       \* domain names
  OwnersOf,     \* OwnersOf[h]: the marks the program using slot h may pass
  WantedBy,     \* WantedBy[h]: the sets of domains it may pass
  Edits,        \* do others edit a file, while no call is running?
  Mishaps,      \* which of "io", "crash" and "forget" may happen
  Foreign,      \* a file without any owner's header
  Empty,        \* a file created and not yet written
  Absent        \* no such file; also no owner

ASSUME MacResolverAssumption ==
  /\ OwnersOf \in [Handle -> SUBSET Owner]
  /\ \A h \in Handle : WantedBy[h] \subseteq (SUBSET Domain) \ {{}}
  /\ Edits \in BOOLEAN
  /\ Mishaps \subseteq {"io", "crash", "forget"}
  /\ Foreign # Empty /\ Empty # Absent /\ Absent # Foreign
  /\ {Foreign, Empty, Absent} \cap Owner = {}

(* resolver_path(domain) and the temporary file beside it *)
conf(d) == <<d, "conf">>
temp(d) == <<d, "tmp">>

Path == Domain \X {"conf", "tmp"}

NoPath == <<>>

VARIABLES
  file,      \* file[p]: the owner whose header a file has, Foreign or Empty
  pc,        \* pc[h]: the next system call of the call running in slot h
  closing,   \* closing[h]: is that call a close?
  owner,     \* owner[h]: the mark of slot h
  domains,   \* domains[h]: the domains of slot h
  left,      \* left[h]: those its loop has still to handle
  found,     \* found[h]: directory entries cleanup_owner has still to read
  cur,       \* cur[h]: the file being handled
  fd,        \* fd[h]: path of the file the slot has open for writing
  failed,    \* failed[h]: first_error of close is set
  happened   \* history: which mishaps and edits there were so far

slots == <<pc, closing, owner, domains, left, found, cur, fd, failed>>
vars  == <<file, pc, closing, owner, domains, left, found, cur, fd, failed, happened>>

Steps == {"read_dir", "scan", "scan_remove", "check", "check_temp", "create",
          "write", "rename", "close_read", "close_remove"}
Rest  == {"idle", "live", "dead"}

-----------------------------------------------------------------------------
InCall(h) == pc[h] \in Steps

Goto(h, l) == pc' = [pc EXCEPT ![h] = l]

Happens(m) == m \in Mishaps /\ happened' = happened \cup {m}

(* The call returns and the slot is without a handle. *)
Return(h, l) ==
  /\ Goto(h, l)
  /\ closing' = [closing EXCEPT ![h] = FALSE]
  /\ owner' = [owner EXCEPT ![h] = Absent]
  /\ domains' = [domains EXCEPT ![h] = {}]
  /\ left' = [left EXCEPT ![h] = {}]
  /\ found' = [found EXCEPT ![h] = {}]
  /\ cur' = [cur EXCEPT ![h] = NoPath]
  /\ fd' = [fd EXCEPT ![h] = NoPath]
  /\ failed' = [failed EXCEPT ![h] = FALSE]

(* An open file keeps its content when its name goes ... *)
FdsAfterUnlink(p) == [k \in Handle |-> IF fd[k] = p THEN NoPath ELSE fd[k]]

(* ... and follows a rename. *)
FdsAfterRename(p, q) == [k \in Handle |-> IF fd[k] = p THEN q ELSE FdsAfterUnlink(q)[k]]

Unlink(p) ==
  /\ file' = [file EXCEPT ![p] = Absent]
  /\ fd' = FdsAfterUnlink(p)

-----------------------------------------------------------------------------
(* Slips the properties below must notice, one for each action they vary.   *)

(* The mark is not validated, so that it names no owner. *)
ApplyWithoutOwner(h) ==
  /\ pc[h] \in {"idle", "dead"}
  /\ \E ds \in WantedBy[h] : domains' = [domains EXCEPT ![h] = ds]
  /\ owner' = [owner EXCEPT ![h] = Foreign]
  /\ Goto(h, "read_dir")
  /\ UNCHANGED <<file, closing, left, found, cur, fd, failed, happened>>

(* What an earlier run left is not looked for. *)
ReadDirSkipped(h) ==
  /\ pc[h] = "read_dir" /\ Goto(h, "scan")
  /\ UNCHANGED <<file, closing, owner, domains, left, found, cur, fd, failed, happened>>

(* The file of a domain is overwritten whosever it is. *)
CheckSkipped(h) ==
  /\ pc[h] = "check" /\ left[h] # {}
  /\ \E d \in left[h] : cur' = [cur EXCEPT ![h] = conf(d)]
  /\ Goto(h, "check_temp")
  /\ UNCHANGED <<file, closing, owner, domains, left, found, fd, failed, happened>>

(* close stops at the first file that is not its own, with an error. *)
CloseReadStopsEarly(h) ==
  /\ pc[h] = "close_read"
  /\ \E d \in left[h] :
       IF file[conf(d)] = owner[h]
         THEN /\ cur' = [cur EXCEPT ![h] = conf(d)]
              /\ Goto(h, "close_remove")
              /\ UNCHANGED <<closing, owner, domains, left, found, fd, failed>>
         ELSE Return(h, "idle")
  /\ UNCHANGED <<file, happened>>

(* A file is removed a second time. *)
CloseRemoveTwice(h) ==
  /\ pc[h] = "close_remove"
  /\ IF file[cur[h]] = Absent
       THEN /\ failed' = [failed EXCEPT ![h] = TRUE]
            /\ left' = [left EXCEPT ![h] = @ \ {cur[h][1]}]
            /\ Goto(h, "close_read")
            /\ UNCHANGED <<file, fd>>
       ELSE Unlink(cur[h]) /\ UNCHANGED <<left, pc, failed>>
  /\ UNCHANGED <<closing, owner, domains, found, cur, happened>>

-----------------------------------------------------------------------------
(* apply with at most MAXNS nameservers; with more it returns at once. *)
Apply(h) ==
  /\ pc[h] \in {"idle", "dead"}
  /\ \E o \in OwnersOf[h] : owner' = [owner EXCEPT ![h] = o]
  /\ \E ds \in WantedBy[h] : domains' = [domains EXCEPT ![h] = ds]
  /\ Goto(h, "read_dir")
  /\ UNCHANGED <<file, closing, left, found, cur, fd, failed, happened>>

(* cleanup_owner, which apply starts with and close ends with: read_dir,    *)
(* then each entry is read, and removed if it has this owner's header.      *)
ReadDir(h) ==
  /\ pc[h] = "read_dir"
  /\ found' = [found EXCEPT ![h] = {p \in Path : file[p] # Absent}]
  /\ Goto(h, "scan")
  /\ UNCHANGED <<file, closing, owner, domains, left, cur, fd, failed, happened>>

Scan(h) ==
  /\ pc[h] = "scan"
  /\ \E p \in found[h] :
       IF file[p] = owner[h]
         THEN /\ cur' = [cur EXCEPT ![h] = p]
              /\ Goto(h, "scan_remove")
              /\ UNCHANGED found
         ELSE /\ found' = [found EXCEPT ![h] = @ \ {p}]
              /\ UNCHANGED <<pc, cur>>
  /\ UNCHANGED <<file, closing, owner, domains, left, fd, failed, happened>>

ScanRemove(h) ==
  /\ pc[h] = "scan_remove"
  /\ IF file[cur[h]] = Absent
       THEN Return(h, "idle") /\ UNCHANGED file
       ELSE /\ Unlink(cur[h])
            /\ found' = [found EXCEPT ![h] = @ \ {cur[h]}]
            /\ cur' = [cur EXCEPT ![h] = NoPath]
            /\ Goto(h, "scan")
            /\ UNCHANGED <<closing, owner, domains, left, failed>>
  /\ UNCHANGED happened

(* After the scan apply writes the files and close returns. *)
EndScan(h) ==
  /\ pc[h] = "scan"
  /\ found[h] = {}
  /\ IF closing[h]
       THEN Return(h, "idle")
       ELSE /\ left' = [left EXCEPT ![h] = domains[h]]
            /\ Goto(h, "check")
            /\ UNCHANGED <<closing, owner, domains, found, cur, fd, failed>>
  /\ UNCHANGED <<file, happened>>

(* write_resolver: ensure_absent_or_owned of the domain's file and of the   *)
(* temporary one.  An error ends apply, which keeps what it wrote so far.   *)
Check(h) ==
  /\ pc[h] = "check"
  /\ \E d \in left[h] :
       IF file[conf(d)] \in {Absent, owner[h]}
         THEN /\ cur' = [cur EXCEPT ![h] = conf(d)]
              /\ Goto(h, "check_temp")
              /\ UNCHANGED <<closing, owner, domains, left, found, fd, failed>>
         ELSE Return(h, "idle")
  /\ UNCHANGED <<file, happened>>

CheckTemp(h) ==
  /\ pc[h] = "check_temp"
  /\ IF file[temp(cur[h][1])] \in {Absent, owner[h]}
       THEN /\ Goto(h, "create")
            /\ UNCHANGED <<closing, owner, domains, left, found, cur, fd, failed>>
       ELSE Return(h, "idle")
  /\ UNCHANGED <<file, happened>>

(* File::create truncates a file that is there. *)
Create(h) ==
  /\ pc[h] = "create"
  /\ LET p == temp(cur[h][1])
     IN /\ file' = [file EXCEPT ![p] = Empty]
        /\ fd' = [fd EXCEPT ![h] = p]
  /\ Goto(h, "write")
  /\ UNCHANGED <<closing, owner, domains, left, found, cur, failed, happened>>

(* write_all and sync_all, to the open file under the name it has by now.   *)
Write(h) ==
  /\ pc[h] = "write"
  /\ file' = IF fd[h] = NoPath THEN file ELSE [file EXCEPT ![fd[h]] = owner[h]]
  /\ fd' = [fd EXCEPT ![h] = NoPath]
  /\ Goto(h, "rename")
  /\ UNCHANGED <<closing, owner, domains, left, found, cur, failed, happened>>

Rename(h) ==
  /\ pc[h] = "rename"
  /\ LET d == cur[h][1]
     IN IF file[temp(d)] = Absent
          THEN Return(h, "idle") /\ UNCHANGED file
          ELSE /\ file' = [file EXCEPT ![conf(d)] = file[temp(d)], ![temp(d)] = Absent]
               /\ fd' = FdsAfterRename(temp(d), conf(d))
               /\ left' = [left EXCEPT ![h] = @ \ {d}]
               /\ cur' = [cur EXCEPT ![h] = NoPath]
               /\ Goto(h, "check")
               /\ UNCHANGED <<closing, owner, domains, found, failed>>
  /\ UNCHANGED happened

(* All files are written: Ok(Self { owner, domains }). *)
EndApply(h) ==
  /\ pc[h] = "check"
  /\ left[h] = {}
  /\ Goto(h, "live")
  /\ UNCHANGED <<file, closing, owner, domains, left, found, cur, fd, failed, happened>>

(* close: remove_owned_file of every domain, errors being kept for the end, *)
(* then cleanup_owner.                                                      *)
Close(h) ==
  /\ pc[h] = "live"
  /\ closing' = [closing EXCEPT ![h] = TRUE]
  /\ left' = [left EXCEPT ![h] = domains[h]]
  /\ Goto(h, "close_read")
  /\ UNCHANGED <<file, owner, domains, found, cur, fd, failed, happened>>

CloseRead(h) ==
  /\ pc[h] = "close_read"
  /\ \E d \in left[h] :
       IF file[conf(d)] = owner[h]
         THEN /\ cur' = [cur EXCEPT ![h] = conf(d)]
              /\ Goto(h, "close_remove")
              /\ UNCHANGED <<left, failed>>
         ELSE /\ failed' = [failed EXCEPT ![h] = @ \/ file[conf(d)] # Absent]
              /\ left' = [left EXCEPT ![h] = @ \ {d}]
              /\ UNCHANGED <<pc, cur>>
  /\ UNCHANGED <<file, closing, owner, domains, found, fd, happened>>

CloseRemove(h) ==
  /\ pc[h] = "close_remove"
  /\ IF file[cur[h]] = Absent
       THEN failed' = [failed EXCEPT ![h] = TRUE] /\ UNCHANGED <<file, fd>>
       ELSE Unlink(cur[h]) /\ UNCHANGED failed
  /\ left' = [left EXCEPT ![h] = @ \ {cur[h][1]}]
  /\ cur' = [cur EXCEPT ![h] = NoPath]
  /\ Goto(h, "close_read")
  /\ UNCHANGED <<closing, owner, domains, found, happened>>

EndClose(h) ==
  /\ pc[h] = "close_read"
  /\ left[h] = {}
  /\ Goto(h, "read_dir")
  /\ UNCHANGED <<file, closing, owner, domains, left, found, cur, fd, failed, happened>>

-----------------------------------------------------------------------------
(* A system call fails.  The loop of close goes on with the next domain;    *)
(* everything else returns the error.                                       *)
IoError(h) ==
  /\ Happens("io")
  /\ InCall(h)
  /\ CASE pc[h] = "close_read" -> /\ \E d \in left[h] : left' = [left EXCEPT ![h] = @ \ {d}]
                                  /\ failed' = [failed EXCEPT ![h] = TRUE]
                                  /\ UNCHANGED <<pc, closing, owner, domains, found, cur, fd>>
       [] pc[h] = "close_remove" -> /\ left' = [left EXCEPT ![h] = @ \ {cur[h][1]}]
                                    /\ failed' = [failed EXCEPT ![h] = TRUE]
                                    /\ cur' = [cur EXCEPT ![h] = NoPath]
                                    /\ Goto(h, "close_read")
                                    /\ UNCHANGED <<closing, owner, domains, found, fd>>
       [] OTHER -> Return(h, "idle")
  /\ UNCHANGED file

(* mem::forget, or a process that exits without dropping its handle. *)
Forget(h) ==
  /\ Happens("forget")
  /\ pc[h] = "live"
  /\ Return(h, "idle")
  /\ UNCHANGED file

(* The process dies inside apply or close. *)
Crash(h) ==
  /\ Happens("crash")
  /\ InCall(h)
  /\ Return(h, "dead")
  /\ UNCHANGED file

(* Another program writes or removes the resolver file of a domain; once,   *)
(* to bound the model.                                                      *)
ExternalEdit ==
  /\ Edits /\ "edit" \notin happened
  /\ \A h \in Handle : ~InCall(h)
  /\ \E d \in Domain, c \in {Foreign, Absent} : file' = [file EXCEPT ![conf(d)] = c]
  /\ happened' = happened \cup {"edit"}
  /\ UNCHANGED slots

-----------------------------------------------------------------------------
Init ==
  /\ file = [p \in Path |-> Absent]
  /\ pc = [h \in Handle |-> "idle"]
  /\ closing = [h \in Handle |-> FALSE]
  /\ owner = [h \in Handle |-> Absent]
  /\ domains = [h \in Handle |-> {}]
  /\ left = [h \in Handle |-> {}]
  /\ found = [h \in Handle |-> {}]
  /\ cur = [h \in Handle |-> NoPath]
  /\ fd = [h \in Handle |-> NoPath]
  /\ failed = [h \in Handle |-> FALSE]
  /\ happened = {}

(* The system calls of the call running in slot h. *)
Step(h) ==
  \/ ReadDir(h) \/ Scan(h) \/ ScanRemove(h) \/ EndScan(h)
  \/ Check(h) \/ CheckTemp(h) \/ Create(h) \/ Write(h) \/ Rename(h) \/ EndApply(h)
  \/ CloseRead(h) \/ CloseRemove(h) \/ EndClose(h)

Next ==
  \/ \E h \in Handle : \/ Apply(h) \/ Close(h) \/ Step(h)
                       \/ IoError(h) \/ Forget(h) \/ Crash(h)
  \/ ExternalEdit

Spec == Init /\ [][Next]_vars

-----------------------------------------------------------------------------
(* The shape of the directory and of the calls' local variables. *)
TypeOK ==
  /\ file \in [Path -> Owner \cup {Foreign, Empty, Absent}]
  /\ pc \in [Handle -> Steps \cup Rest]
  /\ closing \in [Handle -> BOOLEAN]
  /\ owner \in [Handle -> Owner \cup {Absent}]
  /\ domains \in [Handle -> SUBSET Domain]
  /\ left \in [Handle -> SUBSET Domain]
  /\ found \in [Handle -> SUBSET Path]
  /\ cur \in [Handle -> Path \cup {NoPath}]
  /\ fd \in [Handle -> Path \cup {NoPath}]
  /\ failed \in [Handle -> BOOLEAN]
  /\ happened \subseteq Mishaps \cup {"edit"}

(* No call overwrites or removes a file that carries another owner's header *)
(* or none: NotOwned is the answer to such a file, before anything is done  *)
(* to it.                                                                   *)
OthersFilesKept ==
  [][\A h \in Handle : Step(h) =>
       \A p \in Path :
         file[p] \in (Owner \cup {Foreign}) \ {owner[h]} => file'[p] = file[p]]_vars

(* A close that returns has left no file of its owner behind, unless the    *)
(* file system failed: also when a domain's file turned out to be somebody  *)
(* else's by then and close returns that as an error.                       *)
CloseLeavesNothing ==
  [][\A h \in Handle :
       closing[h] /\ pc'[h] = "idle" /\ "io" \notin happened' =>
         \A p \in Path : file'[p] # owner[h]]_vars

(* Without errors of the file system and edits by others close succeeds,    *)
(* whatever call of another owner runs beside it or has died.               *)
CloseSucceeds ==
  [][\A h \in Handle :
       closing[h] /\ pc'[h] = "idle" /\ happened' \cap {"io", "edit"} = {} =>
         pc[h] = "scan" /\ ~failed[h]]_vars

(* "back ends clean up old state by owner" (README.md:54): when apply       *)
(* returns a handle, the files with its mark are those of its domains;      *)
(* whatever errors, crashes and forgotten handles left before is removed.   *)
ApplyCleansUp ==
  [][\A h \in Handle :
       InCall(h) /\ pc'[h] = "live" =>
         \A p \in Path : file'[p] = owner[h] => \E d \in domains[h] : p = conf(d)]_vars
=============================================================================
