-------------------------- MODULE MacResolverProofs --------------------------
(***************************************************************************)
(* Theorems about MacResolver, for any number of programs, owners and      *)
(* domains.                                                                *)
(***************************************************************************)
EXTENDS MacResolver, TLAPS

(* Programs use owners of their own, and split domains of their own.        *)
ApartPrograms ==
  \A h, k \in Handle : h # k =>
    /\ OwnersOf[h] \cap OwnersOf[k] = {}
    /\ \A a \in WantedBy[h], b \in WantedBy[k] : a \cap b = {}

(* Where apply writes the file of a domain. *)
Writing == {"check_temp", "create", "write", "rename"}

(* The local variables of slot h. *)
Locals(h) ==
  /\ pc[h] \in {"idle", "dead"} => owner[h] = Absent /\ domains[h] = {} /\ ~closing[h] /\ ~failed[h]
  /\ pc[h] \notin {"idle", "dead"} => owner[h] \in OwnersOf[h] /\ domains[h] \in WantedBy[h]
  /\ left[h] \subseteq domains[h]
  /\ pc[h] \in Writing \cup {"check", "live"} => ~closing[h]
  /\ pc[h] \in {"close_read", "close_remove"} => closing[h]
  /\ pc[h] \in Writing \cup {"close_remove"} => \E d \in left[h] : cur[h] = conf(d)
  /\ pc[h] = "scan_remove" => cur[h] \in Path

(* What slot h knows of the directory: what it is about to remove carries   *)
(* its mark, what it is about to write is nobody else's, cleanup_owner has  *)
(* found all files with its mark, and apply has no others than those of its *)
(* domains.                                                                 *)
Knows(h) ==
  /\ pc[h] \in {"scan_remove", "close_remove"} => file[cur[h]] = owner[h]
  /\ pc[h] \in {"scan", "scan_remove"} =>
       \A p \in Path : file[p] = owner[h] => p \in found[h]
  /\ pc[h] \in Writing => file[cur[h]] \in {Absent, owner[h]}
  /\ pc[h] = "create" => file[temp(cur[h][1])] \in {Absent, owner[h]}
  /\ pc[h] = "write" => fd[h] = temp(cur[h][1]) /\ file[temp(cur[h][1])] = Empty
  /\ pc[h] # "write" => fd[h] = NoPath
  /\ pc[h] = "rename" => file[temp(cur[h][1])] = owner[h]
  /\ pc[h] \in Writing \cup {"check"} =>
       \A p \in Path : file[p] = owner[h] =>
         (\E d \in domains[h] : p = conf(d)) \/ (pc[h] = "rename" /\ p = temp(cur[h][1]))

FilesInv ==
  /\ TypeOK
  /\ \A h \in Handle : Locals(h) /\ Knows(h)

(* As long as nobody edits a file, those of a handle stay what they are.    *)
Kept(h) ==
  /\ pc[h] \in Writing \cup {"check"} =>
       \A d \in domains[h] \ left[h] : file[conf(d)] = owner[h]
  /\ pc[h] = "live" => \A d \in domains[h] : file[conf(d)] = owner[h]
  /\ pc[h] \in {"close_read", "close_remove"} => \A d \in left[h] : file[conf(d)] = owner[h]
  /\ failed[h] => "io" \in happened

KeptInv == "edit" \notin happened => \A h \in Handle : Kept(h)

-----------------------------------------------------------------------------
(* What happens in slot h. *)
Act(h) == Apply(h) \/ Close(h) \/ Step(h) \/ IoError(h) \/ Forget(h) \/ Crash(h)

(* The types of the local variables but fd. *)
LocalTypes ==
  /\ pc \in [Handle -> Steps \cup Rest]
  /\ closing \in [Handle -> BOOLEAN]
  /\ owner \in [Handle -> Owner \cup {Absent}]
  /\ domains \in [Handle -> SUBSET Domain]
  /\ left \in [Handle -> SUBSET Domain]
  /\ found \in [Handle -> SUBSET Path]
  /\ cur \in [Handle -> Path \cup {NoPath}]
  /\ failed \in [Handle -> BOOLEAN]

FileTypes ==
  /\ file \in [Path -> Owner \cup {Foreign, Empty, Absent}]
  /\ fd \in [Handle -> Path \cup {NoPath}]

LEMMA Paths ==
  /\ NoPath \notin Path
  /\ \A d \in Domain : /\ conf(d) \in Path /\ temp(d) \in Path
                       /\ conf(d)[1] = d /\ temp(d)[1] = d
                       /\ \A e \in Domain : conf(d) # temp(e)
                       /\ \A e \in Domain : conf(d) = conf(e) \/ temp(d) = temp(e) => d = e
BY DEF Path, NoPath, conf, temp

LEMMA ReturnLocals ==
  ASSUME TypeOK, NEW h \in Handle, NEW l \in {"idle", "dead"}, Return(h, l)
  PROVE  /\ LocalTypes' /\ Locals(h)' /\ pc'[h] = l
         /\ fd' = [fd EXCEPT ![h] = NoPath]
<1>1. LocalTypes' /\ fd' = [fd EXCEPT ![h] = NoPath]
  BY DEF LocalTypes, TypeOK, Return, Goto, Rest
<1>2. /\ pc'[h] = l /\ owner'[h] = Absent /\ ~closing'[h] /\ ~failed'[h]
      /\ left'[h] = {} /\ domains'[h] = {}
  BY DEF TypeOK, Return, Goto
<1> QED BY <1>1, <1>2 DEF Locals, Writing

(* A step of one slot leaves the local variables of the others alone.       *)
LEMMA OwnStep ==
  ASSUME TypeOK, NEW h \in Handle, Act(h), NEW k \in Handle \ {h}
  PROVE  /\ pc'[k] = pc[k] /\ closing'[k] = closing[k] /\ owner'[k] = owner[k]
         /\ domains'[k] = domains[k] /\ left'[k] = left[k] /\ found'[k] = found[k]
         /\ cur'[k] = cur[k] /\ failed'[k] = failed[k]
<1> USE DEF TypeOK, Goto, Return, Unlink
<1>1. CASE Apply(h) \/ Close(h) \/ Forget(h) \/ Crash(h)
  BY <1>1 DEF Apply, Close, Forget, Crash
<1>2. CASE ReadDir(h) \/ Scan(h) \/ ScanRemove(h) \/ EndScan(h)
  BY <1>2 DEF ReadDir, Scan, ScanRemove, EndScan
<1>3. CASE Check(h) \/ CheckTemp(h) \/ Create(h) \/ Write(h)
  BY <1>3 DEF Check, CheckTemp, Create, Write
<1>4. CASE Rename(h) \/ EndApply(h)
  BY <1>4 DEF Rename, EndApply
<1>5. CASE CloseRead(h) \/ CloseRemove(h) \/ EndClose(h)
  BY <1>5 DEF CloseRead, CloseRemove, EndClose
<1>6. CASE IoError(h)
  BY <1>6 DEF IoError
<1> QED BY <1>1, <1>2, <1>3, <1>4, <1>5, <1>6 DEF Act, Step

LEMMA UnlinkTypes ==
  ASSUME TypeOK, NEW p \in Path, Unlink(p)
  PROVE  FileTypes'
<1>1. file' \in [Path -> Owner \cup {Foreign, Empty, Absent}]
  BY DEF Unlink, TypeOK
<1>2. fd' \in [Handle -> Path \cup {NoPath}]
  BY DEF Unlink, FdsAfterUnlink, TypeOK
<1> QED BY <1>1, <1>2 DEF FileTypes

(* Every action keeps the types and what its slot knows of its own locals.  *)
LEMMA LocalsStep ==
  ASSUME TypeOK, NEW h \in Handle, Locals(h), Act(h)
  PROVE  FileTypes' /\ LocalTypes' /\ Locals(h)'
<1>1. FileTypes /\ LocalTypes
  BY DEF TypeOK, FileTypes, LocalTypes
<1>2. \A l \in {"idle", "dead"} : Return(h, l) /\ file' = file => FileTypes' /\ LocalTypes' /\ Locals(h)'
  BY <1>1, ReturnLocals DEF FileTypes
<1>3. CASE Apply(h)
  <2>1. PICK o \in OwnersOf[h] : owner' = [owner EXCEPT ![h] = o]
    BY <1>3 DEF Apply
  <2>2. PICK ds \in WantedBy[h] : domains' = [domains EXCEPT ![h] = ds]
    BY <1>3 DEF Apply
  <2>3. o \in Owner /\ ds \in SUBSET Domain
    BY MacResolverAssumption
  <2>4. UNCHANGED <<file, closing, left, found, cur, fd, failed>> /\ Goto(h, "read_dir")
    BY <1>3 DEF Apply
  <2>5. FileTypes' /\ LocalTypes'
    BY <1>1, <2>1, <2>2, <2>3, <2>4 DEF Goto, FileTypes, LocalTypes, Steps
  <2>6. /\ pc'[h] = "read_dir" /\ owner'[h] = o /\ domains'[h] = ds /\ left'[h] = left[h]
        /\ left[h] = {}
    BY <1>1, <1>3, <2>1, <2>2, <2>4 DEF Goto, LocalTypes, Locals, Apply
  <2> QED BY <2>5, <2>6 DEF Locals, Writing
<1>4. CASE ReadDir(h) \/ EndScan(h) \/ EndApply(h) \/ EndClose(h) \/ Close(h)
  <2>1. CASE ReadDir(h)
    <3>1. {p \in Path : file[p] # Absent} \in SUBSET Path
      OBVIOUS
    <3> QED BY <1>1, <2>1, <3>1
        DEF ReadDir, Goto, FileTypes, LocalTypes, Locals, Writing, Steps
  <2>2. CASE EndScan(h)
    BY <1>1, <1>2, <2>2 DEF EndScan, Goto, FileTypes, LocalTypes, Locals, Writing, Steps
  <2>3. CASE EndApply(h)
    BY <1>1, <2>3 DEF EndApply, Goto, FileTypes, LocalTypes, Locals, Writing, Rest
  <2>4. CASE EndClose(h)
    BY <1>1, <2>4 DEF EndClose, Goto, FileTypes, LocalTypes, Locals, Writing, Steps
  <2>5. CASE Close(h)
    BY <1>1, <2>5 DEF Close, Goto, FileTypes, LocalTypes, Locals, Writing, Steps
  <2> QED BY <1>4, <2>1, <2>2, <2>3, <2>4, <2>5
<1>5. CASE Scan(h)
  BY <1>1, <1>5 DEF Scan, Goto, FileTypes, LocalTypes, Locals, Writing, Steps
<1>6. CASE ScanRemove(h)
  <2>1. cur[h] \in Path /\ pc[h] = "scan_remove"
    BY <1>6 DEF ScanRemove, Locals
  <2>2. CASE Return(h, "idle") /\ file' = file
    BY <1>2, <2>2
  <2>3. CASE Unlink(cur[h]) /\ found' = [found EXCEPT ![h] = @ \ {cur[h]}]
             /\ cur' = [cur EXCEPT ![h] = NoPath] /\ Goto(h, "scan")
             /\ UNCHANGED <<closing, owner, domains, left, failed>>
    <3>1. FileTypes'
      BY <2>1, <2>3, UnlinkTypes
    <3>2. LocalTypes' /\ Locals(h)'
      BY <1>1, <2>1, <2>3 DEF Goto, LocalTypes, Locals, Writing, Steps
    <3> QED BY <3>1, <3>2
  <2> QED BY <1>6, <2>2, <2>3 DEF ScanRemove
<1>7. CASE Check(h)
  <2>1. PICK d \in left[h] :
          \/ Return(h, "idle")
          \/ /\ cur' = [cur EXCEPT ![h] = conf(d)] /\ Goto(h, "check_temp")
             /\ UNCHANGED <<closing, owner, domains, left, found, fd, failed>>
    BY <1>7 DEF Check
  <2>2. d \in Domain /\ conf(d) \in Path /\ file' = file /\ pc[h] = "check"
    BY <1>1, <1>7, Paths DEF LocalTypes, Check
  <2>3. CASE Return(h, "idle")
    BY <1>2, <2>2, <2>3
  <2>4. CASE /\ cur' = [cur EXCEPT ![h] = conf(d)] /\ Goto(h, "check_temp")
             /\ UNCHANGED <<closing, owner, domains, left, found, fd, failed>>
    <3>1. FileTypes' /\ LocalTypes'
      BY <1>1, <2>2, <2>4 DEF Goto, FileTypes, LocalTypes, Steps
    <3>2. cur'[h] = conf(d) /\ pc'[h] = "check_temp"
      BY <1>1, <2>4 DEF Goto, LocalTypes
    <3> QED BY <2>1, <2>2, <2>4, <3>1, <3>2 DEF Locals, Writing
  <2> QED BY <2>1, <2>3, <2>4
<1>8. CASE CheckTemp(h)
  BY <1>1, <1>2, <1>8 DEF CheckTemp, Goto, FileTypes, LocalTypes, Locals, Writing, Steps
<1>9. pc[h] \in Writing \cup {"close_remove"} =>
        \E d \in Domain : d \in left[h] /\ cur[h] = conf(d) /\ cur[h][1] = d /\ temp(d) \in Path
                          /\ conf(d) \in Path
  BY <1>1, Paths DEF Locals, LocalTypes
<1>10. CASE Create(h)
  BY <1>1, <1>9, <1>10 DEF Create, Goto, FileTypes, LocalTypes, Locals, Writing, Steps
<1>11. CASE Write(h)
  <2>1. FileTypes'
    BY <1>1, <1>11 DEF Write, FileTypes, LocalTypes
  <2> QED BY <1>1, <1>11, <2>1 DEF Write, Goto, LocalTypes, Locals, Writing, Steps
<1>12. CASE Rename(h)
  <2>1. PICK d \in Domain : d \in left[h] /\ cur[h][1] = d /\ temp(d) \in Path /\ conf(d) \in Path
    BY <1>9, <1>12 DEF Rename, Writing
  <2>2. CASE Return(h, "idle") /\ file' = file
    BY <1>2, <2>2
  <2>3. CASE /\ file' = [file EXCEPT ![conf(d)] = file[temp(d)], ![temp(d)] = Absent]
             /\ fd' = FdsAfterRename(temp(d), conf(d))
             /\ left' = [left EXCEPT ![h] = @ \ {d}]
             /\ cur' = [cur EXCEPT ![h] = NoPath]
             /\ Goto(h, "check")
             /\ UNCHANGED <<closing, owner, domains, found, failed>>
    <3>1. file' \in [Path -> Owner \cup {Foreign, Empty, Absent}]
      BY <1>1, <2>1, <2>3 DEF FileTypes
    <3>2. fd' \in [Handle -> Path \cup {NoPath}]
      BY <1>1, <2>1, <2>3 DEF FileTypes, FdsAfterRename, FdsAfterUnlink
    <3>3. LocalTypes' /\ Locals(h)'
      BY <1>1, <1>12, <2>3 DEF Rename, Goto, LocalTypes, Locals, Writing, Steps
    <3> QED BY <3>1, <3>2, <3>3 DEF FileTypes
  <2> QED BY <1>12, <2>1, <2>2, <2>3 DEF Rename
<1>13. CASE CloseRead(h)
  <2>1. PICK d \in left[h] :
          \/ /\ cur' = [cur EXCEPT ![h] = conf(d)] /\ Goto(h, "close_remove")
             /\ UNCHANGED <<left, failed>>
          \/ /\ failed' = [failed EXCEPT ![h] = @ \/ file[conf(d)] # Absent]
             /\ left' = [left EXCEPT ![h] = @ \ {d}]
             /\ UNCHANGED <<pc, cur>>
    BY <1>13 DEF CloseRead
  <2>2. /\ d \in Domain /\ conf(d) \in Path /\ pc[h] = "close_read"
        /\ UNCHANGED <<file, closing, owner, domains, found, fd>>
    BY <1>1, <1>13, Paths DEF LocalTypes, CloseRead
  <2>3. FileTypes'
    BY <1>1, <2>2 DEF FileTypes
  <2>4. CASE /\ cur' = [cur EXCEPT ![h] = conf(d)] /\ Goto(h, "close_remove")
             /\ UNCHANGED <<left, failed>>
    <3>1. LocalTypes'
      BY <1>1, <2>2, <2>4 DEF Goto, LocalTypes, Steps
    <3>2. cur'[h] = conf(d) /\ pc'[h] = "close_remove"
      BY <1>1, <2>4 DEF Goto, LocalTypes
    <3> QED BY <2>1, <2>2, <2>3, <2>4, <3>1, <3>2 DEF Locals, Writing
  <2>5. CASE /\ failed' = [failed EXCEPT ![h] = @ \/ file[conf(d)] # Absent]
             /\ left' = [left EXCEPT ![h] = @ \ {d}]
             /\ UNCHANGED <<pc, cur>>
    <3>1. (failed[h] \/ file[conf(d)] # Absent) \in BOOLEAN
      BY <1>1 DEF LocalTypes
    <3>2. failed' \in [Handle -> BOOLEAN]
      BY <1>1, <2>5, <3>1 DEF LocalTypes
    <3>3. LocalTypes' /\ left'[h] \subseteq left[h]
      BY <1>1, <2>2, <2>5, <3>2 DEF LocalTypes
    <3> QED BY <2>2, <2>3, <2>5, <3>3 DEF Locals, Writing
  <2> QED BY <2>1, <2>4, <2>5
<1>14. CASE CloseRemove(h)
  <2>1. cur[h] \in Path /\ pc[h] = "close_remove"
    BY <1>9, <1>14 DEF CloseRemove
  <2>2. FileTypes'
    BY <1>1, <1>14, <2>1, UnlinkTypes DEF CloseRemove, FileTypes
  <2>3. LocalTypes' /\ Locals(h)'
    BY <1>1, <1>14 DEF CloseRemove, Goto, LocalTypes, Locals, Writing, Steps
  <2> QED BY <2>2, <2>3
<1>15. CASE IoError(h)
  <2>1. file' = file
    BY <1>15 DEF IoError
  <2>2. CASE pc[h] = "close_read"
    <3>1. /\ \E d \in left[h] : left' = [left EXCEPT ![h] = @ \ {d}]
          /\ failed' = [failed EXCEPT ![h] = TRUE]
          /\ UNCHANGED <<pc, closing, owner, domains, found, cur, fd>>
      BY <1>15, <2>2 DEF IoError
    <3> QED BY <1>1, <2>1, <2>2, <3>1 DEF FileTypes, LocalTypes, Locals, Writing
  <2>3. CASE pc[h] = "close_remove"
    <3>1. /\ left' = [left EXCEPT ![h] = @ \ {cur[h][1]}]
          /\ failed' = [failed EXCEPT ![h] = TRUE]
          /\ cur' = [cur EXCEPT ![h] = NoPath]
          /\ Goto(h, "close_read")
          /\ UNCHANGED <<closing, owner, domains, found, fd>>
      BY <1>15, <2>3 DEF IoError
    <3> QED BY <1>1, <2>1, <2>3, <3>1 DEF Goto, FileTypes, LocalTypes, Locals, Writing, Steps
  <2>4. CASE pc[h] \notin {"close_read", "close_remove"}
    BY <1>2, <1>15, <2>1, <2>4 DEF IoError
  <2> QED BY <2>2, <2>3, <2>4
<1>16. CASE Forget(h) \/ Crash(h)
  BY <1>2, <1>16 DEF Forget, Crash
<1> QED BY <1>3, <1>4, <1>5, <1>6, <1>7, <1>8, <1>10, <1>11, <1>12, <1>13, <1>14, <1>15, <1>16
        DEF Act, Step

LEMMA HappensType == ASSUME TypeOK, [Next]_vars PROVE happened' \subseteq Mishaps \cup {"edit"}
<1>1. \A h \in Handle : Act(h) => happened' \subseteq Mishaps \cup {"edit"}
  BY DEF TypeOK, Act, Apply, Close, Forget, Crash, IoError, Step, ReadDir, Scan, ScanRemove,
         EndScan, Check, CheckTemp, Create, Write, Rename, EndApply, CloseRead, CloseRemove,
         EndClose, Happens
<1> QED BY <1>1 DEF Next, Act, vars, TypeOK, ExternalEdit

LEMMA EditTypes == ASSUME TypeOK, ExternalEdit PROVE FileTypes' /\ LocalTypes'
<1>1. PICK d \in Domain, c \in {Foreign, Absent} : file' = [file EXCEPT ![conf(d)] = c]
  BY DEF ExternalEdit
<1>2. FileTypes'
  BY <1>1 DEF TypeOK, ExternalEdit, slots, FileTypes
<1> QED BY <1>2 DEF TypeOK, ExternalEdit, slots, LocalTypes

LEMMA TypeInit == Init => TypeOK /\ \A h \in Handle : Locals(h)
BY DEF Init, TypeOK, Locals, Rest, Writing

LEMMA TypeStep ==
  ASSUME TypeOK, \A h \in Handle : Locals(h), [Next]_vars
  PROVE  TypeOK' /\ \A h \in Handle : Locals(h)'
<1>1. ASSUME NEW h \in Handle, Act(h) PROVE TypeOK' /\ \A k \in Handle : Locals(k)'
  <2>1. FileTypes' /\ LocalTypes' /\ Locals(h)'
    BY <1>1, LocalsStep
  <2>2. ASSUME NEW k \in Handle \ {h} PROVE Locals(k)'
    BY <1>1, OwnStep DEF Locals
  <2> QED BY <2>1, <2>2, HappensType DEF TypeOK, FileTypes, LocalTypes
<1>2. CASE ExternalEdit
  <2>1. FileTypes' /\ LocalTypes'
    BY <1>2, EditTypes
  <2>2. \A h \in Handle : Locals(h)'
    BY <1>2 DEF ExternalEdit, slots, Locals
  <2> QED BY <2>1, <2>2, HappensType DEF TypeOK, FileTypes, LocalTypes
<1>3. CASE UNCHANGED vars
  BY <1>3 DEF vars, TypeOK, Locals
<1> QED BY <1>1, <1>2, <1>3 DEF Next, Act

(* The directory, the open files and the local variables of every call have *)
(* their types, whatever owners and domains programs share.                 *)
THEOREM MacResolverTypeCorrect == Spec => []TypeOK
<1> DEFINE I == TypeOK /\ \A h \in Handle : Locals(h)
<1>1. Init => I
  BY TypeInit
<1>2. I /\ [Next]_vars => I'
  BY TypeStep
<1>3. I => TypeOK
  OBVIOUS
<1> QED BY <1>1, <1>2, <1>3, PTL DEF Spec

-----------------------------------------------------------------------------
(* What a step of slot h may do to a file: remove one with its own mark, or *)
(* write those of its domains, which are nobody else's.                     *)
Changes(h, p) ==
  \/ file'[p] = file[p]
  \/ file[p] = owner[h] /\ file'[p] = Absent
  \/ /\ \E d \in domains[h] : p \in {conf(d), temp(d)}
     /\ file[p] \in {Absent, Empty, owner[h]} /\ file'[p] \in {Absent, Empty, owner[h]}

(* The domain a slot is writing. *)
LEMMA CurDomain ==
  ASSUME TypeOK, NEW h \in Handle, Locals(h), pc[h] \in Writing \cup {"close_remove"}
  PROVE  \E d \in Domain : /\ d \in left[h] /\ d \in domains[h]
                           /\ cur[h] = conf(d) /\ cur[h][1] = d
                           /\ temp(d) \in Path /\ conf(d) \in Path
BY Paths DEF Locals, TypeOK

LEMMA OwnFiles ==
  ASSUME TypeOK, NEW h \in Handle, Locals(h), Knows(h), Act(h), NEW p \in Path
  PROVE  Changes(h, p)
<1> USE DEF Changes, TypeOK
<1>1. CASE file' = file
  BY <1>1
<1>2. CASE ScanRemove(h) \/ CloseRemove(h)
  BY <1>2 DEF ScanRemove, CloseRemove, Unlink, Knows
<1>3. CASE Create(h)
  <2>1. PICK d \in Domain : d \in domains[h] /\ cur[h][1] = d
    BY <1>3, CurDomain DEF Create, Writing
  <2> QED BY <1>3, <2>1 DEF Create, Knows
<1>4. CASE Write(h)
  <2>1. PICK d \in Domain : d \in domains[h] /\ cur[h][1] = d
    BY <1>4, CurDomain DEF Write, Writing
  <2>2. file' = file \/ file' = [file EXCEPT ![temp(d)] = owner[h]]
    BY <1>4, <2>1 DEF Write, Knows
  <2>3. file[temp(d)] = Empty
    BY <1>4, <2>1 DEF Write, Knows
  <2> QED BY <2>1, <2>2, <2>3
<1>5. CASE Rename(h)
  <2>1. PICK d \in Domain : /\ d \in domains[h] /\ cur[h] = conf(d) /\ cur[h][1] = d
                            /\ temp(d) \in Path /\ conf(d) \in Path
    BY <1>5, CurDomain DEF Rename, Writing
  <2>2. file[temp(d)] = owner[h] /\ file[conf(d)] \in {Absent, owner[h]}
    BY <1>5, <2>1 DEF Rename, Knows, Writing
  <2>3. file' = file \/ file' = [file EXCEPT ![conf(d)] = file[temp(d)], ![temp(d)] = Absent]
    BY <1>5, <2>1 DEF Rename
  <2>4. conf(d) # temp(d)
    BY Paths
  <2> QED BY <2>1, <2>2, <2>3, <2>4
<1> QED BY <1>1, <1>2, <1>3, <1>4, <1>5
        DEF Act, Step, Apply, Close, Forget, Crash, IoError, ReadDir, Scan, EndScan, Check,
            CheckTemp, EndApply, CloseRead, EndClose

(* No call overwrites or removes a file that carries another owner's header *)
(* or none.                                                                 *)
LEMMA OthersKeptStep ==
  ASSUME FilesInv, NEW h \in Handle, Step(h), NEW p \in Path,
         file[p] \in (Owner \cup {Foreign}) \ {owner[h]}
  PROVE  file'[p] = file[p]
BY OwnFiles, MacResolverAssumption DEF FilesInv, Act, Changes

(* Open files of others stay where they are, unless they carry the mark of  *)
(* slot h or are files of its domains.                                      *)
LEMMA OthersFds ==
  ASSUME TypeOK, NEW h \in Handle, Locals(h), Knows(h), Act(h), NEW k \in Handle \ {h}
  PROVE  \/ fd'[k] = fd[k]
         \/ fd[k] \in Path /\ file[fd[k]] = owner[h]
         \/ \E d \in domains[h] : fd[k] \in {conf(d), temp(d)}
<1> USE DEF TypeOK
<1>1. CASE ScanRemove(h) \/ CloseRemove(h)
  <2>1. cur[h] \in Path /\ file[cur[h]] = owner[h]
    BY <1>1, CurDomain DEF ScanRemove, CloseRemove, Locals, Knows
  <2>2. fd' = fd \/ Return(h, "idle") \/ Unlink(cur[h])
    BY <1>1 DEF ScanRemove, CloseRemove
  <2>3. CASE fd' = fd
    BY <2>3
  <2>4. CASE Return(h, "idle")
    BY <2>4 DEF Return
  <2>5. CASE Unlink(cur[h])
    BY <2>1, <2>5 DEF Unlink, FdsAfterUnlink
  <2> QED BY <2>2, <2>3, <2>4, <2>5
<1>2. CASE Rename(h)
  <2>1. PICK d \in Domain : d \in domains[h] /\ cur[h][1] = d
    BY <1>2, CurDomain DEF Rename, Writing
  <2>2. fd' = FdsAfterRename(temp(d), conf(d)) \/ Return(h, "idle")
    BY <1>2, <2>1 DEF Rename
  <2>3. CASE fd' = FdsAfterRename(temp(d), conf(d))
    BY <2>1, <2>3 DEF FdsAfterRename, FdsAfterUnlink
  <2>4. CASE Return(h, "idle")
    BY <2>4 DEF Return
  <2> QED BY <2>2, <2>3, <2>4
<1>3. CASE IoError(h)
  BY <1>3 DEF IoError, Return
<1>4. CASE Apply(h) \/ Close(h) \/ Forget(h) \/ Crash(h)
  BY <1>4 DEF Apply, Close, Forget, Crash, Return
<1>5. CASE ReadDir(h) \/ Scan(h) \/ EndScan(h) \/ Check(h) \/ CheckTemp(h)
  BY <1>5 DEF ReadDir, Scan, EndScan, Check, CheckTemp, Return
<1>6. CASE Create(h) \/ Write(h) \/ EndApply(h) \/ CloseRead(h) \/ EndClose(h)
  BY <1>6 DEF Create, Write, EndApply, CloseRead, EndClose
<1> QED BY <1>1, <1>2, <1>3, <1>4, <1>5, <1>6 DEF Act, Step

(* What is marked by slot k, and what its domains have not got yet, another *)
(* slot's step leaves as it is.                                             *)
LEMMA OthersLeave ==
  ASSUME ApartPrograms, FilesInv, NEW h \in Handle, Act(h), NEW k \in Handle \ {h},
         pc[k] \notin {"idle", "dead"}
  PROVE  /\ owner[k] \in Owner
         /\ \A p \in Path : file'[p] = owner[k] <=> file[p] = owner[k]
         /\ \A d \in domains[k] : \A p \in {conf(d), temp(d)} \cap Path :
              file[p] \in {Absent, Empty} => file'[p] = file[p]
<1>1. TypeOK /\ Locals(k) /\ Locals(h) /\ Knows(h)
  BY DEF FilesInv
<1>2. owner[k] \in Owner /\ owner[k] \notin {Absent, Empty, Foreign}
  BY <1>1, MacResolverAssumption DEF Locals
<1>3. CASE pc[h] \in {"idle", "dead"}
  <2>1. file' = file
    BY <1>3 DEF Act, Step, Apply, Close, Forget, Crash, IoError, InCall, Steps, ReadDir, Scan,
       ScanRemove, EndScan, Check, CheckTemp, Create, Write, Rename, EndApply, CloseRead,
       CloseRemove, EndClose
  <2> QED BY <1>2, <2>1
<1>4. CASE pc[h] \notin {"idle", "dead"}
  <2>1. owner[h] # owner[k] /\ owner[h] \notin {Absent, Empty, Foreign}
    BY <1>1, <1>4, MacResolverAssumption DEF Locals, ApartPrograms
  <2>2. domains[h] \cap domains[k] = {} /\ domains[h] \subseteq Domain /\ domains[k] \subseteq Domain
    BY <1>1, <1>4 DEF Locals, ApartPrograms, TypeOK
  <2>3. \A p \in Path : Changes(h, p)
    BY <1>1, OwnFiles
  <2>4. \A p \in Path : file'[p] = owner[k] <=> file[p] = owner[k]
    BY <1>2, <2>1, <2>3 DEF Changes
  <2>5. \A d \in domains[k], e \in domains[h] : {conf(d), temp(d)} \cap {conf(e), temp(e)} = {}
    BY <2>2, Paths
  <2>6. ASSUME NEW d \in domains[k], NEW p \in {conf(d), temp(d)} \cap Path,
               file[p] \in {Absent, Empty}
        PROVE  file'[p] = file[p]
    BY <2>1, <2>3, <2>5, <2>6 DEF Changes
  <2> QED BY <1>2, <2>4, <2>6
<1> QED BY <1>3, <1>4

(* Another slot's step leaves what a slot knows as it is. *)
LEMMA OthersKnow ==
  ASSUME ApartPrograms, FilesInv, NEW h \in Handle, Act(h), NEW k \in Handle \ {h}
  PROVE  Knows(k)'
<1>1. TypeOK /\ Locals(k) /\ Knows(k) /\ Locals(h) /\ Knows(h)
  BY DEF FilesInv
<1>2. /\ pc'[k] = pc[k] /\ owner'[k] = owner[k] /\ domains'[k] = domains[k]
      /\ left'[k] = left[k] /\ found'[k] = found[k] /\ cur'[k] = cur[k]
  BY <1>1, OwnStep
<1>3. CASE pc[k] # "write"
  <2>1. fd[k] = NoPath
    BY <1>1, <1>3 DEF Knows
  <2>2. fd'[k] = NoPath
    <3>1. \A d \in domains[h] : NoPath \notin {conf(d), temp(d)}
      BY <1>1, Paths DEF TypeOK
    <3> QED BY <1>1, <2>1, <3>1, OthersFds, Paths
  <2>3. CASE pc[k] \in {"idle", "dead"}
    BY <1>2, <2>2, <2>3 DEF Knows, Writing
  <2>4. CASE pc[k] \in {"scan_remove", "close_remove"}
    <3>1. cur[k] \in Path
      BY <1>1, <2>4, CurDomain DEF Locals
    <3> QED BY <1>1, <1>2, <2>2, <2>4, <3>1, OthersLeave DEF Knows, Writing
  <2>5. CASE pc[k] \in Writing
    <3>1. PICK d \in Domain : /\ d \in domains[k] /\ cur[k] = conf(d) /\ cur[k][1] = d
                              /\ temp(d) \in Path /\ conf(d) \in Path
      BY <1>1, <2>5, CurDomain
    <3>2. pc[k] \notin {"idle", "dead"}
      BY <2>5 DEF Writing
    <3>3. /\ \A p \in Path : file'[p] = owner[k] <=> file[p] = owner[k]
          /\ \A p \in {conf(d), temp(d)} : file[p] \in {Absent, Empty} => file'[p] = file[p]
      BY <3>1, <3>2, OthersLeave
    <3> QED BY <1>1, <1>2, <1>3, <2>2, <2>5, <3>1, <3>3 DEF Knows, Writing
  <2>6. CASE pc[k] \notin {"idle", "dead", "scan_remove", "close_remove"} \cup Writing
    <3>1. \A p \in Path : file'[p] = owner[k] => file[p] = owner[k]
      BY <2>6, OthersLeave
    <3>2. pc[k] = "scan" => \A p \in Path : file[p] = owner[k] => p \in found[k]
      BY <1>1 DEF Knows
    <3>3. pc[k] = "check" =>
            \A p \in Path : file[p] = owner[k] => \E d \in domains[k] : p = conf(d)
      BY <1>1 DEF Knows
    <3> QED BY <1>2, <2>2, <2>6, <3>1, <3>2, <3>3 DEF Knows, Writing
  <2> QED BY <2>3, <2>4, <2>5, <2>6
<1>4. CASE pc[k] = "write"
  <2>1. PICK d \in Domain : /\ d \in domains[k] /\ cur[k] = conf(d) /\ cur[k][1] = d
                            /\ temp(d) \in Path /\ conf(d) \in Path
    BY <1>1, <1>4, CurDomain DEF Writing
  <2>2. /\ \A p \in Path : file'[p] = owner[k] <=> file[p] = owner[k]
        /\ \A p \in {conf(d), temp(d)} : file[p] \in {Absent, Empty} => file'[p] = file[p]
    BY <1>4, <2>1, OthersLeave
  <2>3. fd[k] = temp(d) /\ file[temp(d)] = Empty
    BY <1>1, <1>4, <2>1 DEF Knows
  <2>4. fd'[k] = fd[k]
    <3>1. CASE pc[h] \in {"idle", "dead"}
      BY <1>1, <3>1 DEF Act, Step, Apply, Close, Forget, Crash, IoError, InCall, Steps, ReadDir,
         Scan, ScanRemove, EndScan, Check, CheckTemp, Create, Write, Rename, EndApply, CloseRead,
         CloseRemove, EndClose
    <3>2. CASE pc[h] \notin {"idle", "dead"}
      <4>1. owner[h] # Empty
        BY <1>1, <3>2, MacResolverAssumption DEF Locals
      <4>2. d \notin domains[h] /\ domains[h] \subseteq Domain
        BY <1>1, <1>4, <2>1, <3>2 DEF Locals, ApartPrograms, TypeOK
      <4>3. \A e \in domains[h] : temp(d) \notin {conf(e), temp(e)}
        BY <4>2, Paths
      <4> QED BY <1>1, <2>3, <4>1, <4>3, OthersFds
    <3> QED BY <3>1, <3>2
  <2> QED BY <1>1, <1>2, <1>4, <2>1, <2>2, <2>3, <2>4 DEF Knows, Writing
<1> QED BY <1>3, <1>4

LEMMA ReturnKnows ==
  ASSUME TypeOK, NEW h \in Handle, NEW l \in {"idle", "dead"}, Return(h, l)
  PROVE  Knows(h)'
BY DEF TypeOK, Return, Goto, Knows, Writing

(* Every step of a slot keeps what the slot knows. *)
LEMMA OwnKnows ==
  ASSUME FilesInv, NEW h \in Handle, Act(h)
  PROVE  Knows(h)'
<1>1. TypeOK /\ Locals(h) /\ Knows(h)
  BY DEF FilesInv
<1>2. owner[h] \notin {Empty, Foreign} /\ (pc[h] \notin {"idle", "dead"} => owner[h] # Absent)
  BY <1>1, MacResolverAssumption DEF Locals, TypeOK
<1>3. \A l \in {"idle", "dead"} : Return(h, l) => Knows(h)'
  BY <1>1, ReturnKnows
<1>4. CASE Apply(h)
  <2>1. pc'[h] = "read_dir" /\ fd'[h] = NoPath
    BY <1>1, <1>4 DEF Apply, Goto, TypeOK, Knows
  <2> QED BY <2>1 DEF Knows, Writing
<1>5. CASE ReadDir(h)
  <2>1. /\ pc[h] = "read_dir" /\ pc'[h] = "scan" /\ fd'[h] = NoPath
        /\ UNCHANGED <<file, owner>> /\ found'[h] = {p \in Path : file[p] # Absent}
    BY <1>1, <1>5 DEF ReadDir, Goto, TypeOK, Knows
  <2>2. \A p \in Path : file[p] = owner[h] => p \in found'[h]
    BY <1>2, <2>1
  <2> QED BY <2>1, <2>2 DEF Knows, Writing
<1>6. CASE Scan(h)
  <2>1. PICK p \in found[h] :
          \/ /\ file[p] = owner[h] /\ cur'[h] = p /\ pc'[h] = "scan_remove" /\ found'[h] = found[h]
          \/ /\ file[p] # owner[h] /\ found'[h] = found[h] \ {p} /\ pc'[h] = "scan"
    BY <1>1, <1>6 DEF Scan, Goto, TypeOK
  <2>2. pc[h] = "scan" /\ UNCHANGED <<file, owner>> /\ fd'[h] = NoPath
    BY <1>1, <1>6 DEF Scan, Knows
  <2> QED BY <1>1, <2>1, <2>2 DEF Knows, Writing
<1>7. CASE ScanRemove(h)
  <2>1. /\ pc[h] = "scan_remove" /\ cur[h] \in Path /\ file[cur[h]] = owner[h]
    BY <1>1, <1>7 DEF ScanRemove, Locals, Knows
  <2>2. /\ Unlink(cur[h]) /\ found'[h] = found[h] \ {cur[h]} /\ pc'[h] = "scan"
        /\ owner' = owner
    BY <1>1, <1>2, <1>7, <2>1 DEF ScanRemove, Goto, TypeOK
  <2>3. fd'[h] = NoPath
    BY <1>1, <2>1, <2>2 DEF Unlink, FdsAfterUnlink, Knows
  <2>4. \A p \in Path : file'[p] = owner[h] => p \in found'[h]
    BY <1>1, <1>2, <2>1, <2>2 DEF Unlink, TypeOK, Knows
  <2> QED BY <2>2, <2>3, <2>4 DEF Knows, Writing
<1>8. CASE EndScan(h)
  <2>1. CASE Return(h, "idle")
    BY <1>3, <2>1
  <2>2. CASE Goto(h, "check") /\ UNCHANGED <<owner, domains, fd>>
    <3>1. /\ pc[h] = "scan" /\ pc'[h] = "check" /\ found[h] = {} /\ file' = file
      BY <1>1, <1>8, <2>2 DEF EndScan, Goto, TypeOK
    <3>2. \A p \in Path : file[p] # owner[h]
      BY <1>1, <3>1 DEF Knows
    <3> QED BY <1>1, <2>2, <3>1, <3>2 DEF Knows, Writing
  <2> QED BY <1>8, <2>1, <2>2 DEF EndScan
<1>9. CASE Check(h)
  <2>1. CASE Return(h, "idle")
    BY <1>3, <2>1
  <2>2. CASE \E d \in left[h] : /\ file[conf(d)] \in {Absent, owner[h]}
                               /\ cur' = [cur EXCEPT ![h] = conf(d)]
                               /\ Goto(h, "check_temp")
                               /\ UNCHANGED <<owner, domains, fd>>
    <3>1. /\ pc[h] = "check" /\ pc'[h] = "check_temp" /\ file' = file
          /\ file[cur'[h]] \in {Absent, owner[h]}
      BY <1>1, <1>9, <2>2 DEF Check, Goto, TypeOK
    <3> QED BY <1>1, <2>2, <3>1 DEF Knows, Writing
  <2> QED BY <1>9, <2>1, <2>2 DEF Check
<1>10. CASE CheckTemp(h)
  <2>1. CASE Return(h, "idle")
    BY <1>3, <2>1
  <2>2. CASE /\ file[temp(cur[h][1])] \in {Absent, owner[h]} /\ Goto(h, "create")
             /\ UNCHANGED <<closing, owner, domains, left, found, cur, fd, failed>>
    <3>1. /\ pc[h] = "check_temp" /\ pc'[h] = "create" /\ file' = file
      BY <1>1, <1>10, <2>2 DEF CheckTemp, Goto, TypeOK
    <3> QED BY <1>1, <2>2, <3>1 DEF Knows, Writing
  <2> QED BY <1>10, <2>1, <2>2 DEF CheckTemp
<1>11. pc[h] \in Writing =>
         \E d \in Domain : /\ d \in left[h] /\ d \in domains[h]
                           /\ cur[h] = conf(d) /\ cur[h][1] = d
                           /\ temp(d) \in Path /\ conf(d) \in Path /\ conf(d) # temp(d)
  BY <1>1, CurDomain, Paths
<1>12. CASE Create(h)
  <2>1. PICK d \in Domain : /\ d \in domains[h] /\ cur[h] = conf(d) /\ cur[h][1] = d
                            /\ temp(d) \in Path /\ conf(d) \in Path /\ conf(d) # temp(d)
    BY <1>11, <1>12 DEF Create, Writing
  <2>2. /\ pc[h] = "create" /\ pc'[h] = "write" /\ UNCHANGED <<owner, domains, cur>>
        /\ file' = [file EXCEPT ![temp(d)] = Empty] /\ fd'[h] = temp(d)
    BY <1>1, <1>12, <2>1 DEF Create, Goto, TypeOK
  <2>3. file'[temp(d)] = Empty /\ \A p \in Path \ {temp(d)} : file'[p] = file[p]
    BY <1>1, <2>1, <2>2 DEF TypeOK
  <2>4. file'[cur[h]] \in {Absent, owner[h]}
    BY <1>1, <2>1, <2>2, <2>3 DEF Knows, Writing
  <2>5. \A p \in Path : file'[p] = owner[h] => \E e \in domains[h] : p = conf(e)
    BY <1>1, <1>2, <2>2, <2>3 DEF Knows, Writing
  <2> QED BY <2>1, <2>2, <2>3, <2>4, <2>5 DEF Knows, Writing
<1>13. CASE Write(h)
  <2>1. PICK d \in Domain : /\ d \in domains[h] /\ cur[h] = conf(d) /\ cur[h][1] = d
                            /\ temp(d) \in Path /\ conf(d) \in Path /\ conf(d) # temp(d)
    BY <1>11, <1>13 DEF Write, Writing
  <2>2. pc[h] = "write" /\ fd[h] = temp(d) /\ fd[h] # NoPath
    BY <1>1, <1>13, <2>1, Paths DEF Write, Knows
  <2>3. /\ pc'[h] = "rename" /\ UNCHANGED <<owner, domains, cur>>
        /\ file' = [file EXCEPT ![temp(d)] = owner[h]] /\ fd'[h] = NoPath
    BY <1>1, <1>13, <2>2 DEF Write, Goto, TypeOK
  <2>4. file'[temp(d)] = owner[h] /\ \A p \in Path \ {temp(d)} : file'[p] = file[p]
    BY <1>1, <2>1, <2>3 DEF TypeOK
  <2>5. file'[cur[h]] \in {Absent, owner[h]}
    BY <1>1, <2>1, <2>2, <2>4 DEF Knows, Writing
  <2>6. \A p \in Path : file'[p] = owner[h] =>
          (\E e \in domains[h] : p = conf(e)) \/ p = temp(d)
    BY <1>1, <2>2, <2>4 DEF Knows, Writing
  <2> QED BY <2>1, <2>3, <2>4, <2>5, <2>6 DEF Knows, Writing
<1>14. CASE Rename(h)
  <2>1. PICK d \in Domain : /\ d \in domains[h] /\ cur[h] = conf(d) /\ cur[h][1] = d
                            /\ temp(d) \in Path /\ conf(d) \in Path /\ conf(d) # temp(d)
    BY <1>11, <1>14 DEF Rename, Writing
  <2>2. pc[h] = "rename" /\ file[temp(d)] = owner[h]
    BY <1>1, <1>14, <2>1 DEF Rename, Knows
  <2>3. /\ pc'[h] = "check" /\ UNCHANGED <<owner, domains>>
        /\ file' = [file EXCEPT ![conf(d)] = file[temp(d)], ![temp(d)] = Absent]
        /\ fd' = FdsAfterRename(temp(d), conf(d))
    BY <1>1, <1>2, <1>14, <2>1, <2>2 DEF Rename, Goto, TypeOK
  <2>4. fd'[h] = NoPath
    BY <1>1, <2>1, <2>2, <2>3, Paths DEF FdsAfterRename, FdsAfterUnlink, Knows
  <2>5. /\ file'[temp(d)] = Absent /\ \A p \in Path \ {temp(d), conf(d)} : file'[p] = file[p]
    BY <1>1, <2>1, <2>3 DEF TypeOK
  <2>6. \A p \in Path : file'[p] = owner[h] => \E e \in domains[h] : p = conf(e)
    BY <1>1, <1>2, <2>1, <2>2, <2>5 DEF Knows, Writing
  <2> QED BY <2>3, <2>4, <2>6 DEF Knows, Writing
<1>15. CASE EndApply(h) \/ Close(h) \/ EndClose(h)
  BY <1>1, <1>15 DEF EndApply, Close, EndClose, Goto, TypeOK, Knows, Writing
<1>16. CASE CloseRead(h)
  <2>1. /\ pc[h] = "close_read" /\ UNCHANGED <<file, owner, fd>>
        /\ \/ pc'[h] = "close_read"
           \/ pc'[h] = "close_remove" /\ file[cur'[h]] = owner[h]
    BY <1>1, <1>16 DEF CloseRead, Goto, TypeOK
  <2> QED BY <1>1, <2>1 DEF Knows, Writing
<1>17. CASE CloseRemove(h)
  <2>1. /\ pc[h] = "close_remove" /\ pc'[h] = "close_read" /\ owner' = owner
        /\ Unlink(cur[h]) \/ fd' = fd
    BY <1>1, <1>17 DEF CloseRemove, Goto, TypeOK
  <2>2. fd'[h] = NoPath
    BY <1>1, <2>1 DEF Unlink, FdsAfterUnlink, Knows
  <2> QED BY <2>1, <2>2 DEF Knows, Writing
<1>18. CASE IoError(h)
  <2>1. CASE pc[h] = "close_read"
    <3>1. pc' = pc /\ fd' = fd /\ file' = file /\ owner' = owner
      BY <1>18, <2>1 DEF IoError
    <3> QED BY <1>1, <2>1, <3>1 DEF Knows, Writing
  <2>2. CASE pc[h] = "close_remove"
    <3>1. Goto(h, "close_read") /\ fd' = fd
      BY <1>18, <2>2 DEF IoError
    <3>2. pc'[h] = "close_read"
      BY <1>1, <3>1 DEF Goto, TypeOK
    <3> QED BY <1>1, <2>2, <3>1, <3>2 DEF Knows, Writing
  <2>3. CASE pc[h] \notin {"close_read", "close_remove"}
    BY <1>3, <1>18, <2>3 DEF IoError
  <2> QED BY <2>1, <2>2, <2>3
<1>19. CASE Forget(h) \/ Crash(h)
  BY <1>3, <1>19 DEF Forget, Crash
<1> QED BY <1>4, <1>5, <1>6, <1>7, <1>8, <1>9, <1>10, <1>12, <1>13, <1>14, <1>15, <1>16, <1>17,
           <1>18, <1>19 DEF Act, Step

LEMMA FilesInit == Init => FilesInv
<1>1. Init => TypeOK /\ \A h \in Handle : Locals(h)
  BY TypeInit
<1>2. Init => \A h \in Handle : Knows(h)
  BY DEF Init, Knows, Writing
<1> QED BY <1>1, <1>2 DEF FilesInv

LEMMA FilesStep ==
  ASSUME ApartPrograms, FilesInv, [Next]_vars
  PROVE  FilesInv'
<1>1. TypeOK' /\ \A h \in Handle : Locals(h)'
  BY TypeStep DEF FilesInv
<1>2. ASSUME NEW h \in Handle, Act(h) PROVE \A k \in Handle : Knows(k)'
  <2>1. \A k \in Handle \ {h} : Knows(k)'
    BY <1>2, OthersKnow
  <2>2. Knows(h)'
    BY <1>2, OwnKnows
  <2> QED BY <2>1, <2>2
<1>3. ASSUME ExternalEdit, NEW k \in Handle PROVE Knows(k)'
  <2>1. pc' = pc /\ fd' = fd /\ pc[k] \in Rest
    BY <1>3 DEF ExternalEdit, slots, InCall, FilesInv, TypeOK
  <2> QED BY <2>1 DEF FilesInv, Knows, Writing, Rest
<1>4. CASE UNCHANGED vars
  BY <1>4 DEF vars, FilesInv, TypeOK, Locals, Knows
<1> QED BY <1>1, <1>2, <1>3, <1>4 DEF Next, Act, FilesInv

(* What a call is about to remove or to replace stays what it was when the  *)
(* call looked at it.                                                       *)
LEMMA FilesKept == ASSUME ApartPrograms PROVE Spec => []FilesInv
BY FilesInit, FilesStep, PTL DEF Spec

(* No call overwrites or removes a file that carries another owner's header *)
(* or none, for any number of programs with owners and domains of their own *)
(* and whatever fails: between the look at a file and the step that removes *)
(* or replaces it nobody else touches it.                                   *)
THEOREM MacResolverOthersFilesKept == ASSUME ApartPrograms PROVE Spec => OthersFilesKept
<1>1. FilesInv /\ [Next]_vars =>
        [\A h \in Handle : Step(h) =>
           \A p \in Path :
             file[p] \in (Owner \cup {Foreign}) \ {owner[h]} => file'[p] = file[p]]_vars
  BY OthersKeptStep
<1> QED BY <1>1, FilesKept, PTL DEF Spec, OthersFilesKept

(* A close returns at the end of its scan, and nowhere else but for errors. *)
LEMMA CloseReturns ==
  ASSUME FilesInv, [Next]_vars, NEW h \in Handle, closing[h], pc'[h] = "idle",
         "io" \notin happened'
  PROVE  EndScan(h)
<1>1. TypeOK /\ Locals(h) /\ Knows(h)
  BY DEF FilesInv
<1>2. pc[h] \notin {"idle", "dead", "check", "live"} \cup Writing
  BY <1>1 DEF Locals
<1>3. PICK k \in Handle : Act(k)
  BY <1>2 DEF Next, Act, vars, ExternalEdit, slots
<1>4. k = h
  BY <1>1, <1>2, <1>3, OwnStep
<1>5. ~ScanRemove(h)
  <2> SUFFICES ASSUME ScanRemove(h) PROVE FALSE
    OBVIOUS
  <2>1. file[cur[h]] = owner[h] /\ owner[h] # Absent
    BY <1>1, <1>2, MacResolverAssumption DEF ScanRemove, Knows, Locals
  <2>2. Goto(h, "scan")
    BY <2>1 DEF ScanRemove
  <2> QED BY <1>1, <2>2 DEF Goto, TypeOK
<1>6. ~IoError(h)
  BY DEF IoError, Happens
<1> QED BY <1>1, <1>2, <1>3, <1>4, <1>5, <1>6
        DEF Act, Step, Apply, Close, Forget, Crash, ReadDir, Scan, Check, CheckTemp, Create,
            Write, Rename, EndApply, CloseRead, CloseRemove, EndClose, Return, Goto, TypeOK,
            Writing

(* A close that returns has left no file of its owner behind, unless the    *)
(* file system failed: its last scan has found and removed them all, also   *)
(* where a domain's file had become somebody else's.                        *)
THEOREM MacResolverCloseLeavesNothing ==
  ASSUME ApartPrograms PROVE Spec => CloseLeavesNothing
<1>1. ASSUME FilesInv, [Next]_vars, NEW h \in Handle,
             closing[h], pc'[h] = "idle", "io" \notin happened'
      PROVE  \A p \in Path : file'[p] # owner[h]
  <2>1. EndScan(h)
    BY <1>1, CloseReturns
  <2> QED BY <1>1, <2>1 DEF EndScan, FilesInv, Knows
<1>2. FilesInv /\ [Next]_vars =>
        [\A h \in Handle :
           closing[h] /\ pc'[h] = "idle" /\ "io" \notin happened' =>
             \A p \in Path : file'[p] # owner[h]]_vars
  BY <1>1
<1> QED BY <1>2, FilesKept, PTL DEF Spec, CloseLeavesNothing

(* When apply returns a handle, the files with its mark are those of its    *)
(* domains: what errors, crashes and forgotten handles left is removed.     *)
THEOREM MacResolverApplyCleansUp == ASSUME ApartPrograms PROVE Spec => ApplyCleansUp
<1>1. ASSUME FilesInv, [Next]_vars, NEW h \in Handle, InCall(h), pc'[h] = "live"
      PROVE  \A p \in Path : file'[p] = owner[h] => \E d \in domains[h] : p = conf(d)
  <2>1. TypeOK /\ Locals(h) /\ Knows(h) /\ pc[h] # "live" /\ pc[h] # "idle"
    BY <1>1 DEF FilesInv, InCall, Steps
  <2>2. PICK k \in Handle : Act(k)
    BY <1>1, <2>1 DEF Next, Act, vars, ExternalEdit, slots
  <2>3. k = h
    BY <1>1, <2>1, <2>2, OwnStep
  <2>4. ~IoError(h)
    <3> SUFFICES ASSUME IoError(h) PROVE FALSE
      OBVIOUS
    <3>1. CASE pc[h] = "close_read"
      BY <1>1, <3>1 DEF IoError
    <3>2. CASE pc[h] = "close_remove"
      <4>1. Goto(h, "close_read")
        BY <3>2 DEF IoError
      <4> QED BY <1>1, <2>1, <4>1 DEF Goto, TypeOK
    <3>3. CASE pc[h] \notin {"close_read", "close_remove"}
      <4>1. Return(h, "idle")
        BY <3>3 DEF IoError
      <4> QED BY <1>1, <2>1, <4>1 DEF Return, Goto, TypeOK
    <3> QED BY <3>1, <3>2, <3>3
  <2>5. EndApply(h)
    BY <1>1, <2>1, <2>2, <2>3, <2>4
    DEF Act, Step, Apply, Close, Forget, Crash, ReadDir, Scan, ScanRemove, EndScan, Check,
        CheckTemp, Create, Write, Rename, CloseRead, CloseRemove, EndClose, Return, Goto, TypeOK
  <2> QED BY <2>1, <2>5 DEF EndApply, Knows
<1>2. FilesInv /\ [Next]_vars =>
        [\A h \in Handle :
           InCall(h) /\ pc'[h] = "live" =>
             \A p \in Path : file'[p] = owner[h] => \E d \in domains[h] : p = conf(d)]_vars
  BY <1>1
<1> QED BY <1>2, FilesKept, PTL DEF Spec, ApplyCleansUp

-----------------------------------------------------------------------------
LEMMA HappenedGrows ==
  ASSUME NEW h \in Handle, Act(h)
  PROVE  happened \subseteq happened'
BY DEF Act, Apply, Close, Forget, Crash, IoError, Step, ReadDir, Scan, ScanRemove, EndScan,
       Check, CheckTemp, Create, Write, Rename, EndApply, CloseRead, CloseRemove, EndClose,
       Happens

LEMMA ReturnKept ==
  ASSUME TypeOK, NEW h \in Handle, NEW l \in {"idle", "dead"}, Return(h, l)
  PROVE  Kept(h)'
BY DEF TypeOK, Return, Goto, Kept, Writing

(* Every step of a slot keeps the files of its domains as they should be.   *)
LEMMA OwnKept ==
  ASSUME FilesInv, NEW h \in Handle, Kept(h), Act(h)
  PROVE  Kept(h)'
<1>1. TypeOK /\ Locals(h) /\ Knows(h) /\ happened \subseteq happened'
  BY HappenedGrows DEF FilesInv
<1>2. \A l \in {"idle", "dead"} : Return(h, l) => Kept(h)'
  BY <1>1, ReturnKept
<1>3. pc[h] \notin {"idle", "dead"} => owner[h] # Absent
  BY <1>1, MacResolverAssumption DEF Locals
<1>4. pc[h] \in Writing \cup {"close_remove"} =>
        \E d \in Domain : /\ d \in left[h] /\ d \in domains[h]
                          /\ cur[h] = conf(d) /\ cur[h][1] = d
                          /\ temp(d) \in Path /\ conf(d) \in Path /\ conf(d) # temp(d)
  BY <1>1, CurDomain, Paths
<1>5. /\ domains[h] \subseteq Domain /\ left[h] \subseteq domains[h]
      /\ \A e \in domains[h] : conf(e) \in Path
      /\ \A d \in Domain, e \in domains[h] : conf(e) # temp(d) /\ (conf(e) = conf(d) => e = d)
  BY <1>1, Paths DEF TypeOK, Locals
<1>6. CASE Apply(h) \/ ReadDir(h) \/ Scan(h) \/ EndClose(h)
  BY <1>1, <1>6 DEF Apply, ReadDir, Scan, EndClose, Goto, TypeOK, Kept, Writing
<1>7. CASE ScanRemove(h)
  <2>1. CASE Return(h, "idle")
    BY <1>2, <2>1
  <2>2. CASE Goto(h, "scan") /\ UNCHANGED failed
    BY <1>1, <1>7, <2>2 DEF ScanRemove, Goto, TypeOK, Kept, Writing
  <2> QED BY <1>7, <2>1, <2>2 DEF ScanRemove
<1>8. CASE EndScan(h) \/ Check(h) \/ CheckTemp(h)
  <2>1. CASE Return(h, "idle")
    BY <1>2, <2>1
  <2>2. CASE /\ left' = [left EXCEPT ![h] = domains[h]] /\ Goto(h, "check")
             /\ UNCHANGED <<owner, domains, failed, file>>
    BY <1>1, <2>2 DEF Goto, TypeOK, Kept, Writing
  <2>3. CASE /\ pc[h] \in {"check", "check_temp"}
             /\ \E l \in Writing : Goto(h, l)
             /\ UNCHANGED <<owner, domains, left, failed, file>>
    BY <1>1, <2>3 DEF Goto, TypeOK, Kept, Writing
  <2> QED BY <1>8, <2>1, <2>2, <2>3 DEF EndScan, Check, CheckTemp, Writing
<1>9. CASE Create(h) \/ Write(h)
  <2>1. PICK d \in Domain : cur[h][1] = d
    BY <1>4, <1>9 DEF Create, Write, Writing
  <2>2. \A e \in domains[h] : file'[conf(e)] = file[conf(e)]
    <3>1. file' \in {file, [file EXCEPT ![temp(d)] = Empty], [file EXCEPT ![temp(d)] = owner[h]]}
      BY <1>1, <1>9, <2>1 DEF Create, Write, Knows
    <3> QED BY <1>1, <1>5, <3>1 DEF TypeOK
  <2>3. /\ pc[h] \in Writing /\ pc'[h] \in Writing
        /\ UNCHANGED <<owner, domains, left, failed>>
    BY <1>1, <1>9 DEF Create, Write, Goto, TypeOK, Writing
  <2> QED BY <1>1, <2>2, <2>3 DEF Kept, Writing
<1>10. CASE Rename(h)
  <2>1. PICK d \in Domain : /\ d \in domains[h] /\ cur[h][1] = d
                            /\ temp(d) \in Path /\ conf(d) \in Path /\ conf(d) # temp(d)
    BY <1>4, <1>10 DEF Rename, Writing
  <2>2. pc[h] = "rename" /\ file[temp(d)] = owner[h]
    BY <1>1, <1>10, <2>1 DEF Rename, Knows
  <2>3. /\ pc'[h] = "check" /\ UNCHANGED <<owner, domains, failed>>
        /\ left'[h] = left[h] \ {d}
        /\ file' = [file EXCEPT ![conf(d)] = file[temp(d)], ![temp(d)] = Absent]
    BY <1>1, <1>3, <1>10, <2>1, <2>2 DEF Rename, Goto, TypeOK
  <2>4. /\ file'[conf(d)] = owner[h]
        /\ \A e \in domains[h] \ {d} : file'[conf(e)] = file[conf(e)]
    BY <1>1, <1>5, <2>1, <2>2, <2>3 DEF TypeOK
  <2>5. \A e \in domains[h] \ left[h] : file[conf(e)] = owner[h]
    BY <2>2 DEF Kept, Writing
  <2> QED BY <1>1, <2>2, <2>3, <2>4, <2>5 DEF Kept, Writing
<1>11. CASE EndApply(h) \/ Close(h)
  BY <1>1, <1>11 DEF EndApply, Close, Goto, TypeOK, Kept, Writing
<1>12. CASE CloseRead(h)
  <2>1. PICK d \in left[h] :
          IF file[conf(d)] = owner[h]
            THEN /\ cur' = [cur EXCEPT ![h] = conf(d)]
                 /\ Goto(h, "close_remove")
                 /\ UNCHANGED <<left, failed>>
            ELSE /\ failed' = [failed EXCEPT ![h] = @ \/ file[conf(d)] # Absent]
                 /\ left' = [left EXCEPT ![h] = @ \ {d}]
                 /\ UNCHANGED <<pc, cur>>
    BY <1>12 DEF CloseRead
  <2>2. pc[h] = "close_read" /\ file[conf(d)] = owner[h]
    BY <1>12 DEF CloseRead, Kept
  <2> QED BY <1>1, <1>12, <2>1, <2>2 DEF CloseRead, Goto, TypeOK, Kept, Writing
<1>13. CASE CloseRemove(h)
  <2>1. PICK d \in Domain : d \in domains[h] /\ cur[h] = conf(d) /\ cur[h][1] = d
    BY <1>4, <1>13 DEF CloseRemove
  <2>2. /\ pc[h] = "close_remove" /\ file[cur[h]] = owner[h] /\ owner[h] # Absent
    BY <1>1, <1>3, <1>13 DEF CloseRemove, Knows
  <2>3. /\ pc'[h] = "close_read" /\ UNCHANGED <<owner, failed>> /\ left'[h] = left[h] \ {d}
        /\ file' = [file EXCEPT ![conf(d)] = Absent]
    BY <1>1, <1>13, <2>1, <2>2 DEF CloseRemove, Unlink, Goto, TypeOK
  <2>4. \A e \in left[h] \ {d} : file'[conf(e)] = owner[h]
    BY <1>1, <1>5, <2>1, <2>2, <2>3 DEF TypeOK, Kept
  <2> QED BY <1>1, <2>3, <2>4 DEF Kept, Writing
<1>14. CASE IoError(h)
  <2>1. "io" \in happened' /\ file' = file
    BY <1>14 DEF IoError, Happens
  <2>2. CASE pc[h] = "close_read"
    <3>1. /\ \E d \in left[h] : left' = [left EXCEPT ![h] = @ \ {d}]
          /\ pc' = pc /\ owner' = owner
      BY <1>14, <2>2 DEF IoError
    <3>2. left'[h] \subseteq left[h]
      BY <1>1, <3>1 DEF TypeOK
    <3> QED BY <2>1, <2>2, <3>1, <3>2 DEF Kept, Writing
  <2>3. CASE pc[h] = "close_remove"
    <3>1. /\ left' = [left EXCEPT ![h] = @ \ {cur[h][1]}]
          /\ Goto(h, "close_read") /\ owner' = owner
      BY <1>14, <2>3 DEF IoError
    <3>2. left'[h] \subseteq left[h] /\ pc'[h] = "close_read"
      BY <1>1, <3>1 DEF Goto, TypeOK
    <3> QED BY <2>1, <2>3, <3>1, <3>2 DEF Kept, Writing
  <2>4. CASE pc[h] \notin {"close_read", "close_remove"}
    BY <1>2, <1>14, <2>4 DEF IoError
  <2> QED BY <2>2, <2>3, <2>4
<1>15. CASE Forget(h) \/ Crash(h)
  BY <1>2, <1>15 DEF Forget, Crash
<1> QED BY <1>6, <1>7, <1>8, <1>9, <1>10, <1>11, <1>12, <1>13, <1>14, <1>15 DEF Act, Step

LEMMA OthersKept ==
  ASSUME ApartPrograms, FilesInv, NEW h \in Handle, Act(h), NEW k \in Handle \ {h}, Kept(k)
  PROVE  Kept(k)'
<1>1. TypeOK /\ Locals(k) /\ happened \subseteq happened'
  BY HappenedGrows DEF FilesInv
<1>2. /\ pc'[k] = pc[k] /\ owner'[k] = owner[k] /\ domains'[k] = domains[k]
      /\ left'[k] = left[k] /\ failed'[k] = failed[k]
  BY <1>1, OwnStep
<1>3. CASE pc[k] \in {"idle", "dead"}
  BY <1>1, <1>2, <1>3 DEF Kept, Writing
<1>4. CASE pc[k] \notin {"idle", "dead"}
  <2>1. \A d \in domains[k] : file[conf(d)] = owner[k] => file'[conf(d)] = owner[k]
    <3>1. \A d \in domains[k] : conf(d) \in Path
      BY <1>1, Paths DEF TypeOK
    <3> QED BY <1>4, <3>1, OthersLeave
  <2>2. left[k] \subseteq domains[k]
    BY <1>1 DEF Locals
  <2> QED BY <1>1, <1>2, <2>1, <2>2 DEF Kept
<1> QED BY <1>3, <1>4

(* Without errors of the file system and edits by others close succeeds,    *)
(* whatever call of another owner runs beside it or has died: the files of  *)
(* a handle's domains stay its own until it removes them.                   *)
THEOREM MacResolverCloseSucceeds == ASSUME ApartPrograms PROVE Spec => CloseSucceeds
<1>1. Init => FilesInv /\ KeptInv
  <2>1. Init => KeptInv
    BY DEF Init, KeptInv, Kept, Writing
  <2> QED BY <2>1, FilesInit
<1>2. ASSUME FilesInv, KeptInv, [Next]_vars PROVE KeptInv'
  <2>1. ASSUME NEW h \in Handle, Act(h), "edit" \notin happened' PROVE \A k \in Handle : Kept(k)'
    <3>1. \A k \in Handle : Kept(k)
      BY <1>2, <2>1, HappenedGrows DEF KeptInv
    <3>2. Kept(h)'
      BY <1>2, <2>1, <3>1, OwnKept
    <3>3. \A k \in Handle \ {h} : Kept(k)'
      BY <1>2, <2>1, <3>1, OthersKept
    <3> QED BY <3>2, <3>3
  <2>2. ExternalEdit => "edit" \in happened'
    BY DEF ExternalEdit
  <2>3. CASE UNCHANGED vars
    BY <1>2, <2>3 DEF vars, KeptInv, Kept
  <2> QED BY <1>2, <2>1, <2>2, <2>3 DEF Next, Act, KeptInv
<1>3. (FilesInv /\ KeptInv) /\ [Next]_vars => (FilesInv /\ KeptInv)'
  BY <1>2, FilesStep
<1>4. ASSUME FilesInv, KeptInv, [Next]_vars, NEW h \in Handle,
             closing[h], pc'[h] = "idle", happened' \cap {"io", "edit"} = {}
      PROVE  pc[h] = "scan" /\ ~failed[h]
  <2>1. EndScan(h)
    BY <1>4, CloseReturns
  <2>2. happened' = happened
    BY <2>1 DEF EndScan
  <2> QED BY <1>4, <2>1, <2>2 DEF EndScan, KeptInv, Kept
<1>5. FilesInv /\ KeptInv /\ [Next]_vars =>
        [\A h \in Handle :
           closing[h] /\ pc'[h] = "idle" /\ happened' \cap {"io", "edit"} = {} =>
             pc[h] = "scan" /\ ~failed[h]]_vars
  BY <1>4
<1> QED BY <1>1, <1>3, <1>5, PTL DEF Spec, CloseSucceeds
==============================================================================
