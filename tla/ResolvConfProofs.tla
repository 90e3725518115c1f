-------------------------- MODULE ResolvConfProofs --------------------------
(***************************************************************************)
(* Theorems about ResolvConf, for any number of handles, owners, servers   *)
(* and configurations of others.  The types hold for any overlap of calls. *)
(* The first half is about calls that do not overlap, where any number of  *)
(* handles may share owner marks; the second about programs with marks of  *)
(* their own, any number of whose closes run beside each other and beside  *)
(* one apply.  In both, others edit RESOLV_CONF between calls only, and     *)
(* errors, crashes and forgotten handles may come at any step.             *)
(***************************************************************************)
EXTENDS ResolvConfInv, TLAPS

(* Moving a slot to a known step keeps pc in its type. *)
LEMMA GotoType ==
  ASSUME TypeOK, NEW h \in Handle, NEW l \in Steps \cup Rest, Goto(h, l)
  PROVE  pc' \in [Handle -> Steps \cup Rest]
BY DEF TypeOK, Goto

(* A call that returns leaves its slot's variables in their types. *)
LEMMA ReturnType ==
  ASSUME TypeOK, NEW h \in Handle, NEW l \in Rest, Return(h, l)
  PROVE  /\ pc' \in [Handle -> Steps \cup Rest]
         /\ job' \in [Handle -> Jobs]
         /\ buf' \in [Handle -> Content \cup {Absent}]
         /\ cfg' \in [Handle -> Managed \cup {None}]
<1>1. pc' \in [Handle -> Steps \cup Rest]
  BY DEF TypeOK, Return, Goto
<1>2. job' \in [Handle -> Jobs]
  BY DEF TypeOK, Return, Jobs
<1>3. buf' \in [Handle -> Content \cup {Absent}]
  BY DEF TypeOK, Return
<1>4. cfg' \in [Handle -> Managed \cup {None}]
  BY DEF TypeOK, Return
<1> QED BY <1>1, <1>2, <1>3, <1>4

(* So does a call that returns an error. *)
LEMMA FailType ==
  ASSUME TypeOK, NEW h \in Handle, Fail(h)
  PROVE  /\ pc' \in [Handle -> Steps \cup Rest]
         /\ job' \in [Handle -> Jobs]
         /\ buf' \in [Handle -> Content \cup {Absent}]
         /\ cfg' \in [Handle -> Managed \cup {None}]
         /\ fd' \in [Handle -> Path \cup {NoFd}]
<1>1. Return(h, "idle") /\ "idle" \in Rest
  BY DEF Fail, Rest
<1>2. fd' \in [Handle -> Path \cup {NoFd}]
  BY DEF Fail, TypeOK
<1> QED BY <1>1, <1>2, ReturnType

(* Losing or changing a name leaves every descriptor a path or closed. *)
LEMMA FdsType ==
  ASSUME TypeOK, NEW src \in Path
  PROVE  /\ FdsAfterUnlink(src) \in [Handle -> Path \cup {NoFd}]
         /\ FdsAfterRename(src, "conf") \in [Handle -> Path \cup {NoFd}]
BY DEF TypeOK, FdsAfterUnlink, FdsAfterRename, Path

(* A file move is between two of the backend's three paths. *)
LEMMA MovePaths ==
  ASSUME NEW j
  PROVE  From(j) \in Path /\ To(j) \in Path
BY DEF From, To, Path

(* The initial states are well typed. *)
LEMMA TypeInit == Init => TypeOK
<1> SUFFICES ASSUME Init PROVE TypeOK
  OBVIOUS
<1>1. link \in Links /\ mounted \in BOOLEAN
  BY RegimeAssumption DEF Init
<1>2. PICK c \in User \cup {Absent} :
         /\ file = [p \in Path |-> IF p = "conf" THEN c ELSE Absent]
         /\ user = c
  BY DEF Init
<1>3. file \in [Path -> Content \cup {Absent}]
  BY <1>2 DEF Content
<1>4. user \in User \cup {Absent}
  BY <1>1, <1>2
<1>5. /\ pc \in [Handle -> Steps \cup Rest]
      /\ job \in [Handle -> Jobs]
      /\ cfg \in [Handle -> Managed \cup {None}]
      /\ fd \in [Handle -> Path \cup {NoFd}]
      /\ buf \in [Handle -> Content \cup {Absent}]
      /\ happened \subseteq {"io", "crash", "forget", "edit"}
  BY DEF Init, Rest, Jobs
<1> QED BY <1>1, <1>3, <1>4, <1>5 DEF TypeOK

(* No step of a call, no mishap and no edit of others leaves the types. *)
LEMMA TypeStep == TypeOK /\ Configured /\ [Next]_vars => TypeOK'
<1> SUFFICES ASSUME TypeOK, Configured, [Next]_vars PROVE TypeOK'
  OBVIOUS
<1> USE DEF fileVars, history, Happens
<1>1. ASSUME NEW h \in Handle, Apply(h) PROVE TypeOK'
  <2>1. PICK o \in OwnersOf[h], s \in Server :
           cfg' = [cfg EXCEPT ![h] = [owner |-> o, servers |-> s]]
    BY <1>1 DEF Apply
  <2>2. [owner |-> o, servers |-> s] \in Managed
    BY RegimeAssumption DEF Managed
  <2>3. cfg' \in [Handle -> Managed \cup {None}]
    BY <2>1, <2>2 DEF TypeOK
  <2>4. pc' \in [Handle -> Steps \cup Rest]
    BY <1>1, GotoType DEF Apply, Steps
  <2> QED BY <1>1, <2>3, <2>4 DEF Apply, TypeOK
<1>2. ASSUME NEW h \in Handle, ProbeLink(h) PROVE TypeOK'
  <2>1. CASE Fail(h)
    BY <1>2, <2>1, FailType DEF ProbeLink, TypeOK
  <2>2. CASE Goto(h, "probe_stub") /\ UNCHANGED <<job, cfg, fd, buf>>
    <3>1. pc' \in [Handle -> Steps \cup Rest]
      BY <2>2, GotoType DEF Steps
    <3> QED BY <1>2, <2>2, <3>1 DEF ProbeLink, TypeOK
  <2> QED BY <1>2, <2>1, <2>2 DEF ProbeLink
<1>3. ASSUME NEW h \in Handle, ProbeStub(h) PROVE TypeOK'
  <2>1. CASE Fail(h)
    BY <1>3, <2>1, FailType DEF ProbeStub, TypeOK
  <2>2. CASE Goto(h, "cleanup_residual") /\ UNCHANGED <<job, cfg, fd, buf>>
    <3>1. pc' \in [Handle -> Steps \cup Rest]
      BY <2>2, GotoType DEF Steps
    <3> QED BY <1>3, <2>2, <3>1 DEF ProbeStub, TypeOK
  <2> QED BY <1>3, <2>1, <2>2 DEF ProbeStub
<1>4. ASSUME NEW h \in Handle, CleanupResidual(h) PROVE TypeOK'
  <2>1. pc' \in [Handle -> Steps \cup Rest]
    BY <1>4, GotoType DEF CleanupResidual, Steps
  <2>2. job' \in [Handle -> Jobs]
    BY <1>4 DEF CleanupResidual, TypeOK, Jobs
  <2> QED BY <1>4, <2>1, <2>2 DEF CleanupResidual, TypeOK
<1>5. ASSUME NEW h \in Handle, CloseReads(h) PROVE TypeOK'
  <2>1. CASE OwnedBy(file["conf"], cfg[h].owner)
    <3>1. pc' \in [Handle -> Steps \cup Rest]
      BY <1>5, <2>1, GotoType DEF CloseReads, Steps
    <3>2. job' \in [Handle -> Jobs]
      BY <1>5, <2>1 DEF CloseReads, TypeOK, Jobs
    <3> QED BY <1>5, <2>1, <3>1, <3>2 DEF CloseReads, TypeOK
  <2>2. CASE ~OwnedBy(file["conf"], cfg[h].owner)
    BY <1>5, <2>2, FailType DEF CloseReads, TypeOK
  <2> QED BY <2>1, <2>2
<1>6. ASSUME NEW h \in Handle, RequireBackup(h) PROVE TypeOK'
  <2>1. CASE file["bak"] = Absent
    BY <1>6, <2>1, FailType DEF RequireBackup, TypeOK
  <2>2. CASE file["bak"] # Absent
    <3>1. pc' \in [Handle -> Steps \cup Rest]
      BY <1>6, <2>2, GotoType DEF RequireBackup, Steps
    <3> QED BY <1>6, <2>2, <3>1 DEF RequireBackup, TypeOK
  <2> QED BY <2>1, <2>2
<1>7. ASSUME NEW h \in Handle, CheckStale(h) PROVE TypeOK'
  <2>1. CASE file["bak"] # Absent
    BY <1>7, <2>1, FailType DEF CheckStale, TypeOK
  <2>2. CASE file["bak"] = Absent
    <3>1. pc' \in [Handle -> Steps \cup Rest]
      BY <1>7, <2>2, GotoType DEF CheckStale, Steps
    <3>2. job' \in [Handle -> Jobs]
      BY <1>7, <2>2 DEF CheckStale, TypeOK, Jobs
    <3> QED BY <1>7, <2>2, <3>1, <3>2 DEF CheckStale, TypeOK
  <2> QED BY <2>1, <2>2
<1>8. ASSUME NEW h \in Handle, CopyOpen(h) PROVE TypeOK'
  <2>1. From(job[h]) \in Path /\ To(job[h]) \in Path
    BY MovePaths
  <2>2. CASE file[From(job[h])] = Absent
    BY <1>8, <2>2, FailType DEF CopyOpen, TypeOK
  <2>3. CASE file[From(job[h])] # Absent
    <3>1. pc' \in [Handle -> Steps \cup Rest]
      BY <1>8, <2>3, GotoType DEF CopyOpen, Steps
    <3>2. file' \in [Path -> Content \cup {Absent}]
      BY <1>8, <2>1, <2>3 DEF CopyOpen, TypeOK, Content
    <3>3. fd' \in [Handle -> Path \cup {NoFd}]
      BY <1>8, <2>1, <2>3 DEF CopyOpen, TypeOK
    <3>4. buf' \in [Handle -> Content \cup {Absent}]
      BY <1>8, <2>1, <2>3 DEF CopyOpen, TypeOK
    <3> QED BY <1>8, <2>3, <3>1, <3>2, <3>3, <3>4 DEF CopyOpen, TypeOK
  <2> QED BY <2>2, <2>3
<1>9. ASSUME NEW h \in Handle, TempOpen(h) PROVE TypeOK'
  <2>1. pc' \in [Handle -> Steps \cup Rest]
    BY <1>9, GotoType DEF TempOpen, Steps
  <2>2. file' \in [Path -> Content \cup {Absent}]
    BY <1>9 DEF TempOpen, TypeOK, Content
  <2>3. fd' \in [Handle -> Path \cup {NoFd}]
    BY <1>9 DEF TempOpen, TypeOK, Path
  <2>4. buf' \in [Handle -> Content \cup {Absent}]
    BY <1>9 DEF TempOpen, TypeOK, Configured, InCall, Steps, Content
  <2> QED BY <1>9, <2>1, <2>2, <2>3, <2>4 DEF TempOpen, TypeOK
<1>10. ASSUME NEW h \in Handle, Write(h) PROVE TypeOK'
  <2>1. pc' \in [Handle -> Steps \cup Rest]
    BY <1>10, GotoType DEF Write, Steps
  <2>2. file' \in [Path -> Content \cup {Absent}]
    BY <1>10 DEF Write, TypeOK
  <2>3. fd' \in [Handle -> Path \cup {NoFd}]
    BY <1>10 DEF Write, TypeOK
  <2>4. buf' \in [Handle -> Content \cup {Absent}]
    BY <1>10 DEF Write, TypeOK
  <2> QED BY <1>10, <2>1, <2>2, <2>3, <2>4 DEF Write, TypeOK
<1>11. ASSUME NEW h \in Handle, Fsync(h) PROVE TypeOK'
  <2>1. CASE job[h] # "temp" /\ file[To(job[h])] = Absent
    BY <1>11, <2>1, FailType DEF Fsync, TypeOK
  <2>2. CASE ~(job[h] # "temp" /\ file[To(job[h])] = Absent)
    <3>1. pc' \in [Handle -> Steps \cup Rest]
      BY <1>11, <2>2 DEF Fsync, TypeOK, Steps
    <3>2. job' \in [Handle -> Jobs]
      BY <1>11, <2>2 DEF Fsync, TypeOK, Jobs
    <3> QED BY <1>11, <2>2, <3>1, <3>2 DEF Fsync, TypeOK
  <2> QED BY <2>1, <2>2
<1>12. ASSUME NEW h \in Handle, Rename(h) PROVE TypeOK'
  <2> DEFINE src == From(job[h])
  <2>0. src \in Path
    BY MovePaths
  <2>1. CASE Fail(h) /\ UNCHANGED <<file, link>>
    BY <1>12, <2>1, FailType DEF Rename, TypeOK
  <2>2. CASE Goto(h, "copy_open") /\ UNCHANGED <<file, link, job, cfg, fd, buf>>
    <3>1. pc' \in [Handle -> Steps \cup Rest]
      BY <2>2, GotoType DEF Steps
    <3> QED BY <1>12, <2>2, <3>1 DEF Rename, TypeOK
  <2>3. CASE /\ file' = [file EXCEPT !["conf"] = file[src], ![src] = Absent]
             /\ link' = "file"
             /\ fd' = FdsAfterRename(src, "conf")
             /\ Goto(h, "sync_dir")
             /\ UNCHANGED <<job, cfg, buf>>
    <3>1. pc' \in [Handle -> Steps \cup Rest]
      BY <2>3, GotoType DEF Steps
    <3>2. file' \in [Path -> Content \cup {Absent}]
      BY <2>0, <2>3 DEF TypeOK
    <3>3. fd' \in [Handle -> Path \cup {NoFd}]
      BY <2>0, <2>3, FdsType
    <3> QED BY <1>12, <2>3, <3>1, <3>2, <3>3 DEF Rename, TypeOK, Links
  <2> QED BY <1>12, <2>1, <2>2, <2>3 DEF Rename
<1>13. ASSUME NEW h \in Handle, Remove(h) PROVE TypeOK'
  <2>0. From(job[h]) \in Path
    BY MovePaths
  <2>1. CASE file[From(job[h])] = Absent
    BY <1>13, <2>1, FailType DEF Remove, TypeOK
  <2>2. CASE file[From(job[h])] # Absent
    <3>1. pc' \in [Handle -> Steps \cup Rest]
      BY <1>13, <2>2, GotoType DEF Remove, Steps
    <3>2. file' \in [Path -> Content \cup {Absent}]
      BY <1>13, <2>0, <2>2 DEF Remove, TypeOK
    <3>3. fd' \in [Handle -> Path \cup {NoFd}]
      BY <1>13, <2>0, <2>2, FdsType DEF Remove
    <3> QED BY <1>13, <2>2, <3>1, <3>2, <3>3 DEF Remove, TypeOK
  <2> QED BY <2>1, <2>2
<1>14. ASSUME NEW h \in Handle, SyncDir(h) PROVE TypeOK'
  <2>1. CASE job[h] = "reclaim"
    <3>1. pc' \in [Handle -> Steps \cup Rest]
      BY <1>14, <2>1, GotoType DEF SyncDir, Steps
    <3>2. job' \in [Handle -> Jobs]
      BY <1>14, <2>1 DEF SyncDir, TypeOK, Jobs
    <3> QED BY <1>14, <2>1, <3>1, <3>2 DEF SyncDir, TypeOK
  <2>2. CASE job[h] = "install"
    <3>1. Return(h, "live") /\ "live" \in Rest
      BY <1>14, <2>2 DEF SyncDir, Rest
    <3> QED BY <1>14, <3>1, ReturnType DEF SyncDir, TypeOK
  <2>3. CASE job[h] \notin {"reclaim", "install"}
    <3>1. Return(h, "idle") /\ "idle" \in Rest
      BY <1>14, <2>3 DEF SyncDir, Rest
    <3> QED BY <1>14, <3>1, ReturnType DEF SyncDir, TypeOK
  <2> QED BY <2>1, <2>2, <2>3
<1>15. ASSUME NEW h \in Handle, Close(h) PROVE TypeOK'
  <2>1. pc' \in [Handle -> Steps \cup Rest]
    BY <1>15, GotoType DEF Close, Steps
  <2> QED BY <1>15, <2>1 DEF Close, TypeOK
<1>16. ASSUME NEW h \in Handle, IoError(h) PROVE TypeOK'
  BY <1>16, FailType DEF IoError, TypeOK
<1>17. ASSUME NEW h \in Handle, Forget(h) PROVE TypeOK'
  <2>1. Return(h, "idle") /\ "idle" \in Rest
    BY <1>17 DEF Forget, Rest
  <2> QED BY <1>17, <2>1, ReturnType DEF Forget, TypeOK
<1>18. ASSUME NEW h \in Handle, Crash(h) PROVE TypeOK'
  <2>1. Return(h, "dead") /\ "dead" \in Rest
    BY <1>18 DEF Crash, Rest
  <2>2. fd' \in [Handle -> Path \cup {NoFd}]
    BY <1>18 DEF Crash, TypeOK
  <2> QED BY <1>18, <2>1, <2>2, ReturnType DEF Crash, TypeOK
<1>19. CASE ExternalEdit
  <2>1. PICK c \in User \cup {Absent}, l \in LinkKinds :
           /\ file' = [file EXCEPT !["conf"] = c]
           /\ link' = l
           /\ user' = c
    BY <1>19 DEF ExternalEdit
  <2>2. l \in Links
    BY RegimeAssumption
  <2>3. file' \in [Path -> Content \cup {Absent}]
    BY <2>1 DEF TypeOK, Content
  <2>4. fd' \in [Handle -> Path \cup {NoFd}]
    <3>1. "conf" \in Path
      BY DEF Path
    <3> QED BY <1>19, <3>1, FdsType DEF ExternalEdit, TypeOK
  <2>5. user' \in User \cup {Absent}
    BY <2>1, <2>2
  <2> QED BY <1>19, <2>1, <2>2, <2>3, <2>4, <2>5 DEF ExternalEdit, TypeOK
<1>20. CASE UNCHANGED vars
  BY <1>20 DEF vars, TypeOK
<1> QED
  BY <1>1, <1>2, <1>3, <1>4, <1>5, <1>6, <1>7, <1>8, <1>9, <1>10, <1>11, <1>12,
     <1>13, <1>14, <1>15, <1>16, <1>17, <1>18, <1>19, <1>20 DEF Next, Step

(* A slot in a call or with a handle may move on with its configuration. *)
LEMMA ConfiguredGoto ==
  ASSUME TypeOK, Configured, NEW h \in Handle, InCall(h) \/ pc[h] = "live",
         NEW l \in Steps \cup Rest, Goto(h, l), cfg' = cfg
  PROVE  Configured'
BY DEF TypeOK, Configured, InCall, Goto

(* A call may return, as long as only a call or a handle leaves a handle. *)
LEMMA ConfiguredReturn ==
  ASSUME TypeOK, Configured, NEW h \in Handle, NEW l \in Rest, Return(h, l),
         InCall(h) \/ pc[h] = "live"
  PROVE  Configured'
<1>1. CASE l = "live"
  <2>1. cfg' = cfg /\ Goto(h, l)
    BY <1>1 DEF Return
  <2> QED BY <2>1, ConfiguredGoto
<1>2. CASE l # "live"
  <2>1. /\ pc' = [pc EXCEPT ![h] = l] /\ l \notin Steps
        /\ cfg' = [cfg EXCEPT ![h] = None]
    BY <1>2 DEF Return, Goto, Rest, Steps
  <2> QED BY <1>2, <2>1 DEF TypeOK, Configured, InCall
<1> QED BY <1>1, <1>2

(* Every step keeps a configuration with each call and each handle. *)
LEMMA ConfiguredStep == TypeOK /\ Configured /\ [Next]_vars => Configured'
<1> SUFFICES ASSUME TypeOK, Configured, [Next]_vars PROVE Configured'
  OBVIOUS
<1>1. ASSUME NEW h \in Handle, Apply(h) PROVE Configured'
  <2>1. PICK o \in OwnersOf[h], s \in Server :
           cfg' = [cfg EXCEPT ![h] = [owner |-> o, servers |-> s]]
    BY <1>1 DEF Apply
  <2>2. [owner |-> o, servers |-> s] \in Managed
    BY RegimeAssumption DEF Managed
  <2> QED BY <1>1, <2>1, <2>2 DEF Apply, Goto, TypeOK, Configured, InCall
<1>2. ASSUME NEW h \in Handle, Step(h) PROVE Configured'
  <2>1. InCall(h)
    BY <1>2 DEF Step, InCall, Steps, ProbeLink, ProbeStub, CleanupResidual, CloseReads,
       RequireBackup, CheckStale, CopyOpen, TempOpen, Write, Fsync, Rename, Remove, SyncDir
  <2>2. \/ Return(h, "idle") \/ Return(h, "live")
        \/ cfg' = cfg /\ \E l \in Steps \cup Rest : Goto(h, l)
    <3>1. CASE Fsync(h)
      <4>1. CASE Fail(h)
        BY <4>1 DEF Fail
      <4>2. CASE ~Fail(h)
        BY <3>1, <4>2 DEF Fsync, Goto, Steps
      <4> QED BY <4>1, <4>2
    <3>2. CASE SyncDir(h)
      BY <3>2 DEF SyncDir, Goto, Steps
    <3>3. CASE ~Fsync(h) /\ ~SyncDir(h)
      BY <1>2, <3>3 DEF Step, Steps, Fail, ProbeLink, ProbeStub, CleanupResidual, CloseReads,
         RequireBackup, CheckStale, CopyOpen, TempOpen, Write, Rename, Remove
    <3> QED BY <3>1, <3>2, <3>3
  <2> QED BY <2>1, <2>2, ConfiguredReturn, ConfiguredGoto DEF Rest
<1>3. ASSUME NEW h \in Handle, Close(h) PROVE Configured'
  BY <1>3, ConfiguredGoto DEF Close, Steps
<1>4. ASSUME NEW h \in Handle, IoError(h) \/ Forget(h) \/ Crash(h) PROVE Configured'
  BY <1>4, ConfiguredReturn DEF IoError, Forget, Crash, Fail, Rest
<1>5. CASE ExternalEdit \/ UNCHANGED vars
  BY <1>5 DEF ExternalEdit, vars, Configured, InCall
<1> QED BY <1>1, <1>2, <1>3, <1>4, <1>5 DEF Next

(* Initially no slot is in a call. *)
LEMMA ConfiguredInit == Init => Configured
BY DEF Init, Configured, InCall, Steps

(* The variables of the backend and of its calls keep their types, for any  *)
(* overlap of calls, any mishap and any edit of others.                     *)
THEOREM TypeCorrect == Spec => []TypeOK
<1>1. TypeOK /\ Configured /\ [Next]_vars => (TypeOK /\ Configured)'
  BY TypeStep, ConfiguredStep
<1> QED BY TypeInit, ConfiguredInit, <1>1, PTL DEF Spec

-----------------------------------------------------------------------------
(* A slot that is in no call is in no file move either. *)
LEMMA RestHasNoMove ==
  ASSUME TypeOK, Moves, NEW k \in Handle, ~InCall(k)
  PROVE  job[k] = "none"
<1>1. pc[k] \in Rest
  BY DEF TypeOK, InCall
<1>2. job[k] \in Jobs
  BY DEF TypeOK
<1>3. Move(k)
  BY DEF Moves
<1>4. job[k] # "backup"
  BY <1>1, <1>3 DEF Move, BackupMove, Rest
<1>5. job[k] # "temp"
  BY <1>1, <1>3 DEF Move, TempMove, Rest
<1>6. job[k] # "install"
  BY <1>1, <1>3 DEF Move, InstallMove, Rest
<1>7. job[k] \notin {"reclaim", "restore"}
  BY <1>1, <1>3 DEF Move, RestoreMove, Rest
<1> QED BY <1>2, <1>4, <1>5, <1>6, <1>7 DEF Jobs

(* The part of the invariant about slots holds after a step of slot h if    *)
(* it holds of h and no other slot was in a call or changed.                *)
LEMMA Frame ==
  ASSUME TypeOK, Moves, Descriptors, NEW h \in Handle,
         \A k \in Handle \ {h} : /\ ~InCall(k) /\ pc'[k] = pc[k]
                                 /\ job'[k] = job[k] /\ fd'[k] = fd[k],
         Move(h)', pc'[h] # "write" => fd'[h] = NoFd
  PROVE  OneCall' /\ Descriptors' /\ Moves'
<1>1. OneCall'
  BY DEF OneCall, InCall
<1>2. Descriptors'
  BY DEF Descriptors
<1>3. ASSUME NEW k \in Handle \ {h} PROVE Move(k)'
  <2>1. job[k] = "none" /\ pc[k] \in Rest
    BY RestHasNoMove DEF TypeOK, InCall
  <2>2. job'[k] = "none" /\ pc'[k] \in Rest
    BY <2>1
  <2> QED BY <2>2 DEF Move, NoMove, BackupMove, TempMove, InstallMove, RestoreMove
<1>4. Moves'
  BY <1>3 DEF Moves
<1> QED BY <1>1, <1>2, <1>4

(* While calls do not overlap, a slot in a call is the only one. *)
LEMMA Alone ==
  ASSUME OneCall, NEW h \in Handle, InCall(h)
  PROVE  \A k \in Handle \ {h} : ~InCall(k)
BY DEF OneCall

(* The part of the invariant that the steps below have to show. *)
SafetyInv == Kept /\ OneCall /\ Descriptors /\ Moves

(* A return, with an answer or an error, ends the file move of its slot. *)
LEMMA ReturnSafe ==
  ASSUME TypeOK, SafetyInv, NEW h \in Handle, NEW l \in Rest, Return(h, l),
         \A k \in Handle \ {h} : ~InCall(k),
         (fd' = fd /\ pc[h] # "write") \/ fd' = [fd EXCEPT ![h] = NoFd],
         file' = file, user' = user
  PROVE  SafetyInv'
<1>1. /\ pc' = [pc EXCEPT ![h] = l] /\ job' = [job EXCEPT ![h] = "none"]
      /\ pc[h] \in Steps \cup Rest
  BY DEF Return, Goto, TypeOK
<1>2. pc'[h] \in Rest /\ job'[h] = "none"
  BY <1>1 DEF TypeOK
<1>3. Move(h)'
  BY <1>2 DEF Move, NoMove, BackupMove, TempMove, InstallMove, RestoreMove
<1>4. fd'[h] = NoFd
  BY DEF TypeOK, SafetyInv, Descriptors
<1>5. \A k \in Handle \ {h} : /\ ~InCall(k) /\ pc'[k] = pc[k]
                              /\ job'[k] = job[k] /\ fd'[k] = fd[k]
  BY <1>1 DEF TypeOK
<1>6. OneCall' /\ Descriptors' /\ Moves'
  BY <1>3, <1>4, <1>5, Frame DEF SafetyInv
<1> QED BY <1>6 DEF SafetyInv, Kept, InForce, Saved

(* A call that fails leaves the files as they are. *)
LEMMA FailSafe ==
  ASSUME TypeOK, SafetyInv, NEW h \in Handle, InCall(h), Fail(h),
         file' = file, user' = user
  PROVE  SafetyInv'
BY Alone, ReturnSafe DEF Fail, Rest, SafetyInv

(* A step of a call that only moves its slot on: it is enough to show what  *)
(* the file move of the slot knows afterwards.                              *)
LEMMA GotoSafe ==
  ASSUME TypeOK, SafetyInv, NEW h \in Handle, \A k \in Handle \ {h} : ~InCall(k),
         NEW l \in Steps \cup Rest, Goto(h, l),
         \A k \in Handle \ {h} : job'[k] = job[k] /\ fd'[k] = fd[k],
         l # "write" => fd'[h] = NoFd,
         Kept', Move(h)'
  PROVE  SafetyInv'
<1>1. pc' = [pc EXCEPT ![h] = l]
  BY DEF Goto
<1>2. pc'[h] = l /\ \A k \in Handle \ {h} : pc'[k] = pc[k]
  BY <1>1 DEF TypeOK
<1>3. OneCall' /\ Descriptors' /\ Moves'
  BY <1>2, Frame DEF SafetyInv
<1> QED BY <1>3 DEF SafetyInv

(* The steps that only look: they start no file move, or one on a condition *)
(* that its first step relies on.                                           *)
LEMMA LookingSafe ==
  ASSUME TypeOK, Configured, SafetyInv, NEW h \in Handle,
         \/ ProbeLink(h) \/ ProbeStub(h) \/ CleanupResidual(h)
         \/ CloseReads(h) \/ RequireBackup(h) \/ CheckStale(h)
  PROVE  SafetyInv'
<1> USE DEF fileVars, history, Happens
<1>1. InCall(h) /\ (\A k \in Handle \ {h} : ~InCall(k)) /\ Move(h) /\ fd[h] = NoFd
  BY Alone DEF InCall, Steps, SafetyInv, Moves, Descriptors, ProbeLink, ProbeStub,
     CleanupResidual, CloseReads, RequireBackup, CheckStale
<1>2. file' = file /\ user' = user /\ Kept /\ Kept'
  BY DEF ProbeLink, ProbeStub, CleanupResidual, CloseReads, RequireBackup, CheckStale,
     SafetyInv, Kept, InForce, Saved
<1>3. CASE Fail(h)
  BY <1>1, <1>2, <1>3, FailSafe
<1>4. ASSUME NEW l \in {"probe_stub", "cleanup_residual", "check_stale"}, Goto(h, l),
             pc[h] \in {"probe_link", "probe_stub", "cleanup_residual"},
             UNCHANGED <<job, cfg, fd, buf>>
      PROVE  SafetyInv'
  <2>1. job[h] = "none"
    BY <1>1, <1>4 DEF Move, TypeOK, Jobs, BackupMove, TempMove, InstallMove, RestoreMove
  <2>2. Move(h)'
    BY <1>4, <2>1
    DEF Goto, TypeOK, Move, NoMove, BackupMove, TempMove, InstallMove, RestoreMove
  <2> QED BY <1>1, <1>2, <1>4, <2>2, GotoSafe DEF Steps
<1>5. ASSUME NEW j \in {"reclaim", "restore"}, job' = [job EXCEPT ![h] = j],
             OwnedBy(file["conf"], cfg[h].owner), Goto(h, "require_backup"),
             UNCHANGED <<cfg, fd, buf>>
      PROVE  SafetyInv'
  <2>1. Saved
    BY <1>2, <1>5, ContentAssumption DEF Kept, InForce, OwnedBy, TypeOK
  <2>2. pc'[h] = "require_backup" /\ job'[h] = j
    BY <1>5 DEF Goto, TypeOK
  <2>3. Move(h)'
    BY <1>2, <1>5, <2>1, <2>2
    DEF Move, NoMove, BackupMove, TempMove, InstallMove, RestoreMove, Saved
  <2> QED BY <1>1, <1>2, <1>5, <2>3, GotoSafe DEF Steps
<1>6. CASE RequireBackup(h) /\ ~Fail(h)
  <2>1. Goto(h, "rename") /\ UNCHANGED <<job, cfg, fd, buf>> /\ pc[h] = "require_backup"
    BY <1>6 DEF RequireBackup
  <2>2. job[h] \in {"reclaim", "restore"}
    BY <1>1, <2>1
    DEF Move, TypeOK, Jobs, Rest, NoMove, BackupMove, TempMove, InstallMove
  <2>3. pc'[h] = "rename"
    BY <2>1 DEF Goto, TypeOK
  <2>4. Move(h)'
    BY <1>1, <1>2, <2>1, <2>2, <2>3
    DEF Move, NoMove, BackupMove, TempMove, InstallMove, RestoreMove, Saved
  <2> QED BY <1>1, <1>2, <2>1, <2>4, GotoSafe DEF Steps
<1>7. CASE CheckStale(h) /\ ~Fail(h)
  <2>1. /\ file["bak"] = Absent /\ job' = [job EXCEPT ![h] = "backup"]
        /\ Goto(h, "copy_open") /\ UNCHANGED <<cfg, fd, buf>>
    BY <1>7 DEF CheckStale
  <2>2. InForce
    BY <1>2, <2>1 DEF Kept, Saved
  <2>3. pc'[h] = "copy_open" /\ job'[h] = "backup"
    BY <2>1 DEF Goto, TypeOK
  <2>4. Move(h)'
    BY <1>2, <2>1, <2>2, <2>3
    DEF Move, NoMove, BackupMove, TempMove, InstallMove, RestoreMove, InForce
  <2> QED BY <1>1, <1>2, <2>1, <2>4, GotoSafe DEF Steps
<1>8. CASE ProbeLink(h) \/ ProbeStub(h)
  BY <1>3, <1>4, <1>8 DEF ProbeLink, ProbeStub
<1>9. CASE CleanupResidual(h)
  BY <1>4, <1>5, <1>9 DEF CleanupResidual
<1>10. CASE CloseReads(h)
  BY <1>3, <1>5, <1>10 DEF CloseReads
<1> QED BY <1>3, <1>6, <1>7, <1>8, <1>9, <1>10

(* What the steps that write may assume of their slot. *)
LEMMA InMove ==
  ASSUME TypeOK, SafetyInv, NEW h \in Handle,
         pc[h] \in {"copy_open", "temp_open", "write", "fsync", "rename", "remove", "sync_dir"}
  PROVE  /\ InCall(h) /\ \A k \in Handle \ {h} : ~InCall(k)
         /\ Move(h) /\ Kept
         /\ pc[h] # "write" => \A k \in Handle : fd[k] = NoFd
         /\ job[h] \in {"backup", "temp", "install", "reclaim", "restore"}
<1>1. InCall(h) /\ \A k \in Handle \ {h} : ~InCall(k)
  BY Alone DEF InCall, Steps, SafetyInv
<1>2. Move(h) /\ Kept
  BY DEF SafetyInv, Moves
<1>3. \A k \in Handle \ {h} : pc[k] # "write"
  BY <1>1 DEF InCall, Steps
<1>4. pc[h] # "write" => \A k \in Handle : fd[k] = NoFd
  BY <1>3 DEF SafetyInv, Descriptors
<1>5. job[h] # "none"
  BY <1>2 DEF Move, NoMove, Rest
<1> QED BY <1>1, <1>2, <1>4, <1>5 DEF TypeOK, Jobs

(* Creating BACKUP spares RESOLV_CONF; truncating RESOLV_CONF spares BACKUP. *)
LEMMA CopyOpenSafe ==
  ASSUME TypeOK, Configured, SafetyInv, NEW h \in Handle, CopyOpen(h)
  PROVE  SafetyInv'
<1>1. /\ pc[h] = "copy_open" /\ InCall(h) /\ \A k \in Handle \ {h} : ~InCall(k)
      /\ Move(h) /\ Kept /\ user' = user
      /\ job[h] \in {"backup", "install", "reclaim", "restore"}
  BY InMove DEF CopyOpen, Move, TempMove, history
<1>2. CASE file[From(job[h])] = Absent
  BY <1>1, <1>2, FailSafe DEF CopyOpen
<1>3. CASE file[From(job[h])] # Absent
  <2>1. /\ file' = [file EXCEPT ![To(job[h])] = Torn]
        /\ fd' = [fd EXCEPT ![h] = To(job[h])]
        /\ buf' = [buf EXCEPT ![h] = file[From(job[h])]]
        /\ Goto(h, "write") /\ job' = job /\ cfg' = cfg
    BY <1>3 DEF CopyOpen
  <2>2. /\ pc'[h] = "write" /\ fd'[h] = To(job[h]) /\ buf'[h] = file[From(job[h])]
        /\ \A k \in Handle \ {h} : job'[k] = job[k] /\ fd'[k] = fd[k]
    BY <2>1 DEF Goto, TypeOK
  <2>3. CASE job[h] = "backup"
    <3>1. file'["conf"] = file["conf"] /\ fd'[h] = "bak" /\ buf'[h] = file["conf"]
      BY <2>1, <2>2, <2>3 DEF From, To, TypeOK
    <3>2. Kept' /\ Move(h)'
      BY <1>1, <1>3, <2>1, <2>2, <2>3, <3>1
      DEF From, Kept, InForce, Move, NoMove, BackupMove, TempMove, InstallMove, RestoreMove
    <3> QED BY <1>1, <2>1, <2>2, <3>2, GotoSafe DEF Steps
  <2>4. CASE job[h] = "install"
    <3>1. /\ file'["bak"] = file["bak"] /\ fd'[h] = "conf" /\ buf'[h] = file["tmp"]
      BY <2>1, <2>2, <2>4 DEF From, To, TypeOK
    <3>2. Kept' /\ Move(h)'
      BY <1>1, <2>1, <2>2, <2>4, <3>1
      DEF Kept, Saved, Move, NoMove, BackupMove, TempMove, InstallMove, RestoreMove
    <3> QED BY <1>1, <2>1, <2>2, <3>2, GotoSafe DEF Steps
  <2>5. CASE job[h] \in {"reclaim", "restore"}
    <3>1. /\ file'["bak"] = file["bak"] /\ fd'[h] = "conf" /\ buf'[h] = file["bak"]
      BY <2>1, <2>2, <2>5 DEF From, To, TypeOK
    <3>2. Kept' /\ Move(h)'
      BY <1>1, <2>1, <2>2, <2>5, <3>1
      DEF Kept, Saved, Move, NoMove, BackupMove, TempMove, InstallMove, RestoreMove
    <3> QED BY <1>1, <2>1, <2>2, <3>2, GotoSafe DEF Steps
  <2> QED BY <1>1, <2>3, <2>4, <2>5
<1> QED BY <1>2, <1>3

(* TEMP is nobody's configuration. *)
LEMMA TempOpenSafe ==
  ASSUME TypeOK, Configured, SafetyInv, NEW h \in Handle, TempOpen(h)
  PROVE  SafetyInv'
<1>1. /\ pc[h] = "temp_open" /\ \A k \in Handle \ {h} : ~InCall(k)
      /\ Move(h) /\ Kept /\ job[h] = "temp"
  BY InMove DEF TempOpen, Move, BackupMove, InstallMove, RestoreMove
<1>2. /\ pc'[h] = "write" /\ fd'[h] = "tmp" /\ buf'[h] = cfg[h]
      /\ \A k \in Handle \ {h} : job'[k] = job[k] /\ fd'[k] = fd[k]
      /\ file'["conf"] = file["conf"] /\ file'["bak"] = file["bak"]
      /\ job' = job /\ cfg' = cfg /\ user' = user /\ Goto(h, "write")
  BY DEF TempOpen, Goto, TypeOK, history
<1>3. Kept' /\ Move(h)'
  BY <1>1, <1>2
  DEF Kept, InForce, Saved, Move, NoMove, BackupMove, TempMove, InstallMove, RestoreMove
<1> QED BY <1>1, <1>2, <1>3, GotoSafe DEF Steps

(* What is written completes the copy the next steps rely on. *)
LEMMA WriteSafe ==
  ASSUME TypeOK, Configured, SafetyInv, NEW h \in Handle, Write(h)
  PROVE  SafetyInv'
<1>1. /\ pc[h] = "write" /\ Move(h) /\ Kept
      /\ \A k \in Handle \ {h} : ~InCall(k)
      /\ job[h] \in {"backup", "temp", "install", "reclaim", "restore"}
  BY InMove DEF Write
<1>2. /\ fd[h] \in {"bak", "tmp", "conf"}
  BY <1>1 DEF Move, BackupMove, TempMove, InstallMove, RestoreMove
<1>3. /\ pc'[h] = "fsync" /\ fd'[h] = NoFd
      /\ \A k \in Handle \ {h} : job'[k] = job[k] /\ fd'[k] = fd[k]
      /\ file' = [file EXCEPT ![fd[h]] = buf[h]]
      /\ job' = job /\ cfg' = cfg /\ user' = user /\ Goto(h, "fsync")
  BY <1>2 DEF Write, Goto, TypeOK, NoFd, history
<1>4. /\ fd[h] = "bak" => file'["bak"] = buf[h] /\ file'["conf"] = file["conf"]
      /\ fd[h] = "tmp" => /\ file'["tmp"] = buf[h] /\ file'["conf"] = file["conf"]
                          /\ file'["bak"] = file["bak"]
      /\ fd[h] = "conf" => file'["conf"] = buf[h] /\ file'["bak"] = file["bak"]
  BY <1>3 DEF TypeOK, Path
<1>5. Kept' /\ Move(h)'
  <2>1. CASE job[h] = "backup"
    BY <1>1, <1>3, <1>4, <2>1
    DEF Kept, InForce, Saved, Move, NoMove, BackupMove, TempMove, InstallMove, RestoreMove
  <2>2. CASE job[h] = "temp"
    BY <1>1, <1>3, <1>4, <2>2
    DEF Kept, InForce, Saved, Move, NoMove, BackupMove, TempMove, InstallMove, RestoreMove
  <2>3. CASE job[h] = "install"
    BY <1>1, <1>3, <1>4, <2>3
    DEF Kept, InForce, Saved, Move, NoMove, BackupMove, TempMove, InstallMove, RestoreMove
  <2>4. CASE job[h] \in {"reclaim", "restore"}
    BY <1>1, <1>3, <1>4, <2>4
    DEF Kept, InForce, Saved, Move, NoMove, BackupMove, TempMove, InstallMove, RestoreMove
  <2> QED BY <1>1, <2>1, <2>2, <2>3, <2>4
<1> QED BY <1>1, <1>3, <1>5, GotoSafe DEF Steps

(* One file move hands over to the next. *)
LEMMA FsyncSafe ==
  ASSUME TypeOK, Configured, SafetyInv, NEW h \in Handle, Fsync(h)
  PROVE  SafetyInv'
<1> USE DEF fileVars, history, Happens
<1>1. /\ pc[h] = "fsync" /\ InCall(h) /\ \A k \in Handle \ {h} : ~InCall(k)
      /\ Move(h) /\ Kept /\ fd[h] = NoFd /\ file' = file /\ user' = user
      /\ job[h] \in {"backup", "temp", "install", "reclaim", "restore"}
  BY InMove DEF Fsync
<1>2. CASE Fail(h)
  BY <1>1, <1>2, FailSafe
<1>3. CASE ~Fail(h)
  <2> DEFINE l == CASE job[h] = "backup" -> "temp_open"
                    [] job[h] = "temp"   -> "rename"
                    [] OTHER             -> "remove"
             j == CASE job[h] = "backup" -> "temp"
                    [] job[h] = "temp"   -> "install"
                    [] OTHER             -> job[h]
  <2>1. /\ Goto(h, l) /\ job' = [job EXCEPT ![h] = j] /\ UNCHANGED <<cfg, fd, buf>>
    BY <1>3 DEF Fsync, Goto
  <2>2. pc'[h] = l /\ job'[h] = j /\ \A k \in Handle \ {h} : job'[k] = job[k]
    BY <2>1 DEF Goto, TypeOK
  <2>3. Kept' /\ Move(h)'
    <3>1. CASE job[h] = "backup"
      BY <1>1, <2>1, <2>2, <3>1
      DEF Kept, InForce, Saved, Move, NoMove, BackupMove, TempMove, InstallMove, RestoreMove
    <3>2. CASE job[h] = "temp"
      BY <1>1, <2>1, <2>2, <3>2
      DEF Kept, InForce, Saved, Move, NoMove, BackupMove, TempMove, InstallMove, RestoreMove
    <3>3. CASE job[h] = "install"
      BY <1>1, <2>1, <2>2, <3>3
      DEF Kept, InForce, Saved, Move, NoMove, BackupMove, TempMove, InstallMove, RestoreMove
    <3>4. CASE job[h] \in {"reclaim", "restore"}
      BY <1>1, <2>1, <2>2, <3>4
      DEF Kept, InForce, Saved, Move, NoMove, BackupMove, TempMove, InstallMove, RestoreMove
    <3> QED BY <1>1, <3>1, <3>2, <3>3, <3>4
  <2>4. l \in Steps \cup Rest /\ l # "write"
    BY DEF Steps
  <2> QED BY <1>1, <2>1, <2>2, <2>3, <2>4, GotoSafe
<1> QED BY <1>2, <1>3

(* A rename replaces RESOLV_CONF while BACKUP is complete, or by BACKUP. *)
LEMMA RenameSafe ==
  ASSUME TypeOK, Configured, SafetyInv, NEW h \in Handle, Rename(h)
  PROVE  SafetyInv'
<1> DEFINE src == From(job[h])
<1>1. /\ pc[h] = "rename" /\ InCall(h) /\ \A k \in Handle \ {h} : ~InCall(k)
      /\ Move(h) /\ Kept /\ user' = user /\ \A k \in Handle : fd[k] = NoFd
      /\ job[h] \in {"install", "reclaim", "restore"}
  BY InMove DEF Rename, Move, BackupMove, TempMove, history
<1>2. CASE Fail(h) /\ UNCHANGED <<file, link>>
  BY <1>1, <1>2, FailSafe
<1>3. CASE Goto(h, "copy_open") /\ UNCHANGED <<file, link, job, cfg, fd, buf>>
  <2>1. pc'[h] = "copy_open"
    BY <1>3 DEF Goto, TypeOK
  <2>2. Kept' /\ Move(h)'
    BY <1>1, <1>3, <2>1
    DEF Kept, InForce, Saved, Move, NoMove, BackupMove, TempMove, InstallMove, RestoreMove
  <2> QED BY <1>1, <1>3, <2>2, GotoSafe DEF Steps
<1>4. CASE /\ file' = [file EXCEPT !["conf"] = file[src], ![src] = Absent]
           /\ fd' = FdsAfterRename(src, "conf")
           /\ Goto(h, "sync_dir")
           /\ UNCHANGED <<job, cfg, buf>>
  <2>1. pc'[h] = "sync_dir" /\ job'[h] = job[h]
    BY <1>4 DEF Goto, TypeOK
  <2>2. \A k \in Handle : fd'[k] = NoFd
    BY <1>1, <1>4 DEF FdsAfterRename, FdsAfterUnlink, From, NoFd
  <2>3. Kept' /\ Move(h)'
    <3>1. CASE job[h] = "install"
      <4>1. file'["bak"] = file["bak"]
        BY <1>4, <3>1 DEF From, TypeOK, Path
      <4> QED
        BY <1>1, <1>4, <2>1, <3>1, <4>1
        DEF Kept, InForce, Saved, Move, NoMove, BackupMove, TempMove, InstallMove, RestoreMove
    <3>2. CASE job[h] \in {"reclaim", "restore"}
      <4>1. file'["conf"] = file["bak"] /\ file'["bak"] = Absent
        BY <1>4, <3>2 DEF From, TypeOK, Path
      <4> QED
        BY <1>1, <1>4, <2>1, <3>2, <4>1
        DEF Kept, InForce, Saved, Move, NoMove, BackupMove, TempMove, InstallMove, RestoreMove
    <3> QED BY <1>1, <3>1, <3>2
  <2> QED BY <1>1, <1>4, <2>2, <2>3, GotoSafe DEF Steps
<1> QED BY <1>2, <1>3, <1>4 DEF Rename

(* The fallback removes BACKUP only once RESOLV_CONF equals it. *)
LEMMA RemoveSafe ==
  ASSUME TypeOK, Configured, SafetyInv, NEW h \in Handle, Remove(h)
  PROVE  SafetyInv'
<1> DEFINE src == From(job[h])
<1>1. /\ pc[h] = "remove" /\ InCall(h) /\ \A k \in Handle \ {h} : ~InCall(k)
      /\ Move(h) /\ Kept /\ user' = user /\ \A k \in Handle : fd[k] = NoFd
      /\ job[h] \in {"install", "reclaim", "restore"}
  BY InMove DEF Remove, Move, BackupMove, TempMove, history
<1>2. CASE file[src] = Absent
  BY <1>1, <1>2, FailSafe DEF Remove
<1>3. CASE file[src] # Absent
  <2>1. /\ file' = [file EXCEPT ![src] = Absent] /\ fd' = FdsAfterUnlink(src)
        /\ Goto(h, "sync_dir") /\ UNCHANGED <<job, cfg, buf>>
    BY <1>3 DEF Remove
  <2>2. pc'[h] = "sync_dir"
    BY <2>1 DEF Goto, TypeOK
  <2>3. \A k \in Handle : fd'[k] = NoFd
    BY <1>1, <2>1 DEF FdsAfterUnlink
  <2>4. Kept' /\ Move(h)'
    <3>1. CASE job[h] = "install"
      <4>1. file'["bak"] = file["bak"]
        BY <2>1, <3>1 DEF From, TypeOK
      <4> QED
        BY <1>1, <2>1, <2>2, <3>1, <4>1
        DEF Kept, InForce, Saved, Move, NoMove, BackupMove, TempMove, InstallMove, RestoreMove
    <3>2. CASE job[h] \in {"reclaim", "restore"}
      <4>1. file'["conf"] = file["conf"] /\ file'["bak"] = Absent
        BY <2>1, <3>2 DEF From, TypeOK, Path
      <4> QED
        BY <1>1, <2>1, <2>2, <3>2, <4>1
        DEF Kept, InForce, Saved, Move, NoMove, BackupMove, TempMove, InstallMove, RestoreMove
    <3> QED BY <1>1, <3>1, <3>2
  <2> QED BY <1>1, <2>1, <2>3, <2>4, GotoSafe DEF Steps
<1> QED BY <1>2, <1>3

(* The last step of a file move changes no file. *)
LEMMA SyncDirSafe ==
  ASSUME TypeOK, Configured, SafetyInv, NEW h \in Handle, SyncDir(h)
  PROVE  SafetyInv'
<1> USE DEF fileVars, history, Happens
<1>1. /\ pc[h] = "sync_dir" /\ \A k \in Handle \ {h} : ~InCall(k)
      /\ Move(h) /\ Kept /\ fd[h] = NoFd /\ file' = file /\ user' = user /\ fd' = fd
  BY InMove DEF SyncDir
<1>2. CASE job[h] = "reclaim"
  <2>1. job' = [job EXCEPT ![h] = "none"] /\ Goto(h, "check_stale")
    BY <1>2 DEF SyncDir
  <2>2. /\ pc'[h] = "check_stale" /\ job'[h] = "none"
        /\ \A k \in Handle \ {h} : job'[k] = job[k]
    BY <2>1 DEF Goto, TypeOK
  <2>3. Kept' /\ Move(h)'
    BY <1>1, <2>2
    DEF Kept, InForce, Saved, Move, NoMove, BackupMove, TempMove, InstallMove, RestoreMove
  <2> QED BY <1>1, <2>1, <2>2, <2>3, GotoSafe DEF Steps
<1>3. CASE job[h] # "reclaim"
  BY <1>1, <1>3, ReturnSafe DEF SyncDir, Rest
<1> QED BY <1>2, <1>3

(* apply and close start in a slot at rest while no call is running. *)
LEMMA StartSafe ==
  ASSUME Serial, TypeOK, Configured, SafetyInv, NEW h \in Handle, Apply(h) \/ Close(h)
  PROVE  SafetyInv'
<1> USE DEF fileVars, history, Happens
<1>1. \A k \in Handle : ~InCall(k)
  BY DEF Serial, Apply, MayApply, Close, MayClose
<1>2. PICK l \in {"probe_link", "closing"} : Goto(h, l)
  BY DEF Apply, Close
<1>3. /\ job[h] = "none" /\ fd[h] = NoFd /\ pc'[h] = l
      /\ UNCHANGED <<file, user, job, fd>>
  BY <1>1, <1>2, RestHasNoMove
  DEF Apply, Close, SafetyInv, Descriptors, Goto, TypeOK, InCall, Steps
<1>4. Kept' /\ Move(h)'
  BY <1>3
  DEF SafetyInv, Kept, InForce, Saved, Move, NoMove, BackupMove, TempMove, InstallMove,
      RestoreMove
<1> QED BY <1>1, <1>2, <1>3, <1>4, GotoSafe DEF Steps

(* Errors and crashes touch no file, and a handle is forgotten beside       *)
(* another slot's call without touching what that call relies on.           *)
LEMMA MishapSafe ==
  ASSUME TypeOK, Configured, SafetyInv, NEW h \in Handle,
         IoError(h) \/ Forget(h) \/ Crash(h)
  PROVE  SafetyInv'
<1> USE DEF fileVars, history, Happens
<1>1. CASE IoError(h)
  BY <1>1, FailSafe DEF IoError
<1>2. CASE Crash(h)
  BY <1>2, Alone, ReturnSafe DEF Crash, SafetyInv, Rest
<1>3. CASE Forget(h)
  <2>1. /\ pc[h] = "live" /\ pc' = [pc EXCEPT ![h] = "idle"]
        /\ job' = [job EXCEPT ![h] = "none"] /\ buf' = [buf EXCEPT ![h] = Absent]
        /\ cfg' = [cfg EXCEPT ![h] = None] /\ UNCHANGED <<file, user, fd>>
    BY <1>3 DEF Forget, Return, Goto
  <2>2. job[h] = "none" /\ ~InCall(h)
    BY <2>1, RestHasNoMove DEF SafetyInv, InCall, Steps
  <2>3. pc'[h] = "idle" /\ job'[h] = "none"
    BY <2>1 DEF TypeOK
  <2>4. \A k \in Handle \ {h} : /\ pc'[k] = pc[k] /\ job'[k] = job[k]
                                /\ buf'[k] = buf[k] /\ cfg'[k] = cfg[k]
    BY <2>1 DEF TypeOK
  <2>5. OneCall' /\ Descriptors' /\ Kept'
    BY <2>1, <2>2, <2>3, <2>4
    DEF SafetyInv, OneCall, Descriptors, InCall, Steps, Kept, InForce, Saved
  <2>6. Move(h)'
    BY <2>3 DEF Move, NoMove, BackupMove, TempMove, InstallMove, RestoreMove, Rest
  <2>7. ASSUME NEW k \in Handle \ {h} PROVE Move(k)'
    <3>1. Move(k)
      BY DEF SafetyInv, Moves
    <3> QED BY <2>1, <2>4, <3>1
        DEF Move, NoMove, BackupMove, TempMove, InstallMove, RestoreMove, InForce, Saved
  <2> QED BY <2>5, <2>6, <2>7 DEF SafetyInv, Moves
<1> QED BY <1>1, <1>2, <1>3

(* Others install a configuration while no call relies on the old one. *)
LEMMA EditSafe ==
  ASSUME Serial, TypeOK, Configured, SafetyInv, ExternalEdit
  PROVE  SafetyInv'
<1>1. \A k \in Handle : ~InCall(k) /\ fd[k] = NoFd
  BY RegimeAssumption DEF Serial, ExternalEdit, SafetyInv, Descriptors, InCall, Steps
<1>2. PICK c \in User \cup {Absent}, l \in LinkKinds :
         /\ file' = [file EXCEPT !["conf"] = c]
         /\ user' = c
  BY DEF ExternalEdit
<1>3. Kept'
  BY <1>2 DEF Kept, InForce, TypeOK, Path
<1>4. UNCHANGED <<pc, job, cfg, buf>>
  BY DEF ExternalEdit
<1>5. \A k \in Handle : fd'[k] = NoFd
  BY <1>1 DEF ExternalEdit, FdsAfterUnlink
<1>6. OneCall' /\ Descriptors'
  BY <1>1, <1>4, <1>5 DEF OneCall, InCall, Descriptors
<1>7. ASSUME NEW k \in Handle PROVE Move(k)'
  <2>1. job'[k] = "none" /\ pc'[k] \in Rest
    BY <1>1, <1>4, RestHasNoMove DEF SafetyInv, TypeOK, InCall
  <2> QED BY <2>1 DEF Move, NoMove, BackupMove, TempMove, InstallMove, RestoreMove
<1> QED BY <1>3, <1>6, <1>7 DEF SafetyInv, Moves

(* Every step keeps the invariant. *)
LEMMA SafetyStep ==
  ASSUME Serial
  PROVE  TypeOK /\ Configured /\ SafetyInv /\ [Next]_vars => SafetyInv'
<1> SUFFICES ASSUME TypeOK, Configured, SafetyInv, [Next]_vars PROVE SafetyInv'
  OBVIOUS
<1>1. ASSUME NEW h \in Handle, Apply(h) \/ Close(h) PROVE SafetyInv'
  BY <1>1, StartSafe
<1>2. ASSUME NEW h \in Handle, Step(h) PROVE SafetyInv'
  BY <1>2, LookingSafe, CopyOpenSafe, TempOpenSafe, WriteSafe, FsyncSafe, RenameSafe,
     RemoveSafe, SyncDirSafe DEF Step
<1>3. ASSUME NEW h \in Handle, IoError(h) \/ Forget(h) \/ Crash(h) PROVE SafetyInv'
  BY <1>3, MishapSafe
<1>4. CASE ExternalEdit
  BY <1>4, EditSafe
<1>5. CASE UNCHANGED vars
  BY <1>5 DEF vars, SafetyInv, Kept, InForce, Saved, OneCall, InCall, Descriptors, Moves,
     Move, NoMove, BackupMove, TempMove, InstallMove, RestoreMove
<1> QED BY <1>1, <1>2, <1>3, <1>4, <1>5 DEF Next

(* Initially resolv.conf is the user's and no slot is in a call. *)
LEMMA SafetyInit == Init => SafetyInv
<1> SUFFICES ASSUME Init PROVE SafetyInv
  OBVIOUS
<1>1. Kept
  BY DEF Init, Kept, InForce, Path
<1>2. OneCall /\ Descriptors
  BY DEF Init, OneCall, InCall, Steps, Descriptors
<1>3. Moves
  BY DEF Init, Moves, Move, NoMove, BackupMove, TempMove, InstallMove, RestoreMove, Rest
<1> QED BY <1>1, <1>2, <1>3 DEF SafetyInv

(* What each file move knows of the three files at each of its steps holds  *)
(* throughout: the inductive invariant of the serial regime.                *)
THEOREM SerialInvariant == ASSUME Serial PROVE Spec => []IInv
<1>1. Init => IInv
  BY TypeInit, ConfiguredInit, SafetyInit DEF IInv, SafetyInv
<1>2. IInv /\ [Next]_vars => IInv'
  BY TypeStep, ConfiguredStep, SafetyStep DEF IInv, SafetyInv
<1> QED BY <1>1, <1>2, PTL DEF Spec

(* The user's configuration survives every error, crash and forgotten       *)
(* handle: it is complete in RESOLV_CONF or in BACKUP at every instant.     *)
THEOREM SerialUserConfigKept == ASSUME Serial PROVE Spec => []UserConfigKept
<1>1. IInv => UserConfigKept
  BY DEF IInv, Kept, InForce, Saved, UserConfigKept
<1> QED BY <1>1, SerialInvariant, PTL

(* A close that returns Ok has put the user's configuration back and left   *)
(* no backup behind.                                                        *)
THEOREM SerialCloseRestores == ASSUME Serial PROVE Spec => CloseRestores
<1>1. IInv /\ [Next]_vars =>
        [\A h \in Handle : CloseReturnsOk(h)
           => file'["conf"] = user /\ file'["bak"] = Absent]_vars
  <2> SUFFICES ASSUME IInv, NEW h \in Handle, CloseReturnsOk(h)
               PROVE  file'["conf"] = user /\ file'["bak"] = Absent
    OBVIOUS
  <2>1. job[h] = "restore" /\ pc[h] = "sync_dir" /\ file' = file
    BY DEF CloseReturnsOk, SyncDir, fileVars, history
  <2> QED BY <2>1 DEF IInv, Moves, Move, RestoreMove, InForce
<1> QED BY <1>1, SerialInvariant, PTL DEF Spec, CloseRestores

-----------------------------------------------------------------------------
(* A step that touches neither RESOLV_CONF nor BACKUP is none of the log.   *)
LEMMA UndoStutter ==
  ASSUME file'["conf"] = file["conf"], file'["bak"] = file["bak"], user' = user
  PROVE  UNCHANGED Undo!vars
BY DEF Undo!vars

(* While RESOLV_CONF is the user's, BACKUP may become its copy, be spoilt   *)
(* or go: the Save of the undo log.                                         *)
LEMMA UndoSave ==
  ASSUME InForce, file'["conf"] = file["conf"], user' = user,
         file'["bak"] \in {user, Torn, Absent}
  PROVE  Undo!Next
<1>1. (IF file'["bak"] = Absent THEN None ELSE file'["bak"]) \in {user, Torn, None}
  OBVIOUS
<1>2. Undo!Save
  BY <1>1 DEF Undo!Save, InForce
<1> QED BY <1>2 DEF Undo!Next

(* While BACKUP is complete, RESOLV_CONF may be overwritten. *)
LEMMA UndoOverwrite ==
  ASSUME Saved, file'["bak"] = file["bak"], user' = user,
         file'["conf"] \in Managed \cup {user, Torn}
  PROVE  Undo!Next
BY DEF Undo!Next, Undo!Overwrite, Saved

(* Moving BACKUP over RESOLV_CONF is the Restore of the undo log. *)
LEMMA UndoRestore ==
  ASSUME Saved, file'["conf"] = file["bak"], file'["bak"] = Absent, user' = user
  PROVE  Undo!Next
BY DEF Undo!Next, Undo!Restore, Saved

(* Every system call of a slot is a step of the undo log or none, as long   *)
(* as the slot knows of the files what its file move relies on.             *)
LEMMA StepIsUndo ==
  ASSUME TypeOK, Configured, NEW h \in Handle, Step(h),
         pc[h] # "sync_dir" => Move(h)
  PROVE  Undo!Next \/ UNCHANGED Undo!vars
<1> USE DEF fileVars, history, Happens
<1>0. pc[h] \in {"copy_open", "temp_open", "write", "rename", "remove"} =>
        /\ Move(h) /\ cfg[h] \in Managed
        /\ job[h] \in {"backup", "temp", "install", "reclaim", "restore"}
  BY DEF Move, NoMove, Rest, Configured, InCall, Steps, TypeOK, Jobs
<1>1. CASE CopyOpen(h)
  <2>1. /\ pc[h] = "copy_open" /\ Move(h) /\ user' = user
        /\ job[h] \in {"backup", "install", "reclaim", "restore"}
    BY <1>0, <1>1 DEF CopyOpen, Move, TempMove
  <2>2. CASE file[From(job[h])] = Absent
    BY <1>1, <2>2, UndoStutter DEF CopyOpen
  <2>3. CASE file[From(job[h])] # Absent /\ job[h] = "backup"
    <3>1. InForce
      BY <2>1, <2>3 DEF Move, BackupMove
    <3>2. file'["conf"] = file["conf"] /\ file'["bak"] = Torn
      BY <1>1, <2>3 DEF CopyOpen, From, To, TypeOK, Path
    <3> QED BY <2>1, <3>1, <3>2, UndoSave
  <2>4. CASE file[From(job[h])] # Absent /\ job[h] # "backup"
    <3>1. Saved
      BY <2>1, <2>4 DEF Move, InstallMove, RestoreMove
    <3>2. file'["conf"] = Torn /\ file'["bak"] = file["bak"]
      BY <1>1, <2>1, <2>4 DEF CopyOpen, From, To, TypeOK, Path
    <3> QED BY <2>1, <3>1, <3>2, UndoOverwrite
  <2> QED BY <2>2, <2>3, <2>4
<1>2. CASE TempOpen(h)
  BY <1>2, UndoStutter DEF TempOpen, TypeOK
<1>3. CASE Write(h)
  <2>1. /\ pc[h] = "write" /\ Move(h) /\ user' = user /\ cfg[h] \in Managed
        /\ job[h] \in {"backup", "temp", "install", "reclaim", "restore"}
    BY <1>0, <1>3 DEF Write
  <2>2. fd[h] \in {"bak", "tmp", "conf"}
    BY <2>1 DEF Move, BackupMove, TempMove, InstallMove, RestoreMove
  <2>3. file' = [file EXCEPT ![fd[h]] = buf[h]]
    BY <1>3, <2>2 DEF Write, NoFd
  <2>4. CASE job[h] = "backup"
    <3>1. /\ InForce /\ file'["conf"] = file["conf"] /\ file'["bak"] = user
      BY <2>1, <2>3, <2>4 DEF Move, BackupMove, TypeOK, Path
    <3> QED BY <2>1, <3>1, UndoSave
  <2>5. CASE job[h] = "temp"
    <3>1. file'["conf"] = file["conf"] /\ file'["bak"] = file["bak"]
      BY <2>1, <2>3, <2>5 DEF Move, TempMove, TypeOK, Path
    <3> QED BY <2>1, <3>1, UndoStutter
  <2>6. CASE job[h] \in {"install", "reclaim", "restore"}
    <3>1. /\ Saved /\ file'["bak"] = file["bak"]
          /\ file'["conf"] \in Managed \cup {user}
      BY <2>1, <2>3, <2>6 DEF Move, InstallMove, RestoreMove, TypeOK, Path
    <3> QED BY <2>1, <3>1, UndoOverwrite
  <2> QED BY <2>1, <2>4, <2>5, <2>6
<1>4. CASE Rename(h)
  <2>1. /\ pc[h] = "rename" /\ Move(h) /\ user' = user /\ cfg[h] \in Managed
        /\ job[h] \in {"install", "reclaim", "restore"}
    BY <1>0, <1>4 DEF Rename, Move, BackupMove, TempMove
  <2>2. CASE file' = file
    BY <2>1, <2>2, UndoStutter
  <2>3. CASE file' = [file EXCEPT !["conf"] = file[From(job[h])], ![From(job[h])] = Absent]
    <3>1. CASE job[h] = "install"
      <4>1. /\ Saved /\ file'["bak"] = file["bak"] /\ file'["conf"] \in Managed
        BY <2>1, <2>3, <3>1 DEF Move, InstallMove, From, TypeOK, Path
      <4> QED BY <2>1, <4>1, UndoOverwrite
    <3>2. CASE job[h] \in {"reclaim", "restore"}
      <4>1. /\ Saved /\ file'["conf"] = file["bak"] /\ file'["bak"] = Absent
        BY <2>1, <2>3, <3>2 DEF Move, RestoreMove, From, TypeOK, Path
      <4> QED BY <2>1, <4>1, UndoRestore
    <3> QED BY <2>1, <3>1, <3>2
  <2> QED BY <1>4, <2>2, <2>3 DEF Rename
<1>5. CASE Remove(h)
  <2>1. /\ pc[h] = "remove" /\ Move(h) /\ user' = user
        /\ job[h] \in {"install", "reclaim", "restore"}
    BY <1>0, <1>5 DEF Remove, Move, BackupMove, TempMove
  <2>2. CASE file' = file
    BY <2>1, <2>2, UndoStutter
  <2>3. CASE file' = [file EXCEPT ![From(job[h])] = Absent]
    <3>1. CASE job[h] = "install"
      <4>1. file'["conf"] = file["conf"] /\ file'["bak"] = file["bak"]
        BY <2>3, <3>1 DEF From, TypeOK, Path
      <4> QED BY <2>1, <4>1, UndoStutter
    <3>2. CASE job[h] \in {"reclaim", "restore"}
      <4>1. InForce /\ file'["conf"] = file["conf"] /\ file'["bak"] = Absent
        BY <2>1, <2>3, <3>2 DEF Move, RestoreMove, From, TypeOK, Path
      <4> QED BY <2>1, <4>1, UndoSave
    <3> QED BY <2>1, <3>1, <3>2
  <2> QED BY <1>5, <2>2, <2>3 DEF Remove
<1>6. CASE ~(CopyOpen(h) \/ TempOpen(h) \/ Write(h) \/ Rename(h) \/ Remove(h))
  <2>1. file' = file /\ user' = user
    BY <1>6 DEF Step, ProbeLink, ProbeStub, CleanupResidual, CloseReads, RequireBackup,
       CheckStale, Fsync, SyncDir
  <2> QED BY <2>1, UndoStutter
<1> QED BY <1>1, <1>2, <1>3, <1>4, <1>5, <1>6

(* Others' edits are the Edit of the undo log; nothing else touches a file. *)
LEMMA NextIsUndo ==
  ASSUME TypeOK, Configured, [Next]_vars,
         \A h \in Handle : pc[h] # "sync_dir" => Move(h)
  PROVE  Undo!Next \/ UNCHANGED Undo!vars
<1> USE DEF fileVars, history, Happens
<1>1. ASSUME NEW h \in Handle, Step(h) PROVE Undo!Next \/ UNCHANGED Undo!vars
  BY <1>1, StepIsUndo
<1>2. ASSUME NEW h \in Handle,
             Apply(h) \/ Close(h) \/ IoError(h) \/ Forget(h) \/ Crash(h)
      PROVE  UNCHANGED Undo!vars
  BY <1>2, UndoStutter DEF Apply, Close, IoError, Forget, Crash
<1>3. CASE ExternalEdit
  <2>1. PICK c \in User \cup {Absent}, l \in LinkKinds :
           /\ file' = [file EXCEPT !["conf"] = c]
           /\ user' = c
    BY <1>3 DEF ExternalEdit
  <2>2. /\ user' = c /\ file'["conf"] = c /\ file'["bak"] = file["bak"]
    BY <2>1 DEF TypeOK, Path
  <2>3. Undo!Edit
    BY <2>2 DEF Undo!Edit
  <2> QED BY <2>3 DEF Undo!Next
<1>4. CASE UNCHANGED vars
  BY <1>4, UndoStutter DEF vars
<1> QED BY <1>1, <1>2, <1>3, <1>4 DEF Next

(* The calls, taken system call by system call with every error and crash,  *)
(* implement the undo log.                                                  *)
THEOREM SerialImplementsUndoLog == ASSUME Serial PROVE Spec => ImplementsUndoLog
<1>1. Init => Undo!Init
  BY DEF Init, Undo!Init, Path
<1>2. IInv /\ [Next]_vars => [Undo!Next]_(Undo!vars)
  BY NextIsUndo DEF IInv, Moves
<1> QED BY <1>1, <1>2, SerialInvariant, PTL DEF Spec, ImplementsUndoLog, Undo!Spec

(* The undo log keeps its promise: what others installed is in force or     *)
(* saved after every step.                                                  *)
THEOREM UndoLogRecoverable == Undo!Spec => []Undo!Recoverable
<1>1. Undo!Init => Undo!Recoverable
  BY DEF Undo!Init, Undo!Recoverable
<1>2. Undo!Recoverable /\ [Undo!Next]_(Undo!vars) => Undo!Recoverable'
  BY DEF Undo!Recoverable, Undo!Next, Undo!Save, Undo!Overwrite, Undo!Restore,
     Undo!Edit, Undo!vars
<1> QED BY <1>1, <1>2, PTL DEF Undo!Spec

-----------------------------------------------------------------------------
(* A slot keeps its configuration as long as it is in a call or has a       *)
(* handle.                                                                  *)
LEMMA MarkKept ==
  ASSUME TypeOK, Marks, NEW h \in Handle,
         \A k \in Handle \ {h} : cfg'[k] = cfg[k] /\ pc'[k] = pc[k],
         InCall(h) \/ pc[h] = "live",
         cfg'[h] = cfg[h] \/ pc'[h] \in {"idle", "dead"}
  PROVE  Marks'
<1>1. ASSUME NEW k \in Handle \ {h} PROVE OwnMark(k)'
  BY <1>1 DEF Marks, OwnMark, InCall
<1>2. OwnMark(h)'
  BY DEF Marks, OwnMark, InCall, Steps
<1> QED BY <1>1, <1>2 DEF Marks

LEMMA MarkStep == TypeOK /\ Marks /\ [Next]_vars => Marks'
<1> SUFFICES ASSUME TypeOK, Marks, [Next]_vars PROVE Marks'
  OBVIOUS
<1>1. ASSUME NEW h \in Handle, Apply(h) PROVE Marks'
  <2>1. PICK o \in OwnersOf[h], s \in Server :
           cfg' = [cfg EXCEPT ![h] = [owner |-> o, servers |-> s]]
    BY <1>1 DEF Apply
  <2>2. /\ [owner |-> o, servers |-> s] \in Managed
        /\ [owner |-> o, servers |-> s].owner \in OwnersOf[h]
    BY RegimeAssumption DEF Managed
  <2> QED BY <1>1, <2>1, <2>2 DEF Apply, Goto, TypeOK, Marks, OwnMark, InCall
<1>2. ASSUME NEW h \in Handle, Step(h) PROVE Marks'
  <2>1. InCall(h)
    BY <1>2 DEF Step, InCall, Steps, ProbeLink, ProbeStub, CleanupResidual, CloseReads,
       RequireBackup, CheckStale, CopyOpen, TempOpen, Write, Fsync, Rename, Remove, SyncDir
  <2>2. \/ Return(h, "idle") \/ Return(h, "live")
        \/ cfg' = cfg /\ \E l \in Steps \cup Rest : Goto(h, l)
    <3>1. CASE Fsync(h)
      <4>1. CASE Fail(h)
        BY <4>1 DEF Fail
      <4>2. CASE ~Fail(h)
        BY <3>1, <4>2 DEF Fsync, Goto, Steps
      <4> QED BY <4>1, <4>2
    <3>2. CASE SyncDir(h)
      BY <3>2 DEF SyncDir, Goto, Steps
    <3>3. CASE ~Fsync(h) /\ ~SyncDir(h)
      BY <1>2, <3>3 DEF Step, Steps, Fail, ProbeLink, ProbeStub, CleanupResidual, CloseReads,
         RequireBackup, CheckStale, CopyOpen, TempOpen, Write, Rename, Remove
    <3> QED BY <3>1, <3>2, <3>3
  <2> QED BY <2>1, <2>2, MarkKept DEF Return, Goto, TypeOK
<1>3. ASSUME NEW h \in Handle, Close(h) PROVE Marks'
  BY <1>3, MarkKept DEF Close, Goto, TypeOK
<1>4. ASSUME NEW h \in Handle, IoError(h) \/ Forget(h) \/ Crash(h) PROVE Marks'
  BY <1>4, MarkKept DEF IoError, Forget, Crash, Fail, Return, Goto, TypeOK
<1>5. CASE ExternalEdit \/ UNCHANGED vars
  BY <1>5 DEF ExternalEdit, vars, Marks, OwnMark, InCall
<1> QED BY <1>1, <1>2, <1>3, <1>4, <1>5 DEF Next

-----------------------------------------------------------------------------
(* A slot whose mark is in RESOLV_CONF is the only one that can move files. *)
LEMMA Exclusive ==
  ASSUME ClosesOverlap, TypeOK, Marks, FilesInv,
         NEW h \in Handle, NEW k \in Handle \ {h},
         InCall(h) \/ pc[h] = "live", OwnedBy(file["conf"], cfg[h].owner)
  PROVE  ~Moving(k)
<1> SUFFICES ASSUME Moving(k) PROVE FALSE
  OBVIOUS
<1>1. /\ user \notin Managed /\ Torn \notin Managed
  BY ContentAssumption DEF TypeOK
<1>2. /\ file["conf"] \in Managed /\ ~InForce /\ file["conf"] # Torn
  BY <1>1 DEF OwnedBy, InForce
<1>3. /\ NoMove(k) /\ BackupMove(k) /\ TempMove(k) /\ Installs(k) /\ PutsBack(k)
      /\ job[k] \in Jobs \ {"none"} /\ pc[k] # "sync_dir"
  BY DEF FilesInv, Fits, Moving, TypeOK
<1>4. InCall(k)
  BY <1>3 DEF BackupMove, TempMove, Installs, PutsBack, InCall, Steps, Jobs
<1>5. cfg[k] \in Managed /\ cfg[k].owner # cfg[h].owner
  BY <1>4 DEF Marks, OwnMark, ClosesOverlap
<1>6. ~OwnedBy(file["conf"], cfg[k].owner) /\ file["conf"] # cfg[k]
  BY <1>5 DEF OwnedBy
<1> QED BY <1>2, <1>3, <1>6 DEF BackupMove, TempMove, Installs, PutsBack, Jobs

(* A handle that others' edits have spared has its mark in RESOLV_CONF, and *)
(* so has an apply that has only the directory to sync.                     *)
LEMMA InConf ==
  ASSUME TypeOK, Marks, FilesInv, NEW h \in Handle,
         \/ pc[h] \in {"live", "closing"} /\ "edit" \notin happened
         \/ job[h] = "install" /\ pc[h] = "sync_dir"
  PROVE  /\ InCall(h) \/ pc[h] = "live"
         /\ OwnedBy(file["conf"], cfg[h].owner)
         /\ file["conf"] = cfg[h]
<1>1. InCall(h) \/ pc[h] = "live"
  BY DEF InCall, Steps
<1>2. file["conf"] = cfg[h]
  BY DEF FilesInv, Fits, Holds, Installs
<1> QED BY <1>1, <1>2 DEF Marks, OwnMark, OwnedBy

(* A step of slot h disturbs no other slot: where it changes a file it is   *)
(* the one that moves files.                                                *)
LEMMA OthersFit ==
  ASSUME ClosesOverlap, TypeOK, Marks, FilesInv, NEW h \in Handle,
         \A k \in Handle \ {h} :
           /\ pc'[k] = pc[k] /\ job'[k] = job[k] /\ cfg'[k] = cfg[k]
           /\ buf'[k] = buf[k] /\ fd'[k] = fd[k],
         user' = user, "edit" \in happened => "edit" \in happened',
         Moving(h) \/ file' = file,
         Applying(h)' => Applying(h) \/ \A k \in Handle \ {h} : ~Applying(k),
         Moving(h)' => \A k \in Handle \ {h} : ~Moving(k),
         Fits(h)', Kept', pc'[h] # "write" => fd'[h] = NoFd
  PROVE  FilesInv'
<1>1. OneApply' /\ OneMove' /\ Descriptors'
  BY DEF FilesInv, OneApply, OneMove, Descriptors, Applying, InCall, Moving
<1>2. ASSUME NEW k \in Handle \ {h} PROVE Fits(k)'
  <2>1. Fits(k) /\ job[k] \in Jobs /\ (Moving(h) => ~Moving(k))
    BY DEF FilesInv, OneMove, TypeOK
  <2>2. CASE file' = file
    BY <2>1, <2>2
    DEF Fits, NoMove, BackupMove, TempMove, Installs, PutsBack, Holds, InForce, Saved
  <2>3. CASE Moving(h)
    <3>1. /\ job[k] = "install" => pc[k] # "sync_dir"
          /\ pc[k] \in {"live", "closing"} => "edit" \in happened'
      BY <2>3, InConf, Exclusive
    <3>2. ~Moving(k)
      BY <2>1, <2>3
    <3>3. job'[k] \in {"none", "reclaim", "restore"} /\ pc'[k] = pc[k] /\ job'[k] = job[k]
      BY <2>1, <3>1, <3>2 DEF Moving, Jobs, Fits, BackupMove, TempMove, Installs
    <3> QED BY <2>1, <3>1, <3>2, <3>3
        DEF Fits, Moving, NoMove, BackupMove, TempMove, Installs, PutsBack, Holds
  <2> QED BY <2>2, <2>3
<1> QED BY <1>1, <1>2 DEF FilesInv

(* The return of a call without a handle, and a handle that is forgotten.   *)
LEMMA ReturnFits ==
  ASSUME ClosesOverlap, TypeOK, Marks, FilesInv, NEW h \in Handle,
         NEW l \in {"idle", "dead"}, Return(h, l),
         (fd' = fd /\ pc[h] # "write") \/ fd' = [fd EXCEPT ![h] = NoFd],
         file' = file, user' = user, "edit" \in happened => "edit" \in happened'
  PROVE  FilesInv'
<1>1. /\ pc' = [pc EXCEPT ![h] = l] /\ job' = [job EXCEPT ![h] = "none"]
      /\ buf' = [buf EXCEPT ![h] = Absent] /\ cfg' = [cfg EXCEPT ![h] = None]
  BY DEF Return, Goto
<1>2. pc'[h] = l /\ job'[h] = "none" /\ fd'[h] = NoFd
  BY <1>1 DEF TypeOK, FilesInv, Descriptors
<1>3. Fits(h)' /\ ~Moving(h)' /\ ~Applying(h)'
  BY <1>2 DEF Fits, NoMove, BackupMove, TempMove, Installs, PutsBack, Holds, Rest, Moving,
     Applying, InCall, Steps
<1>4. \A k \in Handle \ {h} : /\ pc'[k] = pc[k] /\ job'[k] = job[k] /\ cfg'[k] = cfg[k]
                              /\ buf'[k] = buf[k] /\ fd'[k] = fd[k]
  BY <1>1 DEF TypeOK
<1>5. Kept'
  BY DEF FilesInv, Kept, InForce, Saved
<1> QED BY <1>2, <1>3, <1>4, <1>5, OthersFit

(* A call that fails, by itself or by an I/O error, leaves the files.       *)
LEMMA FailFits ==
  ASSUME ClosesOverlap, TypeOK, Marks, FilesInv, NEW h \in Handle, Fail(h),
         file' = file, user' = user, "edit" \in happened => "edit" \in happened'
  PROVE  FilesInv'
BY ReturnFits DEF Fail

(* A step that moves slot h on within its call: it is enough to show what   *)
(* its file move knows afterwards, and that no other slot is at one.        *)
LEMMA GotoFits ==
  ASSUME ClosesOverlap, TypeOK, Marks, FilesInv, NEW h \in Handle, InCall(h),
         NEW l \in Steps, Goto(h, l), cfg' = cfg, user' = user,
         "edit" \in happened => "edit" \in happened',
         \A k \in Handle \ {h} : job'[k] = job[k] /\ buf'[k] = buf[k] /\ fd'[k] = fd[k],
         l # "write" => fd'[h] = NoFd,
         Moving(h) \/ file' = file,
         Applying(h)' => Applying(h),
         Moving(h)' => Moving(h) \/ \A k \in Handle \ {h} : ~Moving(k),
         Kept', Fits(h)'
  PROVE  FilesInv'
<1>1. pc' = [pc EXCEPT ![h] = l]
  BY DEF Goto
<1>2. pc'[h] = l /\ \A k \in Handle \ {h} : pc'[k] = pc[k] /\ cfg'[k] = cfg[k]
  BY <1>1 DEF TypeOK
<1>3. Moving(h)' => \A k \in Handle \ {h} : ~Moving(k)
  BY DEF FilesInv, OneMove
<1> QED BY <1>2, <1>3, OthersFit

-----------------------------------------------------------------------------
(* A slot that works on a file move is in a call. *)
LEMMA MovingInCall ==
  ASSUME TypeOK, FilesInv, NEW k \in Handle, job[k] # "none"
  PROVE  InCall(k)
<1>1. /\ NoMove(k) /\ BackupMove(k) /\ TempMove(k) /\ Installs(k) /\ PutsBack(k)
      /\ job[k] \in Jobs \ {"none"}
  BY DEF FilesInv, Fits, TypeOK
<1> QED BY <1>1 DEF BackupMove, TempMove, Installs, PutsBack, InCall, Steps, Jobs

(* An apply that finds no BACKUP is the only slot that can move files.      *)
LEMMA AloneWithoutBackup ==
  ASSUME TypeOK, FilesInv, NEW h \in Handle, Applying(h), file["bak"] = Absent,
         NEW k \in Handle \ {h}
  PROVE  ~Moving(k)
<1> SUFFICES ASSUME Moving(k) PROVE FALSE
  OBVIOUS
<1>1. /\ InCall(k) /\ ~Applying(k)
  BY MovingInCall DEF FilesInv, OneApply, Moving
<1>2. job[k] = "restore" \/ pc[k] = "closing"
  BY <1>1 DEF Applying
<1>3. /\ NoMove(k) /\ BackupMove(k) /\ TempMove(k) /\ Installs(k) /\ PutsBack(k)
      /\ job[k] \in Jobs \ {"none"} /\ pc[k] # "sync_dir"
  BY DEF FilesInv, Fits, Moving, TypeOK
<1> QED BY <1>2, <1>3 DEF BackupMove, TempMove, Installs, PutsBack, Jobs, Saved

(* The steps that only look: a file move is started by the only slot that   *)
(* can move files, on a condition that its first step relies on.            *)
LEMMA LookingFits ==
  ASSUME ClosesOverlap, TypeOK, Marks, FilesInv, NEW h \in Handle,
         \/ ProbeLink(h) \/ ProbeStub(h) \/ CleanupResidual(h)
         \/ CloseReads(h) \/ RequireBackup(h) \/ CheckStale(h)
  PROVE  FilesInv'
<1> USE DEF fileVars, history, Happens
<1>1. InCall(h) /\ Fits(h) /\ fd[h] = NoFd
  BY DEF InCall, Steps, FilesInv, Descriptors, ProbeLink, ProbeStub,
     CleanupResidual, CloseReads, RequireBackup, CheckStale
<1>2. /\ file' = file /\ user' = user /\ Kept /\ Kept'
      /\ "edit" \in happened => "edit" \in happened'
  BY DEF ProbeLink, ProbeStub, CleanupResidual, CloseReads, RequireBackup, CheckStale,
     FilesInv, Kept, InForce, Saved
<1>3. CASE Fail(h)
  BY <1>2, <1>3, FailFits
<1>4. ASSUME NEW l \in {"probe_stub", "cleanup_residual", "check_stale"}, Goto(h, l),
             pc[h] \in {"probe_link", "probe_stub", "cleanup_residual"},
             UNCHANGED <<job, cfg, fd, buf>>
      PROVE  FilesInv'
  <2>1. job[h] = "none"
    BY <1>1, <1>4 DEF Fits, TypeOK, Jobs, BackupMove, TempMove, Installs, PutsBack
  <2>2. pc'[h] = l /\ job'[h] = "none"
    BY <1>4, <2>1 DEF Goto, TypeOK
  <2>3. Fits(h)'
    BY <2>2 DEF Fits, NoMove, BackupMove, TempMove, Installs, PutsBack, Holds
  <2>4. ~Moving(h)' /\ Applying(h)
    BY <1>1, <1>4, <2>1, <2>2 DEF Moving, Applying
  <2>5. l \in Steps /\ l # "write"
    BY DEF Steps
  <2> QED BY <1>1, <1>2, <1>4, <2>3, <2>4, <2>5, GotoFits
<1>5. ASSUME NEW j \in {"reclaim", "restore"}, job' = [job EXCEPT ![h] = j],
             OwnedBy(file["conf"], cfg[h].owner), Goto(h, "require_backup"),
             j = "restore" \/ Applying(h), UNCHANGED <<cfg, fd, buf>>
      PROVE  FilesInv'
  <2>1. Saved
    BY <1>2, <1>5, ContentAssumption DEF Kept, InForce, OwnedBy, TypeOK
  <2>2. pc'[h] = "require_backup" /\ job'[h] = j
    BY <1>5 DEF Goto, TypeOK
  <2>3. Fits(h)'
    BY <1>2, <1>5, <2>1, <2>2
    DEF Fits, NoMove, BackupMove, TempMove, Installs, PutsBack, Holds, Saved
  <2>4. \A k \in Handle \ {h} : ~Moving(k) /\ job'[k] = job[k]
    BY <1>1, <1>5, Exclusive DEF TypeOK
  <2>5. Applying(h)' => Applying(h)
    BY <1>5, <2>2 DEF Applying
  <2>6. "require_backup" \in Steps
    BY DEF Steps
  <2> QED BY <1>1, <1>2, <1>5, <2>3, <2>4, <2>5, <2>6, GotoFits
<1>6. CASE RequireBackup(h) /\ ~Fail(h)
  <2>1. Goto(h, "rename") /\ UNCHANGED <<job, cfg, fd, buf>> /\ pc[h] = "require_backup"
    BY <1>6 DEF RequireBackup
  <2>2. job[h] \in {"reclaim", "restore"}
    BY <1>1, <2>1
    DEF Fits, TypeOK, Jobs, Rest, NoMove, BackupMove, TempMove, Installs
  <2>3. pc'[h] = "rename"
    BY <2>1 DEF Goto, TypeOK
  <2>4. Fits(h)'
    BY <1>1, <1>2, <2>1, <2>2, <2>3
    DEF Fits, NoMove, BackupMove, TempMove, Installs, PutsBack, Holds, Saved
  <2>5. Moving(h) /\ (Applying(h)' => Applying(h))
    BY <1>1, <2>1, <2>2 DEF Moving, Applying
  <2>6. "rename" \in Steps
    BY DEF Steps
  <2> QED BY <1>1, <1>2, <2>1, <2>4, <2>5, <2>6, GotoFits
<1>7. CASE CheckStale(h) /\ ~Fail(h)
  <2>1. /\ file["bak"] = Absent /\ job' = [job EXCEPT ![h] = "backup"]
        /\ Goto(h, "copy_open") /\ UNCHANGED <<cfg, fd, buf>> /\ pc[h] = "check_stale"
    BY <1>7 DEF CheckStale
  <2>2. InForce
    BY <1>2, <2>1 DEF Kept, Saved
  <2>3. pc'[h] = "copy_open" /\ job'[h] = "backup"
    BY <2>1 DEF Goto, TypeOK
  <2>4. Fits(h)'
    BY <1>2, <2>1, <2>2, <2>3
    DEF Fits, NoMove, BackupMove, TempMove, Installs, PutsBack, Holds, InForce
  <2>5. job[h] \notin {"restore"}
    BY <1>1, <2>1 DEF Fits, PutsBack
  <2>6. Applying(h)
    BY <1>1, <2>1, <2>5 DEF Applying
  <2>7. \A k \in Handle \ {h} : ~Moving(k) /\ job'[k] = job[k]
    BY <2>1, <2>6, AloneWithoutBackup DEF TypeOK
  <2>8. "copy_open" \in Steps
    BY DEF Steps
  <2> QED BY <1>1, <1>2, <2>1, <2>4, <2>6, <2>7, <2>8, GotoFits
<1>8. CASE ProbeLink(h) \/ ProbeStub(h)
  BY <1>3, <1>4, <1>8 DEF ProbeLink, ProbeStub
<1>9. CASE CleanupResidual(h)
  <2>1. Applying(h)
    BY <1>1, <1>9 DEF Applying, CleanupResidual, Fits, PutsBack
  <2> QED BY <1>4, <1>5, <1>9, <2>1 DEF CleanupResidual
<1>10. CASE CloseReads(h)
  BY <1>3, <1>5, <1>10 DEF CloseReads
<1> QED BY <1>3, <1>6, <1>7, <1>8, <1>9, <1>10

(* What the steps that write may assume of their slot. *)
LEMMA Mover ==
  ASSUME TypeOK, Marks, FilesInv, NEW h \in Handle,
         pc[h] \in {"copy_open", "temp_open", "write", "fsync", "rename", "remove", "sync_dir"}
  PROVE  /\ InCall(h) /\ Fits(h) /\ Kept /\ cfg[h] \in Managed
         /\ Moving(h) \/ pc[h] = "sync_dir"
         /\ Moving(h) => \A k \in Handle \ {h} : fd[k] = NoFd
         /\ pc[h] # "write" => fd[h] = NoFd
         /\ job[h] \in {"backup", "temp", "install", "reclaim", "restore"}
<1>1. InCall(h) /\ Fits(h) /\ Kept
  BY DEF InCall, Steps, FilesInv
<1>2. job[h] # "none"
  BY <1>1 DEF Fits, NoMove, Rest
<1>3. ASSUME Moving(h), NEW k \in Handle \ {h} PROVE fd[k] = NoFd
  <2>1. ~Moving(k) /\ Fits(k)
    BY <1>3 DEF FilesInv, OneMove
  <2>2. pc[k] # "write"
    BY <2>1 DEF Moving, Fits, NoMove, Rest
  <2> QED BY <2>2 DEF FilesInv, Descriptors
<1>4. cfg[h] \in Managed
  BY <1>1 DEF Marks, OwnMark
<1>5. pc[h] # "write" => fd[h] = NoFd
  BY DEF FilesInv, Descriptors
<1>6. Moving(h) \/ pc[h] = "sync_dir"
  BY <1>2 DEF Moving
<1>7. job[h] \in {"backup", "temp", "install", "reclaim", "restore"}
  BY <1>2 DEF TypeOK, Jobs
<1> QED BY <1>1, <1>3, <1>4, <1>5, <1>6, <1>7

(* Creating BACKUP spares RESOLV_CONF; truncating RESOLV_CONF spares BACKUP. *)
LEMMA CopyOpenFits ==
  ASSUME ClosesOverlap, TypeOK, Marks, FilesInv, NEW h \in Handle, CopyOpen(h)
  PROVE  FilesInv'
<1>1. /\ pc[h] = "copy_open" /\ InCall(h) /\ Fits(h) /\ Kept /\ Moving(h) /\ fd[h] = NoFd
      /\ user' = user /\ happened' = happened
      /\ job[h] \in {"backup", "install", "reclaim", "restore"}
  BY Mover DEF CopyOpen, Fits, TempMove, history
<1>2. CASE file[From(job[h])] = Absent
  BY <1>1, <1>2, FailFits DEF CopyOpen
<1>3. CASE file[From(job[h])] # Absent
  <2>1. /\ file' = [file EXCEPT ![To(job[h])] = Torn]
        /\ fd' = [fd EXCEPT ![h] = To(job[h])]
        /\ buf' = [buf EXCEPT ![h] = file[From(job[h])]]
        /\ Goto(h, "write") /\ job' = job /\ cfg' = cfg
    BY <1>3 DEF CopyOpen
  <2>2. /\ pc'[h] = "write" /\ fd'[h] = To(job[h]) /\ buf'[h] = file[From(job[h])]
        /\ \A k \in Handle \ {h} : job'[k] = job[k] /\ fd'[k] = fd[k] /\ buf'[k] = buf[k]
    BY <2>1 DEF Goto, TypeOK
  <2>3. Kept' /\ Fits(h)'
    <3>1. CASE job[h] = "backup"
      <4>1. file'["conf"] = file["conf"] /\ fd'[h] = "bak" /\ buf'[h] = file["conf"]
        BY <2>1, <2>2, <3>1 DEF From, To, TypeOK
      <4> QED BY <1>1, <1>3, <2>1, <2>2, <3>1, <4>1
          DEF From, Kept, InForce, Fits, NoMove, BackupMove, TempMove, Installs, PutsBack, Holds
    <3>2. CASE job[h] = "install"
      <4>1. /\ file'["bak"] = file["bak"] /\ fd'[h] = "conf" /\ buf'[h] = file["tmp"]
            /\ file'["conf"] = Torn /\ file'["tmp"] = file["tmp"]
        BY <2>1, <2>2, <3>2 DEF From, To, TypeOK, Path
      <4> QED BY <1>1, <2>1, <2>2, <3>2, <4>1
          DEF Kept, Saved, Fits, NoMove, BackupMove, TempMove, Installs, PutsBack, Holds
    <3>3. CASE job[h] \in {"reclaim", "restore"}
      <4>1. /\ file'["bak"] = file["bak"] /\ fd'[h] = "conf" /\ buf'[h] = file["bak"]
            /\ file'["conf"] = Torn
        BY <2>1, <2>2, <3>3 DEF From, To, TypeOK, Path
      <4> QED BY <1>1, <2>1, <2>2, <3>3, <4>1
          DEF Kept, Saved, Fits, NoMove, BackupMove, TempMove, Installs, PutsBack, Holds
    <3> QED BY <1>1, <3>1, <3>2, <3>3
  <2>4. Applying(h)' => Applying(h)
    BY <1>1, <2>1 DEF Applying
  <2>5. "write" \in Steps
    BY DEF Steps
  <2> QED BY <1>1, <2>1, <2>2, <2>3, <2>4, <2>5, GotoFits
<1> QED BY <1>2, <1>3

(* TEMP is nobody's configuration. *)
LEMMA TempOpenFits ==
  ASSUME ClosesOverlap, TypeOK, Marks, FilesInv, NEW h \in Handle, TempOpen(h)
  PROVE  FilesInv'
<1>1. /\ pc[h] = "temp_open" /\ InCall(h) /\ Fits(h) /\ Kept /\ Moving(h) /\ job[h] = "temp"
  BY Mover DEF TempOpen, Fits, BackupMove, Installs, PutsBack
<1>2. /\ pc'[h] = "write" /\ fd'[h] = "tmp" /\ buf'[h] = cfg[h]
      /\ \A k \in Handle \ {h} : job'[k] = job[k] /\ fd'[k] = fd[k] /\ buf'[k] = buf[k]
      /\ file'["conf"] = file["conf"] /\ file'["bak"] = file["bak"]
      /\ job' = job /\ cfg' = cfg /\ user' = user /\ happened' = happened /\ Goto(h, "write")
  BY DEF TempOpen, Goto, TypeOK, history
<1>3. Kept' /\ Fits(h)'
  BY <1>1, <1>2
  DEF Kept, InForce, Saved, Fits, NoMove, BackupMove, TempMove, Installs, PutsBack, Holds
<1>4. Applying(h)' => Applying(h)
  BY <1>1, <1>2 DEF Applying
<1>5. "write" \in Steps
  BY DEF Steps
<1> QED BY <1>1, <1>2, <1>3, <1>4, <1>5, GotoFits

(* What is written completes the copy the next steps rely on. *)
LEMMA WriteFits ==
  ASSUME ClosesOverlap, TypeOK, Marks, FilesInv, NEW h \in Handle, Write(h)
  PROVE  FilesInv'
<1>1. /\ pc[h] = "write" /\ InCall(h) /\ Fits(h) /\ Kept /\ Moving(h)
      /\ job[h] \in {"backup", "temp", "install", "reclaim", "restore"}
  BY Mover DEF Write
<1>2. fd[h] \in {"bak", "tmp", "conf"}
  BY <1>1 DEF Fits, BackupMove, TempMove, Installs, PutsBack
<1>3. /\ pc'[h] = "fsync" /\ fd'[h] = NoFd
      /\ \A k \in Handle \ {h} : job'[k] = job[k] /\ fd'[k] = fd[k] /\ buf'[k] = buf[k]
      /\ file' = [file EXCEPT ![fd[h]] = buf[h]] /\ happened' = happened
      /\ job' = job /\ cfg' = cfg /\ user' = user /\ Goto(h, "fsync")
  BY <1>2 DEF Write, Goto, TypeOK, NoFd, history
<1>4. /\ fd[h] = "bak" => file'["bak"] = buf[h] /\ file'["conf"] = file["conf"]
      /\ fd[h] = "tmp" => /\ file'["tmp"] = buf[h] /\ file'["conf"] = file["conf"]
                          /\ file'["bak"] = file["bak"]
      /\ fd[h] = "conf" => /\ file'["conf"] = buf[h] /\ file'["bak"] = file["bak"]
                           /\ file'["tmp"] = file["tmp"]
  BY <1>3 DEF TypeOK, Path
<1>5. Kept' /\ Fits(h)'
  <2>1. CASE job[h] = "backup"
    BY <1>1, <1>3, <1>4, <2>1
    DEF Kept, InForce, Saved, Fits, NoMove, BackupMove, TempMove, Installs, PutsBack, Holds
  <2>2. CASE job[h] = "temp"
    BY <1>1, <1>3, <1>4, <2>2
    DEF Kept, InForce, Saved, Fits, NoMove, BackupMove, TempMove, Installs, PutsBack, Holds
  <2>3. CASE job[h] = "install"
    BY <1>1, <1>3, <1>4, <2>3
    DEF Kept, InForce, Saved, Fits, NoMove, BackupMove, TempMove, Installs, PutsBack, Holds
  <2>4. CASE job[h] \in {"reclaim", "restore"}
    BY <1>1, <1>3, <1>4, <2>4
    DEF Kept, InForce, Saved, Fits, NoMove, BackupMove, TempMove, Installs, PutsBack, Holds
  <2> QED BY <1>1, <2>1, <2>2, <2>3, <2>4
<1>6. Applying(h)' => Applying(h)
  BY <1>1, <1>3 DEF Applying
<1>7. "fsync" \in Steps
  BY DEF Steps
<1> QED BY <1>1, <1>3, <1>5, <1>6, <1>7, GotoFits

(* One file move hands over to the next. *)
LEMMA FsyncFits ==
  ASSUME ClosesOverlap, TypeOK, Marks, FilesInv, NEW h \in Handle, Fsync(h)
  PROVE  FilesInv'
<1> USE DEF fileVars, history
<1>1. /\ pc[h] = "fsync" /\ InCall(h) /\ Fits(h) /\ Kept /\ Moving(h) /\ fd[h] = NoFd
      /\ file' = file /\ user' = user /\ happened' = happened
      /\ job[h] \in {"backup", "temp", "install", "reclaim", "restore"}
  BY Mover DEF Fsync
<1>2. CASE Fail(h)
  BY <1>1, <1>2, FailFits
<1>3. CASE ~Fail(h)
  <2> DEFINE l == CASE job[h] = "backup" -> "temp_open"
                    [] job[h] = "temp"   -> "rename"
                    [] OTHER             -> "remove"
             j == CASE job[h] = "backup" -> "temp"
                    [] job[h] = "temp"   -> "install"
                    [] OTHER             -> job[h]
  <2>1. /\ Goto(h, l) /\ job' = [job EXCEPT ![h] = j] /\ UNCHANGED <<cfg, fd, buf>>
    BY <1>3 DEF Fsync, Goto
  <2>2. pc'[h] = l /\ job'[h] = j /\ \A k \in Handle \ {h} : job'[k] = job[k]
    BY <2>1 DEF Goto, TypeOK
  <2>3. Kept' /\ Fits(h)'
    <3>1. CASE job[h] = "backup"
      BY <1>1, <2>1, <2>2, <3>1
      DEF Kept, InForce, Saved, Fits, NoMove, BackupMove, TempMove, Installs, PutsBack, Holds
    <3>2. CASE job[h] = "temp"
      BY <1>1, <2>1, <2>2, <3>2
      DEF Kept, InForce, Saved, Fits, NoMove, BackupMove, TempMove, Installs, PutsBack, Holds
    <3>3. CASE job[h] = "install"
      BY <1>1, <2>1, <2>2, <3>3
      DEF Kept, InForce, Saved, Fits, NoMove, BackupMove, TempMove, Installs, PutsBack, Holds
    <3>4. CASE job[h] \in {"reclaim", "restore"}
      BY <1>1, <2>1, <2>2, <3>4
      DEF Kept, InForce, Saved, Fits, NoMove, BackupMove, TempMove, Installs, PutsBack, Holds
    <3> QED BY <1>1, <3>1, <3>2, <3>3, <3>4
  <2>4. l \in Steps /\ l # "write"
    BY DEF Steps
  <2>5. Applying(h)' => Applying(h)
    BY <1>1, <2>2 DEF Applying
  <2> QED BY <1>1, <2>1, <2>2, <2>3, <2>4, <2>5, GotoFits
<1> QED BY <1>2, <1>3

(* A rename replaces RESOLV_CONF while BACKUP is complete, or by BACKUP. *)
LEMMA RenameFits ==
  ASSUME ClosesOverlap, TypeOK, Marks, FilesInv, NEW h \in Handle, Rename(h)
  PROVE  FilesInv'
<1> DEFINE src == From(job[h])
<1>1. /\ pc[h] = "rename" /\ InCall(h) /\ Fits(h) /\ Kept /\ Moving(h)
      /\ user' = user /\ happened' = happened /\ \A k \in Handle : fd[k] = NoFd
      /\ job[h] \in {"install", "reclaim", "restore"}
  BY Mover DEF Rename, Fits, BackupMove, TempMove, history
<1>2. CASE Fail(h) /\ UNCHANGED <<file, link>>
  BY <1>1, <1>2, FailFits
<1>3. CASE Goto(h, "copy_open") /\ UNCHANGED <<file, link, job, cfg, fd, buf>>
  <2>1. pc'[h] = "copy_open"
    BY <1>3 DEF Goto, TypeOK
  <2>2. Kept' /\ Fits(h)'
    BY <1>1, <1>3, <2>1
    DEF Kept, InForce, Saved, Fits, NoMove, BackupMove, TempMove, Installs, PutsBack, Holds
  <2>3. Applying(h)' => Applying(h)
    BY <1>1, <1>3 DEF Applying
  <2>4. "copy_open" \in Steps
    BY DEF Steps
  <2> QED BY <1>1, <1>3, <2>2, <2>3, <2>4, GotoFits
<1>4. CASE /\ file' = [file EXCEPT !["conf"] = file[src], ![src] = Absent]
           /\ fd' = FdsAfterRename(src, "conf")
           /\ Goto(h, "sync_dir")
           /\ UNCHANGED <<job, cfg, buf>>
  <2>1. pc'[h] = "sync_dir" /\ job'[h] = job[h]
    BY <1>4 DEF Goto, TypeOK
  <2>2. \A k \in Handle : fd'[k] = fd[k] /\ fd'[k] = NoFd
    BY <1>1, <1>4 DEF FdsAfterRename, FdsAfterUnlink, From, NoFd
  <2>3. Kept' /\ Fits(h)'
    <3>1. CASE job[h] = "install"
      <4>1. file'["bak"] = file["bak"] /\ file'["conf"] = file["tmp"]
        BY <1>4, <3>1 DEF From, TypeOK, Path
      <4> QED
        BY <1>1, <1>4, <2>1, <3>1, <4>1
        DEF Kept, InForce, Saved, Fits, NoMove, BackupMove, TempMove, Installs, PutsBack, Holds
    <3>2. CASE job[h] \in {"reclaim", "restore"}
      <4>1. file'["conf"] = file["bak"] /\ file'["bak"] = Absent
        BY <1>4, <3>2 DEF From, TypeOK, Path
      <4> QED
        BY <1>1, <1>4, <2>1, <3>2, <4>1
        DEF Kept, InForce, Saved, Fits, NoMove, BackupMove, TempMove, Installs, PutsBack, Holds
    <3> QED BY <1>1, <3>1, <3>2
  <2>4. Applying(h)' => Applying(h)
    BY <1>1, <1>4 DEF Applying
  <2>5. "sync_dir" \in Steps
    BY DEF Steps
  <2> QED BY <1>1, <1>4, <2>2, <2>3, <2>4, <2>5, GotoFits
<1> QED BY <1>2, <1>3, <1>4 DEF Rename

(* The fallback removes BACKUP only once RESOLV_CONF equals it. *)
LEMMA RemoveFits ==
  ASSUME ClosesOverlap, TypeOK, Marks, FilesInv, NEW h \in Handle, Remove(h)
  PROVE  FilesInv'
<1> DEFINE src == From(job[h])
<1>1. /\ pc[h] = "remove" /\ InCall(h) /\ Fits(h) /\ Kept /\ Moving(h)
      /\ user' = user /\ happened' = happened /\ \A k \in Handle : fd[k] = NoFd
      /\ job[h] \in {"install", "reclaim", "restore"}
  BY Mover DEF Remove, Fits, BackupMove, TempMove, history
<1>2. CASE file[src] = Absent
  BY <1>1, <1>2, FailFits DEF Remove
<1>3. CASE file[src] # Absent
  <2>1. /\ file' = [file EXCEPT ![src] = Absent] /\ fd' = FdsAfterUnlink(src)
        /\ Goto(h, "sync_dir") /\ UNCHANGED <<job, cfg, buf>>
    BY <1>3 DEF Remove
  <2>2. pc'[h] = "sync_dir"
    BY <2>1 DEF Goto, TypeOK
  <2>3. \A k \in Handle : fd'[k] = fd[k] /\ fd'[k] = NoFd
    BY <1>1, <2>1 DEF FdsAfterUnlink
  <2>4. file'["conf"] = file["conf"]
    BY <1>1, <2>1 DEF From, TypeOK, Path
  <2>5. Kept' /\ Fits(h)'
    <3>1. CASE job[h] = "install"
      <4>1. file'["bak"] = file["bak"]
        BY <2>1, <3>1 DEF From, TypeOK
      <4> QED
        BY <1>1, <2>1, <2>2, <2>4, <3>1, <4>1
        DEF Kept, InForce, Saved, Fits, NoMove, BackupMove, TempMove, Installs, PutsBack, Holds
    <3>2. CASE job[h] \in {"reclaim", "restore"}
      BY <1>1, <2>1, <2>2, <2>4, <3>2
      DEF Kept, InForce, Saved, Fits, NoMove, BackupMove, TempMove, Installs, PutsBack, Holds
    <3> QED BY <1>1, <3>1, <3>2
  <2>6. Applying(h)' => Applying(h)
    BY <1>1, <2>1 DEF Applying
  <2>7. "sync_dir" \in Steps
    BY DEF Steps
  <2> QED BY <1>1, <2>1, <2>3, <2>5, <2>6, <2>7, GotoFits
<1> QED BY <1>2, <1>3

(* The last step of a file move changes no file; of the installation there  *)
(* remains a handle.                                                        *)
LEMMA SyncDirFits ==
  ASSUME ClosesOverlap, TypeOK, Marks, FilesInv, NEW h \in Handle, SyncDir(h)
  PROVE  FilesInv'
<1> USE DEF fileVars, history
<1>1. /\ pc[h] = "sync_dir" /\ InCall(h) /\ Fits(h) /\ Kept /\ fd[h] = NoFd /\ fd' = fd
      /\ file' = file /\ user' = user /\ happened' = happened
      /\ job[h] \in {"backup", "temp", "install", "reclaim", "restore"}
  BY Mover DEF SyncDir
<1>2. CASE job[h] = "reclaim"
  <2>1. /\ job' = [job EXCEPT ![h] = "none"] /\ Goto(h, "check_stale")
        /\ cfg' = cfg /\ buf' = buf
    BY <1>2 DEF SyncDir
  <2>2. /\ pc'[h] = "check_stale" /\ job'[h] = "none"
        /\ \A k \in Handle \ {h} : job'[k] = job[k]
    BY <2>1 DEF Goto, TypeOK
  <2>3. Kept' /\ Fits(h)'
    BY <1>1, <2>2
    DEF Kept, InForce, Saved, Fits, NoMove, BackupMove, TempMove, Installs, PutsBack, Holds
  <2>4. ~Moving(h)' /\ Applying(h)
    BY <1>1, <1>2, <2>2 DEF Moving, Applying
  <2>5. "check_stale" \in Steps
    BY DEF Steps
  <2> QED BY <1>1, <2>1, <2>2, <2>3, <2>4, <2>5, GotoFits
<1>3. CASE job[h] = "install"
  <2>1. /\ pc' = [pc EXCEPT ![h] = "live"] /\ job' = [job EXCEPT ![h] = "none"]
        /\ buf' = [buf EXCEPT ![h] = Absent] /\ cfg' = cfg
    BY <1>3 DEF SyncDir, Return, Goto
  <2>2. pc'[h] = "live" /\ job'[h] = "none"
    BY <2>1 DEF TypeOK
  <2>3. \A k \in Handle \ {h} : pc'[k] = pc[k] /\ job'[k] = job[k] /\ buf'[k] = buf[k]
    BY <2>1 DEF TypeOK
  <2>4. Kept' /\ Fits(h)'
    BY <1>1, <1>3, <2>1, <2>2
    DEF Kept, InForce, Saved, Fits, NoMove, BackupMove, TempMove, Installs, PutsBack, Holds, Rest
  <2>5. ~Moving(h)' /\ ~Applying(h)'
    BY <2>2 DEF Moving, Applying, InCall, Steps
  <2> QED BY <1>1, <2>1, <2>3, <2>4, <2>5, OthersFit
<1>4. CASE job[h] \notin {"reclaim", "install"}
  BY <1>1, <1>4, ReturnFits DEF SyncDir
<1> QED BY <1>2, <1>3, <1>4

(* apply and close start in a slot at rest; an apply starts beside no other *)
(* apply.                                                                   *)
LEMMA StartFits ==
  ASSUME ClosesOverlap, TypeOK, Marks, FilesInv, NEW h \in Handle, Apply(h) \/ Close(h)
  PROVE  FilesInv'
<1> USE DEF fileVars, history
<1>1. /\ pc[h] \in {"idle", "dead", "live"} /\ fd[h] = NoFd /\ Fits(h)
      /\ UNCHANGED <<file, user, happened, job, buf, fd>>
  BY DEF Apply, Close, FilesInv, Descriptors
<1>2. job[h] = "none"
  BY <1>1, MovingInCall DEF InCall, Steps
<1>3. CASE Apply(h)
  <2>1. pc'[h] = "probe_link" /\ \A k \in Handle \ {h} : pc'[k] = pc[k] /\ cfg'[k] = cfg[k]
    BY <1>3 DEF Apply, Goto, TypeOK
  <2>2. \A k \in Handle : ~Applying(k)
    BY <1>3 DEF Apply, MayApply, ClosesOverlap, Applying
  <2>3. Kept' /\ Fits(h)' /\ ~Moving(h)'
    BY <1>1, <1>2, <2>1
    DEF FilesInv, Kept, InForce, Saved, Moving, Fits, NoMove, BackupMove, TempMove, Installs,
        PutsBack, Holds
  <2> QED BY <1>1, <2>1, <2>2, <2>3, OthersFit
<1>4. CASE Close(h)
  <2>1. pc'[h] = "closing" /\ cfg' = cfg /\ \A k \in Handle \ {h} : pc'[k] = pc[k]
    BY <1>4 DEF Close, Goto, TypeOK
  <2>2. Kept' /\ Fits(h)' /\ ~Moving(h)' /\ ~Applying(h)'
    BY <1>1, <1>2, <1>4, <2>1
    DEF Close, FilesInv, Kept, InForce, Saved, Moving, Applying, Fits, NoMove, BackupMove,
        TempMove, Installs, PutsBack, Holds
  <2> QED BY <1>1, <2>1, <2>2, OthersFit
<1> QED BY <1>3, <1>4

(* Errors, crashes and forgotten handles touch no file. *)
LEMMA MishapFits ==
  ASSUME ClosesOverlap, TypeOK, Marks, FilesInv, NEW h \in Handle,
         IoError(h) \/ Forget(h) \/ Crash(h)
  PROVE  FilesInv'
<1> USE DEF fileVars, history, Happens
<1>1. CASE IoError(h)
  BY <1>1, FailFits DEF IoError
<1>2. CASE Crash(h)
  BY <1>2, ReturnFits DEF Crash
<1>3. CASE Forget(h)
  BY <1>3, ReturnFits DEF Forget
<1> QED BY <1>1, <1>2, <1>3

(* Others install a configuration while no call relies on the old one. *)
LEMMA EditFits ==
  ASSUME ClosesOverlap, TypeOK, Marks, FilesInv, ExternalEdit
  PROVE  FilesInv'
<1>1. \A k \in Handle : ~InCall(k) /\ fd[k] = NoFd
  BY RegimeAssumption DEF ClosesOverlap, ExternalEdit, FilesInv, Descriptors, InCall, Steps
<1>2. PICK c \in User \cup {Absent}, l \in LinkKinds :
         /\ file' = [file EXCEPT !["conf"] = c]
         /\ user' = c
  BY DEF ExternalEdit
<1>3. Kept'
  BY <1>2 DEF Kept, InForce, TypeOK, Path
<1>4. UNCHANGED <<pc, job, cfg, buf>> /\ "edit" \in happened'
  BY DEF ExternalEdit
<1>5. \A k \in Handle : fd'[k] = NoFd
  BY <1>1 DEF ExternalEdit, FdsAfterUnlink
<1>6. \A k \in Handle : job[k] = "none" /\ pc[k] \in Rest
  BY <1>1, MovingInCall DEF TypeOK, InCall
<1>7. OneApply' /\ OneMove' /\ Descriptors'
  BY <1>1, <1>4, <1>5, <1>6 DEF OneApply, OneMove, Applying, Moving, InCall, Descriptors
<1>8. ASSUME NEW k \in Handle PROVE Fits(k)'
  BY <1>4, <1>6
  DEF Fits, NoMove, BackupMove, TempMove, Installs, PutsBack, Holds
<1> QED BY <1>3, <1>7, <1>8 DEF FilesInv

(* Every step keeps what the slots know of the three files. *)
LEMMA FilesStep ==
  ASSUME ClosesOverlap
  PROVE  TypeOK /\ Marks /\ FilesInv /\ [Next]_vars => FilesInv'
<1> SUFFICES ASSUME TypeOK, Marks, FilesInv, [Next]_vars PROVE FilesInv'
  OBVIOUS
<1>1. ASSUME NEW h \in Handle, Apply(h) \/ Close(h) PROVE FilesInv'
  BY <1>1, StartFits
<1>2. ASSUME NEW h \in Handle, Step(h) PROVE FilesInv'
  BY <1>2, LookingFits, CopyOpenFits, TempOpenFits, WriteFits, FsyncFits, RenameFits,
     RemoveFits, SyncDirFits DEF Step
<1>3. ASSUME NEW h \in Handle, IoError(h) \/ Forget(h) \/ Crash(h) PROVE FilesInv'
  BY <1>3, MishapFits
<1>4. CASE ExternalEdit
  BY <1>4, EditFits
<1>5. CASE UNCHANGED vars
  BY <1>5 DEF vars, FilesInv, Kept, InForce, Saved, OneApply, OneMove, Applying, Moving,
     InCall, Descriptors, Fits, NoMove, BackupMove, TempMove, Installs, PutsBack, Holds
<1> QED BY <1>1, <1>2, <1>3, <1>4, <1>5 DEF Next

(* Initially resolv.conf is the user's and no slot is in a call. *)
LEMMA FilesInit == Init => Marks /\ FilesInv
<1> SUFFICES ASSUME Init PROVE Marks /\ FilesInv
  OBVIOUS
<1>1. Kept
  BY DEF Init, Kept, InForce, Path
<1>2. Marks /\ OneApply /\ OneMove /\ Descriptors
  BY DEF Init, Marks, OwnMark, OneApply, OneMove, Applying, Moving, InCall, Steps, Descriptors
<1>3. \A h \in Handle : Fits(h)
  BY DEF Init, Fits, NoMove, BackupMove, TempMove, Installs, PutsBack, Holds, Rest
<1> QED BY <1>1, <1>2, <1>3 DEF FilesInv

(* Whoever has a mark in RESOLV_CONF owns the files: the inductive          *)
(* invariant of closes that overlap with each other and with one apply.     *)
THEOREM OverlapInvariant == ASSUME ClosesOverlap PROVE Spec => []OverlapInv
<1>1. Init => OverlapInv
  BY TypeInit, FilesInit DEF OverlapInv
<1>2. OverlapInv /\ [Next]_vars => OverlapInv'
  <2>1. Marks => Configured
    BY DEF Marks, OwnMark, Configured
  <2> QED BY <2>1, TypeStep, MarkStep, FilesStep DEF OverlapInv
<1> QED BY <1>1, <1>2, PTL DEF Spec

(* The user's configuration survives every interleaving of closes with each *)
(* other and with one apply: it is complete in RESOLV_CONF or in BACKUP.    *)
THEOREM OverlapUserConfigKept == ASSUME ClosesOverlap PROVE Spec => []UserConfigKept
<1>1. OverlapInv => UserConfigKept
  BY DEF OverlapInv, FilesInv, Kept, InForce, Saved, UserConfigKept
<1> QED BY <1>1, OverlapInvariant, PTL

(* The DNS configuration stays active while the handle is alive: no apply   *)
(* and no close of another program takes it away.                           *)
THEOREM OverlapLiveActive == ASSUME ClosesOverlap PROVE Spec => []LiveActive
<1>1. OverlapInv => LiveActive
  BY DEF OverlapInv, FilesInv, Fits, Holds, LiveActive
<1> QED BY <1>1, OverlapInvariant, PTL

(* A call of one slot is a call of that slot. *)
LEMMA OtherSlots ==
  ASSUME TypeOK, NEW h \in Handle,
         \/ Apply(h) \/ Close(h) \/ Step(h) \/ IoError(h) \/ Forget(h) \/ Crash(h)
  PROVE  \A k \in Handle \ {h} : pc'[k] = pc[k] /\ job'[k] = job[k]
<1>1. CASE Step(h)
  BY <1>1 DEF Step, ProbeLink, ProbeStub, CleanupResidual, CloseReads, RequireBackup, CheckStale,
     CopyOpen, TempOpen, Write, Fsync, Rename, Remove, SyncDir, Fail, Return, Goto, TypeOK
<1>2. CASE ~Step(h)
  BY <1>2 DEF Apply, Close, IoError, Forget, Crash, Fail, Return, Goto, TypeOK
<1> QED BY <1>1, <1>2

(* Without I/O errors and edits close never returns an error, whatever runs *)
(* beside it.                                                               *)
THEOREM OverlapCloseSucceeds == ASSUME ClosesOverlap PROVE Spec => CloseSucceeds
<1>1. OverlapInv /\ [Next]_vars =>
        [\A h \in Handle :
           (pc[h] = "closing" \/ job[h] = "restore") /\ pc'[h] = "idle"
             => CloseReturnsOk(h) \/ happened' \cap {"io", "edit"} # {}]_vars
  <2> SUFFICES ASSUME OverlapInv, Next, NEW h \in Handle,
                      pc[h] = "closing" \/ job[h] = "restore", pc'[h] = "idle",
                      ~CloseReturnsOk(h), happened' \cap {"io", "edit"} = {}
               PROVE  FALSE
    BY DEF OverlapInv
  <2> USE DEF fileVars, history, Happens
  <2>1. TypeOK /\ Fits(h) /\ InCall(h) /\ (job[h] = "restore" => fd[h] = NoFd \/ pc[h] = "write")
    BY MovingInCall DEF OverlapInv, FilesInv, Descriptors, InCall, Steps
  <2>2. pc[h] # "idle"
    BY <2>1 DEF InCall, Steps
  <2>3. Step(h)
    <3>1. PICK k \in Handle : \/ Apply(k) \/ Close(k) \/ Step(k)
                             \/ IoError(k) \/ Forget(k) \/ Crash(k)
      BY DEF Next, ExternalEdit
    <3>2. ~ExternalEdit /\ ~IoError(h)
      BY DEF ExternalEdit, IoError
    <3>3. ~Apply(h) /\ ~Close(h) /\ ~Forget(h) /\ ~Crash(h)
      BY <2>1 DEF Apply, Close, Forget, Crash, Return, Goto, TypeOK, InCall, Steps
    <3> QED BY <2>1, <2>2, <3>1, <3>2, <3>3, OtherSlots
  <2>4. CASE pc[h] = "closing"
    <3>1. CloseReads(h) /\ happened' = happened
      BY <2>3, <2>4 DEF Step, ProbeLink, ProbeStub, CleanupResidual, CloseReads, RequireBackup,
         CheckStale, CopyOpen, TempOpen, Write, Fsync, Rename, Remove, SyncDir
    <3>2. OwnedBy(file["conf"], cfg[h].owner)
      BY <2>4, <3>1, InConf DEF OverlapInv
    <3> QED BY <2>1, <3>1, <3>2 DEF CloseReads, Goto, TypeOK
  <2>5. CASE job[h] = "restore" /\ pc[h] # "closing"
    <3>1. /\ pc[h] \in {"require_backup", "rename", "copy_open", "write", "fsync", "remove"}
          /\ Saved /\ file["bak"] # Absent /\ From(job[h]) = "bak"
          /\ pc[h] = "fsync" => InForce
      BY <2>1, <2>3, <2>5 DEF Fits, PutsBack, Saved, From, CloseReturnsOk, Step, ProbeLink,
         ProbeStub, CleanupResidual, CloseReads, RequireBackup, CheckStale, CopyOpen, TempOpen,
         Write, Fsync, Rename, Remove
    <3>2. pc[h] = "fsync" => file[To(job[h])] # Absent
      BY <2>5, <3>1 DEF To, Saved, InForce
    <3> QED BY <2>1, <2>3, <2>5, <3>1, <3>2
        DEF Step, ProbeLink, ProbeStub, CleanupResidual, CloseReads, RequireBackup,
            CheckStale, CopyOpen, TempOpen, Write, Fsync, Rename, Remove, SyncDir, Goto, TypeOK
  <2> QED BY <2>4, <2>5
<1> QED BY <1>1, OverlapInvariant, PTL DEF Spec, CloseSucceeds

-----------------------------------------------------------------------------
(* What a slot knows of the files before the last step of its file move is  *)
(* no less than when no calls overlap.                                      *)
LEMMA FitsMove ==
  ASSUME NEW h \in Handle, Fits(h), pc[h] # "sync_dir"
  PROVE  Move(h)
BY DEF Fits, Move, InstallMove, RestoreMove, Installs, PutsBack

(* The undo log is implemented by closes that overlap as well.              *)
THEOREM OverlapImplementsUndoLog ==
  ASSUME ClosesOverlap PROVE Spec => ImplementsUndoLog
<1>1. Init => Undo!Init
  BY DEF Init, Undo!Init, Path
<1>2. OverlapInv /\ [Next]_vars => [Undo!Next]_(Undo!vars)
  <2>1. OverlapInv => /\ TypeOK /\ Configured
                      /\ \A h \in Handle : pc[h] # "sync_dir" => Move(h)
    BY FitsMove DEF OverlapInv, FilesInv, Marks, OwnMark, Configured
  <2> QED BY <2>1, NextIsUndo
<1> QED BY <1>1, <1>2, OverlapInvariant, PTL DEF Spec, ImplementsUndoLog, Undo!Spec

-----------------------------------------------------------------------------
(* A call that fails although nothing went wrong had no file to account for. *)
LEMMA FailLeavesNothing ==
  ASSUME TypeOK, Marks, FilesInv, NEW h \in Handle, Step(h), Fail(h), happened = {}
  PROVE  ~Overrides(h) /\ ~BacksUp(h) /\ ~Prepares(h) /\ file' = file
<1> USE DEF fileVars, history
<1>1. Fits(h) /\ InCall(h) /\ pc'[h] = "idle" /\ job[h] \in Jobs
  BY DEF FilesInv, Fail, Return, Goto, TypeOK, InCall, Steps, Step, ProbeLink, ProbeStub,
     CleanupResidual, CloseReads, RequireBackup, CheckStale, CopyOpen, TempOpen, Write, Fsync,
     Rename, Remove, SyncDir
<1>2. CASE ProbeLink(h) \/ ProbeStub(h) \/ CleanupResidual(h) \/ CheckStale(h)
  <2>1. job[h] = "none" /\ pc[h] \notin {"live", "closing"} /\ file' = file
    BY <1>1, <1>2 DEF ProbeLink, ProbeStub, CleanupResidual, CheckStale, Fits, BackupMove,
       TempMove, Installs, PutsBack, Jobs
  <2> QED BY <2>1 DEF Overrides, BacksUp, Prepares
<1>3. ~CloseReads(h)
  <2> SUFFICES ASSUME CloseReads(h) PROVE FALSE
    OBVIOUS
  <2>1. pc[h] = "closing" /\ OwnedBy(file["conf"], cfg[h].owner)
    BY InConf DEF CloseReads
  <2> QED BY <1>1, <2>1 DEF CloseReads, Goto, TypeOK
<1>4. ~RequireBackup(h)
  BY <1>1 DEF RequireBackup, Fits, NoMove, BackupMove, TempMove, Installs, PutsBack, Saved,
     Goto, TypeOK, Jobs, Rest
<1>5. CASE CopyOpen(h)
  <2>1. job[h] \in {"backup", "install", "reclaim", "restore"} /\ pc[h] = "copy_open"
    BY <1>1, <1>5 DEF CopyOpen, Fits, NoMove, TempMove, Jobs, Rest
  <2>2. job[h] # "backup" => file[From(job[h])] # Absent
    BY <1>1, <1>5, <2>1, ContentAssumption
    DEF CopyOpen, From, Fits, Installs, PutsBack, Saved, Marks, OwnMark
  <2>3. job[h] = "backup" /\ file' = file
    BY <1>1, <1>5, <2>1, <2>2 DEF CopyOpen, Goto, TypeOK
  <2> QED BY <2>1, <2>3 DEF Overrides, BacksUp, Prepares
<1>6. ~TempOpen(h) /\ ~Write(h)
  BY <1>1 DEF TempOpen, Write, Goto, TypeOK
<1>7. ~Fsync(h)
  <2> SUFFICES ASSUME Fsync(h) PROVE FALSE
    OBVIOUS
  <2>1. job[h] \in {"backup", "temp", "install", "reclaim", "restore"} /\ pc[h] = "fsync"
    BY <1>1 DEF Fsync, Fits, NoMove, Jobs, Rest
  <2>2. job[h] # "temp" => file[To(job[h])] # Absent
    BY <1>1, <2>1, ContentAssumption
    DEF To, Fits, BackupMove, Installs, PutsBack, Saved, InForce, Marks, OwnMark
  <2> QED BY <1>1, <2>1, <2>2 DEF Fsync, TypeOK
<1>8. ~Rename(h) /\ ~Remove(h)
  <2> SUFFICES ASSUME Rename(h) \/ Remove(h) PROVE FALSE
    OBVIOUS
  <2>1. job[h] \in {"install", "reclaim", "restore"} /\ pc[h] \in {"rename", "remove"}
    BY <1>1 DEF Rename, Remove, Fits, NoMove, BackupMove, TempMove, Jobs, Rest
  <2>2. file[From(job[h])] # Absent
    BY <1>1, <2>1, ContentAssumption
    DEF From, Fits, Installs, PutsBack, Saved, Marks, OwnMark
  <2> QED BY <1>1, <2>1, <2>2 DEF Rename, Remove, Goto, TypeOK
<1>9. CASE SyncDir(h)
  <2>1. pc[h] = "sync_dir" /\ file' = file /\ job[h] \notin {"none", "temp", "backup"}
    BY <1>1, <1>9 DEF SyncDir, Fits, NoMove, BackupMove, TempMove, Rest
  <2>2. job[h] # "install"
    BY <1>1, <1>9 DEF SyncDir, Return, Goto, TypeOK
  <2> QED BY <2>1, <2>2 DEF Overrides, BacksUp, Prepares
<1> QED BY <1>2, <1>3, <1>4, <1>5, <1>6, <1>7, <1>8, <1>9 DEF Step

(* A step of slot h leaves every file accounted for if slot h accounts for  *)
(* what it changes, and for what it accounted for before.                   *)
LEMMA ExplainedFrame ==
  ASSUME Explained, happened = {}, NEW h \in Handle,
         \A k \in Handle \ {h} : pc'[k] = pc[k] /\ job'[k] = job[k],
         \/ InForce' \/ Overrides(h)'
         \/ file'["conf"] = file["conf"] /\ user' = user /\ ~Overrides(h),
         \/ file'["bak"] = Absent \/ BacksUp(h)'
         \/ file'["bak"] = file["bak"] /\ ~BacksUp(h),
         \/ file'["tmp"] = Absent \/ Prepares(h)'
         \/ file'["tmp"] = file["tmp"] /\ ~Prepares(h)
  PROVE  Explained'
<1>1. ASSUME NEW k \in Handle \ {h}
      PROVE  /\ Overrides(k)' <=> Overrides(k)
             /\ BacksUp(k)' <=> BacksUp(k)
             /\ Prepares(k)' <=> Prepares(k)
  BY DEF Overrides, BacksUp, Prepares
<1>2. InForce' \/ \E k \in Handle : Overrides(k)'
  BY <1>1 DEF Explained, InForce
<1>3. file'["bak"] = Absent \/ \E k \in Handle : BacksUp(k)'
  BY <1>1 DEF Explained
<1>4. file'["tmp"] = Absent \/ \E k \in Handle : Prepares(k)'
  BY <1>1 DEF Explained
<1> QED BY <1>2, <1>3, <1>4 DEF Explained

(* A system call leaves every file accounted for. *)
LEMMA ExplainedCall ==
  ASSUME TypeOK, Marks, FilesInv, Explained, NEW h \in Handle, Step(h),
         happened = {}, happened' = {}
  PROVE  Explained'
<1> USE DEF fileVars, history
<1>1. /\ Fits(h) /\ InCall(h) /\ job[h] \in Jobs
      /\ \A k \in Handle \ {h} : pc'[k] = pc[k] /\ job'[k] = job[k]
  BY OtherSlots DEF FilesInv, TypeOK, InCall, Steps, Step, ProbeLink, ProbeStub,
     CleanupResidual, CloseReads, RequireBackup, CheckStale, CopyOpen, TempOpen, Write, Fsync,
     Rename, Remove, SyncDir
<1>2. user' = user
  BY DEF Step, ProbeLink, ProbeStub, CleanupResidual, CloseReads, RequireBackup, CheckStale,
     CopyOpen, TempOpen, Write, Fsync, Rename, Remove, SyncDir, Happens
<1>3. CASE Fail(h)
  BY <1>1, <1>2, <1>3, FailLeavesNothing, ExplainedFrame
<1>4. CASE ~Fail(h) /\ (ProbeLink(h) \/ ProbeStub(h) \/ CleanupResidual(h) \/ CheckStale(h))
  <2>1. job[h] = "none" /\ pc[h] \notin {"live", "closing"} /\ file' = file
    BY <1>1, <1>4 DEF ProbeLink, ProbeStub, CleanupResidual, CheckStale, Fits, BackupMove,
       TempMove, Installs, PutsBack, Jobs
  <2> QED BY <1>1, <1>2, <2>1, ExplainedFrame DEF Overrides, BacksUp, Prepares
<1>5. CASE ~Fail(h) /\ (CloseReads(h) \/ RequireBackup(h))
  <2>1. /\ job'[h] \in {"reclaim", "restore"} /\ pc'[h] # "sync_dir" /\ file' = file
        /\ job[h] \in {"none", "reclaim", "restore"}
    BY <1>1, <1>5 DEF CloseReads, RequireBackup, Fits, NoMove, BackupMove, TempMove, Installs,
       Jobs, Rest, Goto, TypeOK
  <2> QED BY <1>1, <2>1, ExplainedFrame DEF Overrides, BacksUp, Prepares
<1>6. CASE ~Fail(h) /\ CopyOpen(h)
  <2>1. /\ pc'[h] = "write" /\ job'[h] = job[h] /\ pc[h] = "copy_open"
        /\ file' = [file EXCEPT ![To(job[h])] = Torn]
    BY <1>6 DEF CopyOpen, Goto, TypeOK
  <2>2. job[h] \in {"backup", "install", "reclaim", "restore"}
    BY <1>1, <2>1 DEF Fits, NoMove, TempMove, Jobs, Rest
  <2>3. file'["tmp"] = file["tmp"] /\ (job[h] = "backup" => file'["conf"] = file["conf"])
    BY <2>1, <2>2 DEF To, TypeOK, Path
  <2> QED BY <1>1, <1>2, <2>1, <2>2, <2>3, ExplainedFrame DEF Overrides, BacksUp, Prepares
<1>7. CASE TempOpen(h)
  <2>1. /\ pc'[h] = "write" /\ job'[h] = "temp" /\ job[h] = "temp" /\ pc[h] = "temp_open"
        /\ file'["conf"] = file["conf"]
    BY <1>1, <1>7 DEF TempOpen, Goto, TypeOK, Fits, NoMove, BackupMove, Installs, PutsBack,
       Jobs, Rest
  <2> QED BY <1>1, <1>2, <2>1, ExplainedFrame DEF Overrides, BacksUp, Prepares
<1>8. CASE Write(h)
  <2>1. /\ pc'[h] = "fsync" /\ job'[h] = job[h] /\ pc[h] = "write"
        /\ job[h] \in {"backup", "temp", "install", "reclaim", "restore"}
    BY <1>1, <1>8 DEF Write, Goto, TypeOK, Fits, NoMove, Jobs, Rest
  <2>2. file' = [file EXCEPT ![fd[h]] = buf[h]] /\ fd[h] \in {"bak", "tmp", "conf"}
    BY <1>1, <1>8, <2>1
    DEF Write, NoFd, Fits, BackupMove, TempMove, Installs, PutsBack
  <2>3. /\ job[h] \in {"backup", "temp"} => file'["conf"] = file["conf"]
        /\ job[h] \notin {"temp", "install"} => file'["tmp"] = file["tmp"]
    BY <1>1, <2>1, <2>2 DEF TypeOK, Path, Fits, BackupMove, TempMove, PutsBack
  <2> QED BY <1>1, <1>2, <2>1, <2>3, ExplainedFrame DEF Overrides, BacksUp, Prepares
<1>9. CASE ~Fail(h) /\ Fsync(h)
  <2>1. /\ pc[h] = "fsync" /\ file' = file
        /\ job[h] \in {"backup", "temp", "install", "reclaim", "restore"}
    BY <1>1, <1>9 DEF Fsync, Fits, NoMove, Jobs, Rest
  <2>2. /\ pc'[h] \in {"temp_open", "rename", "remove"}
        /\ job[h] = "backup" => job'[h] = "temp"
        /\ job[h] = "temp" => job'[h] = "install"
        /\ job[h] \notin {"backup", "temp"} => job'[h] = job[h]
    BY <1>9, <2>1 DEF Fsync, TypeOK
  <2> QED BY <1>1, <1>2, <2>1, <2>2, ExplainedFrame DEF Overrides, BacksUp, Prepares
<1>10. CASE ~Fail(h) /\ (Rename(h) \/ Remove(h))
  <2>1. /\ pc[h] \in {"rename", "remove"} /\ job'[h] = job[h]
        /\ job[h] \in {"install", "reclaim", "restore"}
    BY <1>1, <1>10 DEF Rename, Remove, Fits, NoMove, BackupMove, TempMove, Jobs, Rest
  <2>2. CASE file' = file
    <3>1. pc'[h] \in {"copy_open", "sync_dir"}
      BY <1>10 DEF Rename, Remove, Goto, TypeOK
    <3>2. pc'[h] # "sync_dir"
      <4>1. From(job[h]) \in Path /\ file[From(job[h])] # Absent
        BY <1>10, <2>1, MovePaths DEF Rename, Remove
      <4>2. pc'[h] = "sync_dir" => file'[From(job[h])] = Absent
        BY <1>10, <2>1 DEF Rename, Remove, Goto, TypeOK, From, Path
      <4> QED BY <2>2, <4>1, <4>2
    <3> QED BY <1>1, <2>1, <2>2, <3>1, <3>2, ExplainedFrame DEF Overrides, BacksUp, Prepares
  <2>3. CASE file' # file
    <3>1. /\ pc'[h] = "sync_dir"
          /\ \/ file' = [file EXCEPT !["conf"] = file[From(job[h])], ![From(job[h])] = Absent]
                /\ pc[h] = "rename"
             \/ file' = [file EXCEPT ![From(job[h])] = Absent] /\ pc[h] = "remove"
      BY <1>10, <2>3 DEF Rename, Remove, Goto, TypeOK
    <3>2. CASE job[h] = "install"
      <4>1. file'["tmp"] = Absent
        BY <3>1, <3>2 DEF From, TypeOK, Path
      <4> QED BY <1>1, <2>1, <3>1, <3>2, <4>1, ExplainedFrame DEF Overrides, BacksUp
    <3>3. CASE job[h] # "install"
      <4>1. file'["bak"] = Absent /\ file'["tmp"] = file["tmp"] /\ file'["conf"] = user
        BY <1>1, <2>1, <3>1, <3>3
        DEF From, TypeOK, Path, Fits, PutsBack, Saved, InForce
      <4> QED BY <1>1, <1>2, <2>1, <3>1, <3>3, <4>1, ExplainedFrame DEF Prepares, InForce
    <3> QED BY <3>2, <3>3
  <2> QED BY <2>2, <2>3
<1>11. CASE SyncDir(h)
  <2>1. /\ pc[h] = "sync_dir" /\ file' = file
        /\ job[h] \in {"install", "reclaim", "restore"}
    BY <1>1, <1>11 DEF SyncDir, Fits, NoMove, BackupMove, TempMove, Jobs, Rest
  <2>2. job[h] = "install" => pc'[h] = "live"
    BY <1>11 DEF SyncDir, Return, Goto, TypeOK
  <2> QED BY <1>1, <1>2, <2>1, <2>2, ExplainedFrame DEF Overrides, BacksUp, Prepares
<1> QED BY <1>3, <1>4, <1>5, <1>6, <1>7, <1>8, <1>9, <1>10, <1>11 DEF Step

(* As long as nothing went wrong, no step leaves a file to nobody. *)
LEMMA ExplainedStep == OverlapInv /\ Explained /\ [Next]_vars => Explained'
<1> SUFFICES ASSUME OverlapInv, Explained, [Next]_vars, happened' = {} PROVE Explained'
  BY DEF Explained
<1> USE DEF fileVars, history, Happens
<1>1. TypeOK /\ Marks /\ FilesInv
  BY DEF OverlapInv
<1>2. happened = {}
  BY DEF Next, vars, Apply, Close, Step, ProbeLink, ProbeStub, CleanupResidual, CloseReads,
     RequireBackup, CheckStale, CopyOpen, TempOpen, Write, Fsync, Rename, Remove, SyncDir,
     IoError, Forget, Crash, ExternalEdit
<1>3. ASSUME NEW h \in Handle, Step(h) PROVE Explained'
  BY <1>1, <1>2, <1>3, ExplainedCall
<1>4. ASSUME NEW h \in Handle, Apply(h) \/ Close(h) PROVE Explained'
  <2>1. /\ \A k \in Handle \ {h} : pc'[k] = pc[k] /\ job'[k] = job[k]
        /\ file' = file /\ user' = user
    BY <1>1, <1>4, OtherSlots DEF Apply, Close
  <2>2. job[h] = "none" /\ job'[h] = "none"
    BY <1>1, <1>4, MovingInCall DEF Apply, Close, InCall, Steps
  <2>3. \/ pc[h] \in {"idle", "dead"}
        \/ pc'[h] = "closing"
    BY <1>1, <1>4 DEF Apply, Close, Goto, TypeOK
  <2> QED BY <1>2, <2>1, <2>2, <2>3, ExplainedFrame DEF Overrides, BacksUp, Prepares
<1>5. ASSUME NEW h \in Handle PROVE ~IoError(h) /\ ~Forget(h) /\ ~Crash(h)
  BY DEF IoError, Forget, Crash
<1>6. ~ExternalEdit
  BY DEF ExternalEdit
<1>7. CASE UNCHANGED vars
  BY <1>7 DEF vars, Explained, InForce, Overrides, BacksUp, Prepares
<1> QED BY <1>3, <1>4, <1>5, <1>6, <1>7 DEF Next

(* As long as nothing went wrong, every trace in a file is some slot's.     *)
THEOREM OverlapExplained == ASSUME ClosesOverlap PROVE Spec => []Explained
<1>1. Init => Explained
  BY DEF Init, Explained, InForce, Path
<1> QED BY <1>1, ExplainedStep, OverlapInvariant, PTL DEF Spec

(* The configuration of before the first apply is back when no handle is    *)
(* left and no call is running.                                             *)
THEOREM OverlapIdleMeansRestored ==
  ASSUME ClosesOverlap PROVE Spec => []IdleMeansRestored
<1>1. OverlapInv /\ Explained => IdleMeansRestored
  <2> SUFFICES ASSUME OverlapInv, Explained, happened = {}, \A h \in Handle : pc[h] = "idle"
               PROVE  InForce
    BY DEF IdleMeansRestored, InForce
  <2>1. \A h \in Handle : job[h] = "none"
    BY MovingInCall DEF OverlapInv, InCall, Steps
  <2> QED BY <2>1 DEF Explained, Overrides
<1> QED BY <1>1, OverlapInvariant, OverlapExplained, PTL

(* A refused apply with nothing else in use leaves no BACKUP, no TEMP and   *)
(* no owner header.                                                         *)
THEOREM OverlapFailedApplyLeavesNothing ==
  ASSUME ClosesOverlap PROVE Spec => FailedApplyLeavesNothing
<1> DEFINE AtWork == \A k \in Handle : job[k] # "none" => InCall(k)
<1>0. OverlapInv => AtWork
  BY MovingInCall DEF OverlapInv
<1>1. OverlapInv /\ OverlapInv' /\ AtWork' /\ Explained' /\ [Next]_vars =>
        [\A h \in Handle :
           (/\ Applying(h) /\ pc'[h] = "idle" /\ happened' = {}
            /\ \A k \in Handle \ {h} : pc[k] = "idle")
             => /\ file'["bak"] = Absent /\ file'["tmp"] = Absent
                /\ file'["conf"] \notin Managed]_vars
  <2> SUFFICES ASSUME OverlapInv, OverlapInv', AtWork', Explained', Next, NEW h \in Handle,
                      Applying(h), pc'[h] = "idle", happened' = {},
                      \A k \in Handle \ {h} : pc[k] = "idle"
               PROVE  /\ file'["bak"] = Absent /\ file'["tmp"] = Absent
                      /\ file'["conf"] \notin Managed
    OBVIOUS
  <2>1. TypeOK /\ pc[h] # "idle"
    BY DEF OverlapInv, Applying, InCall, Steps
  <2>2. \A k \in Handle : pc'[k] = "idle"
    <3>1. PICK k \in Handle : \/ Apply(k) \/ Close(k) \/ Step(k)
                              \/ IoError(k) \/ Forget(k) \/ Crash(k)
      BY <2>1 DEF Next, ExternalEdit
    <3>2. k = h
      BY <2>1, <3>1, OtherSlots
    <3> QED BY <2>1, <3>1, <3>2, OtherSlots
  <2>3. \A k \in Handle : job'[k] = "none"
    BY <2>2 DEF InCall, Steps
  <2>4. /\ InForce' /\ file'["bak"] = Absent /\ file'["tmp"] = Absent
    BY <2>2, <2>3 DEF Explained, Overrides, BacksUp, Prepares
  <2>5. user' \notin Managed
    BY ContentAssumption DEF OverlapInv, TypeOK
  <2> QED BY <2>4, <2>5 DEF InForce
<1> QED BY <1>0, <1>1, OverlapInvariant, OverlapExplained, PTL DEF Spec, FailedApplyLeavesNothing

-----------------------------------------------------------------------------
(* RESOLV_CONF is only replaced by an apply that is past the probes, or     *)
(* where a managed or a half-written file is, and never behind a link of    *)
(* systemd-resolved's.                                                      *)
LEMMA ConfStep ==
  ASSUME TypeOK, Marks, FilesInv, Spared, NEW h \in Handle, Step(h)
  PROVE  \/ file'["conf"] = file["conf"] /\ link' = link
         \/ /\ file'["conf"] \in Managed \cup {Torn, file["bak"]}
            /\ link' = "file" \/ (link' = link /\ link # "resolved")
            /\ Past(h) \/ file["conf"] \in Managed \cup {Torn}
<1> USE DEF fileVars
<1>1. Fits(h) /\ job[h] \in Jobs /\ InCall(h)
  BY DEF FilesInv, TypeOK, InCall, Steps, Step, ProbeLink, ProbeStub, CleanupResidual,
     CloseReads, RequireBackup, CheckStale, CopyOpen, TempOpen, Write, Fsync, Rename, Remove,
     SyncDir
<1>2. cfg[h] \in Managed
  BY <1>1 DEF Marks, OwnMark
<1>3. CASE CopyOpen(h)
  <2>1. pc[h] = "copy_open" /\ link' = link
    BY <1>3 DEF CopyOpen
  <2>2. CASE file' = file
    BY <2>1, <2>2
  <2>3. CASE file' = [file EXCEPT ![To(job[h])] = Torn] /\ job[h] = "backup"
    BY <2>1, <2>3 DEF To, TypeOK, Path
  <2>4. CASE file' = [file EXCEPT ![To(job[h])] = Torn] /\ job[h] # "backup"
    <3>1. job[h] \in {"install", "reclaim", "restore"}
      BY <1>1, <2>1, <2>4 DEF Fits, NoMove, TempMove, Jobs, Rest
    <3>2. file'["conf"] = Torn
      BY <2>4, <3>1 DEF To, TypeOK, Path
    <3>3. link = "file"
      BY <2>1, <2>4 DEF Spared
    <3>4. job[h] # "install" => file["conf"] \in Managed
      BY <1>1, <2>1, <3>1 DEF Fits, PutsBack, OwnedBy
    <3>5. job[h] = "install" => Past(h)
      BY <1>1, <2>1 DEF Past, Applying
    <3> QED BY <2>1, <3>1, <3>2, <3>3, <3>4, <3>5
  <2> QED BY <1>3, <2>2, <2>3, <2>4 DEF CopyOpen
<1>4. CASE Write(h)
  <2>1. /\ pc[h] = "write" /\ link' = link
        /\ job[h] \in {"backup", "temp", "install", "reclaim", "restore"}
    BY <1>1, <1>4 DEF Write, Fits, NoMove, Jobs, Rest
  <2>2. fd[h] \in {"bak", "tmp", "conf"} /\ file' = [file EXCEPT ![fd[h]] = buf[h]]
    BY <1>1, <1>4, <2>1 DEF Write, NoFd, Fits, BackupMove, TempMove, Installs, PutsBack
  <2>3. CASE job[h] \in {"backup", "temp"}
    BY <1>1, <2>1, <2>2, <2>3 DEF Fits, BackupMove, TempMove, TypeOK, Path
  <2>4. CASE job[h] \in {"install", "reclaim", "restore"}
    <3>1. /\ file["conf"] = Torn /\ file'["conf"] = buf[h]
          /\ buf[h] \in Managed \cup {file["bak"]}
      BY <1>1, <1>2, <2>1, <2>2, <2>4 DEF Fits, Installs, PutsBack, Saved, TypeOK, Path
    <3> QED BY <2>1, <3>1 DEF Spared
  <2> QED BY <2>1, <2>3, <2>4
<1>5. CASE Rename(h)
  <2>1. pc[h] = "rename" /\ job[h] \in {"install", "reclaim", "restore"}
    BY <1>1, <1>5 DEF Rename, Fits, NoMove, BackupMove, TempMove, Jobs, Rest
  <2>2. CASE UNCHANGED <<file, link>>
    BY <2>2
  <2>3. CASE /\ file' = [file EXCEPT !["conf"] = file[From(job[h])], ![From(job[h])] = Absent]
             /\ link' = "file"
    <3>0. link' = "file"
      BY <2>3
    <3>1. CASE job[h] = "install"
      <4>1. file'["conf"] = cfg[h]
        BY <1>1, <2>1, <2>3, <3>1 DEF From, TypeOK, Path, Fits, Installs
      <4>2. Past(h)
        BY <1>1, <2>1, <3>1 DEF Past, Applying
      <4> QED BY <1>2, <3>0, <4>1, <4>2
    <3>2. CASE job[h] # "install"
      <4>1. file'["conf"] = file["bak"] /\ file["conf"] \in Managed
        BY <1>1, <2>1, <2>3, <3>2 DEF From, TypeOK, Path, Fits, PutsBack, OwnedBy
      <4> QED BY <3>0, <4>1
    <3> QED BY <3>1, <3>2
  <2> QED BY <1>5, <2>2, <2>3 DEF Rename
<1>6. CASE TempOpen(h) \/ Remove(h)
  <2>1. job[h] \in {"temp", "install", "reclaim", "restore"} /\ link' = link
    BY <1>1, <1>6 DEF TempOpen, Remove, Fits, NoMove, BackupMove, Jobs, Rest
  <2>2. file'["conf"] = file["conf"]
    BY <1>6, <2>1 DEF TempOpen, Remove, From, TypeOK, Path
  <2> QED BY <2>1, <2>2
<1> QED BY <1>3, <1>4, <1>5, <1>6 DEF Step, ProbeLink, ProbeStub, CleanupResidual, CloseReads,
           RequireBackup, CheckStale, Fsync, SyncDir

(* BACKUP only becomes a copy of what an apply past the probes has found.   *)
LEMMA BackupStep ==
  ASSUME TypeOK, Marks, FilesInv, NEW h \in Handle, Step(h)
  PROVE  \/ file'["bak"] \in {file["bak"], Absent, Torn}
         \/ file'["bak"] = file["conf"] /\ Past(h)
<1> USE DEF fileVars
<1>1. Fits(h) /\ job[h] \in Jobs /\ InCall(h)
  BY DEF FilesInv, TypeOK, InCall, Steps, Step, ProbeLink, ProbeStub, CleanupResidual,
     CloseReads, RequireBackup, CheckStale, CopyOpen, TempOpen, Write, Fsync, Rename, Remove,
     SyncDir
<1>2. CASE Write(h)
  <2>1. pc[h] = "write" /\ job[h] \in {"backup", "temp", "install", "reclaim", "restore"}
    BY <1>1, <1>2 DEF Write, Fits, NoMove, Jobs, Rest
  <2>2. /\ job[h] # "backup" => fd[h] \in {"tmp", "conf"}
        /\ job[h] = "backup" => fd[h] = "bak" /\ buf[h] = file["conf"]
        /\ file' = [file EXCEPT ![fd[h]] = buf[h]]
    BY <1>1, <1>2, <2>1
    DEF Write, NoFd, Fits, BackupMove, TempMove, Installs, PutsBack, InForce
  <2>3. job[h] = "backup" => Past(h)
    BY <1>1, <2>1 DEF Past, Applying
  <2> QED BY <2>1, <2>2, <2>3 DEF TypeOK, Path
<1>3. CASE Rename(h)
  <2>1. job[h] \in {"install", "reclaim", "restore"}
    BY <1>1, <1>3 DEF Rename, Fits, NoMove, BackupMove, TempMove, Jobs, Rest
  <2> QED BY <1>3, <2>1 DEF Rename, From, TypeOK, Path
<1>4. CASE CopyOpen(h) \/ TempOpen(h) \/ Remove(h)
  BY <1>4 DEF CopyOpen, TempOpen, Remove, From, To, TypeOK, Path
<1> QED BY <1>2, <1>3, <1>4 DEF Step, ProbeLink, ProbeStub, CleanupResidual, CloseReads,
           RequireBackup, CheckStale, Fsync, SyncDir

(* An apply goes on past a probe that found nothing of systemd-resolved's,  *)
(* or could not look.                                                       *)
LEMMA ProbeStep ==
  ASSUME TypeOK, Marks, FilesInv, NEW h \in Handle, Step(h), "io" \notin happened', Applying(h)'
  PROVE  /\ Applying(h)
         /\ pc'[h] # "probe_link"
         /\ pc[h] = "probe_link" => pc'[h] = "probe_stub" /\ link # "resolved"
         /\ pc[h] = "probe_stub" => file["conf"] \notin Stub
<1>1. Fits(h) /\ job[h] \in Jobs /\ pc[h] \in Steps
  BY DEF FilesInv, TypeOK, Steps, Step, ProbeLink, ProbeStub, CleanupResidual,
     CloseReads, RequireBackup, CheckStale, CopyOpen, TempOpen, Write, Fsync, Rename, Remove,
     SyncDir
<1>2. ~Fail(h) /\ ~Return(h, "idle") /\ ~Return(h, "live")
  BY DEF Fail, Return, Goto, TypeOK, Applying, InCall, Steps
<1>3. CASE ProbeLink(h) \/ ProbeStub(h)
  <2>1. /\ pc[h] = "probe_link" => link # "resolved" /\ pc'[h] = "probe_stub"
        /\ pc[h] = "probe_stub" => file["conf"] \notin Stub /\ pc'[h] = "cleanup_residual"
        /\ pc[h] \in {"probe_link", "probe_stub"}
    BY <1>2, <1>3 DEF ProbeLink, ProbeStub, Happens, Goto, TypeOK
  <2>2. job[h] # "restore"
    BY <1>1, <2>1 DEF Fits, PutsBack
  <2> QED BY <1>1, <2>1, <2>2 DEF Applying, InCall
<1>4. CASE ~ProbeLink(h) /\ ~ProbeStub(h)
  <2>1. pc[h] \notin {"probe_link", "probe_stub"} /\ pc'[h] # "probe_link"
    BY <1>2, <1>4 DEF Step, CleanupResidual, CloseReads, RequireBackup, CheckStale, CopyOpen,
       TempOpen, Write, Fsync, Rename, Remove, SyncDir, Goto, TypeOK
  <2>2. pc[h] # "closing" /\ job[h] # "restore"
    <3>1. ~CloseReads(h)
      BY <1>2 DEF CloseReads, Applying, TypeOK
    <3>2. job[h] # "restore"
      <4> SUFFICES ASSUME job[h] = "restore" PROVE job'[h] = "restore"
        BY DEF Applying
      <4>1. ~CleanupResidual(h) /\ ~CheckStale(h)
        BY <1>1 DEF CleanupResidual, CheckStale, Fits, PutsBack
      <4> QED BY <1>2, <1>4, <3>1, <4>1 DEF Step, RequireBackup, CopyOpen, TempOpen, Write,
              Fsync, Rename, Remove, SyncDir, TypeOK
    <3> QED BY <1>4, <3>1, <3>2 DEF Step, CleanupResidual, RequireBackup, CheckStale, CopyOpen,
            TempOpen, Write, Fsync, Rename, Remove, SyncDir
  <2> QED BY <1>1, <2>1, <2>2 DEF Applying, InCall
<1> QED BY <1>3, <1>4

(* No system call takes over what is systemd-resolved's. *)
LEMMA SparedCall ==
  ASSUME TypeOK, Marks, FilesInv, Spared, NEW h \in Handle, Step(h)
  PROVE  Spared'
<1> USE DEF fileVars, history, Happens
<1>1. /\ \A k \in Handle \ {h} : pc'[k] = pc[k] /\ job'[k] = job[k]
      /\ mounted' = mounted /\ happened \subseteq happened' /\ user' = user
  <2>1. mounted' = mounted /\ happened \subseteq happened' /\ user' = user
    BY DEF Step, ProbeLink, ProbeStub, CleanupResidual, CloseReads, RequireBackup, CheckStale,
       CopyOpen, TempOpen, Write, Fsync, Rename, Remove, SyncDir
  <2> QED BY <2>1, OtherSlots
<1>2. /\ Torn \notin Stub /\ Absent \notin Stub /\ Managed \cap Stub = {}
  BY ContentAssumption
<1>3. (mounted => link = "file")'
  BY <1>1, ConfStep DEF Spared
<1>4. ASSUME NEW k \in Handle, pc'[k] = "copy_open", job'[k] # "backup" PROVE mounted'
  <2>1. CASE k = h
    <3>1. Rename(h) \/ CheckStale(h)
      BY <1>4, <2>1 DEF Step, ProbeLink, ProbeStub, CleanupResidual, CloseReads, RequireBackup,
         CheckStale, CopyOpen, TempOpen, Write, Fsync, Remove, SyncDir, Fail, Return, Goto, TypeOK
    <3>2. ~CheckStale(h)
      BY <1>4, <2>1 DEF CheckStale, Fail, Return, Goto, TypeOK
    <3> QED BY <1>1, <1>4, <2>1, <3>1, <3>2 DEF Rename, Fail, Return, Goto, TypeOK
  <2>2. CASE k # h
    BY <1>1, <1>4, <2>2 DEF Spared
  <2> QED BY <2>1, <2>2
<1>5. (file["conf"] \in Managed \cup {Torn} => link # "resolved")'
  BY ConfStep DEF Spared
<1>6. ASSUME "io" \notin happened' PROVE file'["bak"] \notin Stub
  <2>1. "io" \notin happened
    BY <1>1, <1>6
  <2>2. Past(h) => file["conf"] \notin Stub
    BY <2>1 DEF Spared, Probed, Past
  <2> QED BY <1>2, <2>1, <2>2, BackupStep DEF Spared
<1>7. ASSUME "io" \notin happened', NEW k \in Handle PROVE Probed(k)'
  <2>1. "io" \notin happened /\ file["bak"] \notin Stub /\ Probed(k)
    BY <1>1, <1>7 DEF Spared
  <2>2. /\ link # "resolved" => link' # "resolved"
        /\ file["conf"] \notin Stub => file'["conf"] \notin Stub
    BY <1>2, <2>1, ConfStep
  <2>3. CASE k = h
    BY <1>7, <2>1, <2>2, <2>3, ProbeStep DEF Probed
  <2>4. CASE k # h
    BY <1>1, <2>1, <2>2, <2>4 DEF Probed, Applying, InCall
  <2> QED BY <2>3, <2>4
<1> QED BY <1>3, <1>4, <1>5, <1>6, <1>7 DEF Spared

(* No step takes over what is systemd-resolved's. *)
LEMMA SparedStep ==
  ASSUME ClosesOverlap PROVE OverlapInv /\ Spared /\ [Next]_vars => Spared'
<1> SUFFICES ASSUME OverlapInv, Spared, [Next]_vars PROVE Spared'
  OBVIOUS
<1> USE DEF fileVars, history, Happens
<1>1. TypeOK /\ Marks /\ FilesInv
  BY DEF OverlapInv
<1>2. ASSUME NEW h \in Handle, Step(h) PROVE Spared'
  BY <1>1, <1>2, SparedCall
<1>3. ASSUME NEW h \in Handle,
             Apply(h) \/ Close(h) \/ IoError(h) \/ Forget(h) \/ Crash(h)
      PROVE  Spared'
  <2>1. /\ \A k \in Handle \ {h} : pc'[k] = pc[k] /\ job'[k] = job[k]
        /\ file' = file /\ link' = link /\ mounted' = mounted /\ happened \subseteq happened'
    BY <1>1, <1>3, OtherSlots DEF Apply, Close, IoError, Forget, Crash
  <2>2. pc'[h] \in {"probe_link", "closing", "idle", "dead"}
    BY <1>1, <1>3 DEF Apply, Close, IoError, Forget, Crash, Fail, Return, Goto, TypeOK
  <2>3. Probed(h)'
    BY <2>2 DEF Probed, Applying, InCall, Steps
  <2> QED BY <2>1, <2>2, <2>3 DEF Spared, Probed, Applying, InCall
<1>4. CASE ExternalEdit
  <2>1. \A k \in Handle : ~InCall(k)
    BY <1>4, RegimeAssumption DEF ClosesOverlap, ExternalEdit
  <2>2. PICK c \in User \cup {Absent}, l \in LinkKinds :
           /\ mounted => l = "file"
           /\ file' = [file EXCEPT !["conf"] = c]
           /\ link' = l
    BY <1>4 DEF ExternalEdit
  <2>3. file'["conf"] = c /\ file'["bak"] = file["bak"] /\ c \notin Managed \cup {Torn}
    BY <1>1, <2>2, ContentAssumption DEF TypeOK, Path
  <2>4. UNCHANGED <<pc, job, mounted>> /\ happened \subseteq happened'
    BY <1>4 DEF ExternalEdit
  <2> QED BY <2>1, <2>2, <2>3, <2>4 DEF Spared, Probed, Applying, InCall, Steps
<1>5. CASE UNCHANGED vars
  BY <1>5 DEF vars, Spared, Probed, Applying, InCall
<1> QED BY <1>2, <1>3, <1>4, <1>5 DEF Next

(* A configuration that systemd-resolved manages is left alone by every     *)
(* system call, whatever other calls run, fail or die beside it.            *)
THEOREM OverlapResolvedKept == ASSUME ClosesOverlap PROVE Spec => ResolvedKept
<1>1. Init => Spared
  <2> SUFFICES ASSUME Init PROVE Spared
    OBVIOUS
  <2>1. PICK c \in User \cup {Absent} :
           /\ mounted => link = "file"
           /\ file = [p \in Path |-> IF p = "conf" THEN c ELSE Absent]
    BY DEF Init
  <2>2. /\ file["conf"] \notin Managed \cup {Torn} /\ file["bak"] \notin Stub
    BY <2>1, ContentAssumption DEF Path
  <2>3. \A h \in Handle : pc[h] = "idle"
    BY DEF Init
  <2> QED BY <2>1, <2>2, <2>3 DEF Spared, Probed, Applying, InCall, Steps
<1>2. OverlapInv /\ Spared /\ [Next]_vars =>
        [\A h \in Handle :
           Step(h) /\ (link = "resolved" \/ file["conf"] \in Stub)
             => \/ file'["conf"] = file["conf"] /\ link' = link
                \/ "io" \in happened]_vars
  <2> SUFFICES ASSUME OverlapInv, Spared, NEW h \in Handle, Step(h), "io" \notin happened,
                      link = "resolved" \/ file["conf"] \in Stub
               PROVE  file'["conf"] = file["conf"] /\ link' = link
    OBVIOUS
  <2>1. ~Past(h)
    BY DEF Spared, Probed, Past
  <2>2. file["conf"] \notin Managed \cup {Torn}
    BY ContentAssumption DEF Spared
  <2> QED BY <2>1, <2>2, ConfStep DEF OverlapInv
<1> QED BY <1>1, <1>2, SparedStep, OverlapInvariant, PTL DEF Spec, ResolvedKept
=============================================================================
