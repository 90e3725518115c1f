-------------------------- MODULE WindowsDnsProofs --------------------------
(***************************************************************************)
(* Theorems about WindowsDns, for any number of handles and any values of  *)
(* NameServer.                                                             *)
(***************************************************************************)
EXTENDS WindowsDns, SequenceTheorems, TLAPS

(* Calls are serial. *)
OneCall == \A h, k \in Handle : InCall(h) /\ InCall(k) => h = k

(* The handles on the history are the live ones, each of them once. *)
OnStack ==
  /\ \A i \in DOMAIN stack : pc[stack[i]] = "live"
  /\ \A h \in Handle : pc[h] = "live" => \E i \in DOMAIN stack : stack[i] = h
  /\ \A i, j \in DOMAIN stack : stack[i] = stack[j] => i = j

(* A handle has succeeded, and only calls that close have "closing".        *)
Phases(h) ==
  /\ pc[h] \in {"idle", "live", "snapshot", "set", "nrpt"} => ~closing[h]
  /\ pc[h] = "close_nrpt" => closing[h]
  /\ pc[h] \in {"live", "snapshot", "set", "nrpt", "close_nrpt"} => ~failed[h]
  /\ pc[h] = "restore" /\ ~closing[h] => failed[h]
  /\ pc[h] \in {"snapshot", "set", "restore"} => todo[h] # {}
  /\ todo[h] \subseteq want[h]

(* Rules that are installed belong to a handle, or an error was returned.   *)
Reported(h) == rules[h] /\ pc[h] \in {"idle", "restore"} => failed[h]

(* What slot h has read is what was there when its apply was called.        *)
Read(h) ==
  /\ pc[h] = "snapshot" => nameServer = before[h]
  /\ pc[h] # "idle" =>
       \A f \in want[h] :
         (pc[h] = "snapshot" /\ f \in todo[h]) \/ snapshots[h][f] = before[h][f]

(* A restore has put back the families it has gone through.                 *)
Restored(h) ==
  pc[h] = "restore" =>
    \A f \in want[h] \ todo[h] :
      \/ nameServer[f] = before[h][f]
      \/ before[h][f] = NoValue /\ "remove" \in happened

NestedInv ==
  /\ Shape /\ OneCall /\ OnStack
  /\ \A h \in Handle : Phases(h) /\ Reported(h)
  /\ "misread" \notin happened => \A h \in Handle : Read(h) /\ Restored(h)

(* v is what the latest of the first n handles of s that has servers for    *)
(* family f wants, and u where there is none.                               *)
Shown(s, wanted, u, v, n, f) ==
  \/ v = u /\ \A i \in 1..n : f \notin wanted[s[i]]
  \/ \E i \in 1..n : /\ f \in wanted[s[i]] /\ v = s[i]
                     /\ \A j \in 1..n : f \in wanted[s[j]] => j <= i

(* v is what family f should be with the first n handles of the stack.      *)
Shows(v, n, f) == Shown(stack, want, user[f], v, n, f)

(* Where the call of slot h has come to, family by family.                  *)
Half(h) ==
  /\ InCall(h) => \A f \in Family : Shows(before[h][f], Len(stack), f)
  /\ pc[h] \in {"set", "nrpt"} =>
       \A f \in Family :
         nameServer[f] = IF f \in want[h] \ todo[h] THEN h ELSE before[h][f]
  /\ pc[h] = "nrpt" => todo[h] = {}
  /\ pc[h] = "restore" => \A f \in Family \ todo[h] : nameServer[f] = before[h][f]
  /\ pc[h] = "close_nrpt" => \A f \in Family \ want[h] : nameServer[f] = before[h][f]

(* Each handle has found what those below it show.                          *)
Chain ==
  /\ \A i \in DOMAIN stack : \A f \in Family : Shows(before[stack[i]][f], i - 1, f)
  /\ \A h \in Handle : Half(h)
  /\ (\A h \in Handle : ~InCall(h)) =>
       \A f \in Family : Shows(nameServer[f], Len(stack), f)

StackInv == NestedInv /\ (happened = {} => Chain)

-----------------------------------------------------------------------------
(* The steps of the call in slot h, and those that begin one. *)
Step(h) ==
  \/ Apply(h) \/ ReadSnapshot(h) \/ SetFamily(h) \/ ApplyRules(h)
  \/ RestoreFamily(h) \/ Close(h) \/ CloseRules(h)

(* What a return leaves of the types. *)
LEMMA ReturnType ==
  ASSUME Shape, NEW h \in Handle, Return(h)
  PROVE  /\ pc' \in [Handle -> Steps \cup Rest]
         /\ want' \in [Handle -> SUBSET Family]
         /\ todo' \in [Handle -> SUBSET Family]
         /\ snapshots' \in [Handle -> [Family -> Value]]
         /\ closing' \in [Handle -> BOOLEAN]
         /\ before' \in [Handle -> [Family -> Value]]
<1>1. NoSnapshot \in [Family -> Value]
  BY WindowsAssumption DEF NoSnapshot, Value
<1> QED BY <1>1 DEF Return, Goto, Shape, Rest

LEMMA StartRestoreType ==
  ASSUME Shape, NEW h \in Handle, StartRestore(h)
  PROVE  /\ pc' \in [Handle -> Steps \cup Rest]
         /\ want' \in [Handle -> SUBSET Family]
         /\ todo' \in [Handle -> SUBSET Family]
         /\ snapshots' \in [Handle -> [Family -> Value]]
         /\ closing' \in [Handle -> BOOLEAN]
         /\ before' \in [Handle -> [Family -> Value]]
<1>1. CASE want[h] = {}
  BY <1>1, ReturnType DEF StartRestore
<1>2. CASE want[h] # {}
  BY <1>2 DEF StartRestore, Goto, Shape, Steps
<1> QED BY <1>1, <1>2

LEMMA EndRestoreType ==
  ASSUME Shape, NEW h \in Handle, EndRestoreOf(h)
  PROVE  /\ pc' \in [Handle -> Steps \cup Rest]
         /\ want' \in [Handle -> SUBSET Family]
         /\ todo' \in [Handle -> SUBSET Family]
         /\ snapshots' \in [Handle -> [Family -> Value]]
         /\ closing' \in [Handle -> BOOLEAN]
         /\ before' \in [Handle -> [Family -> Value]]
<1>1. CASE todo[h] = {First(todo[h])}
  BY <1>1, ReturnType DEF EndRestoreOf
<1>2. CASE todo[h] # {First(todo[h])}
  <2>1. todo[h] \ {First(todo[h])} \in SUBSET Family
    BY DEF Shape
  <2> QED BY <1>2, <2>1 DEF EndRestoreOf, Shape
<1> QED BY <1>1, <1>2

LEMMA AdvanceType ==
  ASSUME Shape, NEW h \in Handle, NEW l \in Steps, NEW n \in SUBSET Family,
         Advance(h, l, n)
  PROVE  pc' \in [Handle -> Steps \cup Rest] /\ todo' \in [Handle -> SUBSET Family]
<1>1. todo[h] \ {First(todo[h])} \in SUBSET Family
  BY DEF Shape
<1>2. CASE todo[h] \ {First(todo[h])} = {}
  BY <1>2 DEF Advance, Goto, Shape
<1>3. CASE todo[h] \ {First(todo[h])} # {}
  BY <1>1, <1>3 DEF Advance, Shape
<1> QED BY <1>2, <1>3

LEMMA FirstType == ASSUME NEW s PROVE First(s) \in Family
BY DEF First, Family

(* Taking a handle from the history leaves a history. *)
LEMMA WithoutType ==
  ASSUME NEW s \in Seq(Handle), NEW h
  PROVE  Without(s, h) \in Seq(Handle)
<1>1. CASE \E i \in DOMAIN s : s[i] = h
  <2> DEFINE i == CHOOSE i \in DOMAIN s : s[i] = h
  <2>1. i \in 1..Len(s)
    BY <1>1
  <2>2. Without(s, h) = SubSeq(s, 1, i - 1) \o SubSeq(s, i + 1, Len(s))
    BY <1>1 DEF Without
  <2> HIDE DEF i
  <2>3. SubSeq(s, 1, i - 1) \in Seq(Handle)
    BY <2>1, SubSeqProperties
  <2>4. SubSeq(s, i + 1, Len(s)) \in Seq(Handle)
    BY <2>1, SubSeqProperties
  <2> QED BY <2>2, <2>3, <2>4
<1>2. CASE ~\E i \in DOMAIN s : s[i] = h
  BY <1>2 DEF Without
<1> QED BY <1>1, <1>2

(* Taking the last one leaves the others where they are. *)
LEMMA WithoutLast ==
  ASSUME NEW s \in Seq(Handle), NEW h \in Handle, s # <<>>, s[Len(s)] = h,
         \A i, j \in DOMAIN s : s[i] = s[j] => i = j
  PROVE  Without(s, h) = SubSeq(s, 1, Len(s) - 1)
<1>1. Len(s) \in DOMAIN s
  OBVIOUS
<1>2. (CHOOSE i \in DOMAIN s : s[i] = h) = Len(s)
  BY <1>1
<1>3. Without(s, h) = SubSeq(s, 1, Len(s) - 1) \o SubSeq(s, Len(s) + 1, Len(s))
  BY <1>1, <1>2 DEF Without
<1>4. SubSeq(s, Len(s) + 1, Len(s)) = <<>>
  OBVIOUS
<1>5. SubSeq(s, 1, Len(s) - 1) \in Seq(Handle)
  OBVIOUS
<1> QED BY <1>3, <1>4, <1>5

LEMMA TypeInit == Init => Shape
<1> SUFFICES ASSUME Init PROVE Shape
  OBVIOUS
<1>1. NoSnapshot \in [Family -> Value]
  BY WindowsAssumption DEF NoSnapshot, Value
<1>2. nameServer \in [Family -> Value] /\ user \in [Family -> UserValue]
  BY DEF Init, Value
<1> QED BY <1>1, <1>2 DEF Init, Shape, Rest

LEMMA TypeStep == Shape /\ [Next]_vars => Shape'
<1> SUFFICES ASSUME Shape, [Next]_vars PROVE Shape'
  OBVIOUS
<1> USE DEF Happens
<1>1. ASSUME NEW h \in Handle, Apply(h) PROVE Shape'
  <2>1. WantedBy[h] \subseteq SUBSET Family
    BY WindowsAssumption
  <2> QED BY <1>1, <2>1 DEF Apply, Goto, Shape, Steps, Value
<1>2. ASSUME NEW h \in Handle, ReadSnapshot(h) PROVE Shape'
  <2> DEFINE f == First(todo[h])
  <2>1. f \in Family
    BY FirstType
  <2>2. UNCHANGED <<nameServer, rules, stack, user>>
    BY <1>2 DEF ReadSnapshot
  <2>3. CASE Return(h) /\ failed' = [failed EXCEPT ![h] = TRUE] /\ UNCHANGED happened
    BY <2>2, <2>3, ReturnType DEF Shape
  <2>4. CASE /\ Advance(h, "set", want[h])
             /\ UNCHANGED <<want, closing, failed, before>>
             /\ happened' \in {happened, happened \cup {"misread"}}
             /\ snapshots' \in {[snapshots EXCEPT ![h][f] = nameServer[f]],
                               [snapshots EXCEPT ![h][f] = NoValue]}
    <3>1. pc' \in [Handle -> Steps \cup Rest] /\ todo' \in [Handle -> SUBSET Family]
      BY <2>4, AdvanceType DEF Shape, Steps
    <3>2. PICK v \in Value : snapshots' = [snapshots EXCEPT ![h][f] = v]
      BY <2>1, <2>4, WindowsAssumption DEF Shape, Value
    <3>3. [snapshots[h] EXCEPT ![f] = v] \in [Family -> Value]
      BY <2>1 DEF Shape
    <3>4. snapshots' \in [Handle -> [Family -> Value]]
      BY <3>2, <3>3 DEF Shape
    <3> QED BY <2>2, <2>4, <3>1, <3>4 DEF Shape
  <2> QED BY <1>2, <2>3, <2>4 DEF ReadSnapshot
<1>3. ASSUME NEW h \in Handle, SetFamily(h) PROVE Shape'
  <2>1. UNCHANGED <<rules, stack, user, happened>>
    BY <1>3 DEF SetFamily
  <2>2. CASE StartRestore(h) /\ failed' = [failed EXCEPT ![h] = TRUE] /\ UNCHANGED nameServer
    BY <2>1, <2>2, StartRestoreType DEF Shape
  <2>3. CASE /\ nameServer' = [nameServer EXCEPT ![First(todo[h])] = h]
             /\ Advance(h, "nrpt", {}) /\ UNCHANGED <<want, snapshots, closing, failed, before>>
    <3>1. pc' \in [Handle -> Steps \cup Rest] /\ todo' \in [Handle -> SUBSET Family]
      BY <2>3, AdvanceType DEF Steps
    <3> QED BY <2>1, <2>3, <3>1, FirstType DEF Shape, Value
  <2> QED BY <1>3, <2>2, <2>3 DEF SetFamily
<1>4. ASSUME NEW h \in Handle, ApplyRules(h) PROVE Shape'
  <2>1. UNCHANGED <<nameServer, user, happened>>
    BY <1>4 DEF ApplyRules
  <2>2. CASE StartRestore(h) /\ failed' = [failed EXCEPT ![h] = TRUE] /\ UNCHANGED <<rules, stack>>
    BY <2>1, <2>2, StartRestoreType DEF Shape
  <2>3. CASE /\ rules' = [rules EXCEPT ![h] = TRUE] /\ stack' = Append(stack, h)
             /\ Goto(h, "live")
             /\ UNCHANGED <<want, todo, snapshots, closing, failed, before>>
    BY <2>1, <2>3 DEF Shape, Goto, Rest
  <2> QED BY <1>4, <2>2, <2>3 DEF ApplyRules
<1>5. ASSUME NEW h \in Handle, RestoreFamily(h) PROVE Shape'
  <2> DEFINE f == First(todo[h])
  <2>1. UNCHANGED <<rules, stack, user>> /\ f \in Family
    BY <1>5, FirstType DEF RestoreFamily
  <2>2. happened' \subseteq {"misread", "restore", "remove"}
    BY <1>5 DEF RestoreFamily, Shape
  <2>3. nameServer' \in [Family -> Value]
    BY <1>5, <2>1 DEF RestoreFamily, Shape
  <2>4. CASE EndRestoreOf(h) /\ UNCHANGED failed
    BY <2>1, <2>2, <2>3, <2>4, EndRestoreType DEF Shape
  <2>5. CASE Return(h) /\ failed' = [failed EXCEPT ![h] = TRUE]
    BY <2>1, <2>2, <2>3, <2>5, ReturnType DEF Shape
  <2> QED BY <1>5, <2>4, <2>5 DEF RestoreFamily
<1>6. ASSUME NEW h \in Handle, Close(h) PROVE Shape'
  <2>1. stack' \in Seq(Handle)
    BY <1>6, WithoutType DEF Close, Shape
  <2> QED BY <1>6, <2>1 DEF Close, Goto, Shape, Steps
<1>7. ASSUME NEW h \in Handle, CloseRules(h) PROVE Shape'
  BY <1>7, StartRestoreType DEF CloseRules, Shape
<1>8. CASE UNCHANGED vars
  BY <1>8 DEF vars, Shape
<1> QED BY <1>1, <1>2, <1>3, <1>4, <1>5, <1>6, <1>7, <1>8 DEF Next

-----------------------------------------------------------------------------
(* A step of slot h is the only thing that changes its rules, and it goes   *)
(* to rest or to a restore without a handle only with an error or when it   *)
(* has removed them.                                                        *)
LEMMA ReportedStep ==
  Shape /\ (\A k \in Handle : Reported(k)) /\ [Next]_vars => \A k \in Handle : Reported(k)'
<1> SUFFICES ASSUME Shape, \A k \in Handle : Reported(k), [Next]_vars, NEW k \in Handle
             PROVE  Reported(k)'
  OBVIOUS
<1> USE DEF Reported, Shape
<1>1. ASSUME NEW h \in Handle, Apply(h) PROVE Reported(k)'
  BY <1>1 DEF Apply, Goto
<1>2. ASSUME NEW h \in Handle, ReadSnapshot(h) PROVE Reported(k)'
  BY <1>2 DEF ReadSnapshot, Advance, Return, Goto
<1>3. ASSUME NEW h \in Handle, SetFamily(h) PROVE Reported(k)'
  BY <1>3 DEF SetFamily, Advance, StartRestore, Return, Goto
<1>4. ASSUME NEW h \in Handle, ApplyRules(h) PROVE Reported(k)'
  BY <1>4 DEF ApplyRules, StartRestore, Return, Goto
<1>5. ASSUME NEW h \in Handle, RestoreFamily(h) PROVE Reported(k)'
  BY <1>5 DEF RestoreFamily, EndRestoreOf, Return, Goto
<1>6. ASSUME NEW h \in Handle, Close(h) PROVE Reported(k)'
  BY <1>6 DEF Close, Goto
<1>7. ASSUME NEW h \in Handle, CloseRules(h) PROVE Reported(k)'
  BY <1>7 DEF CloseRules, StartRestore, Return, Goto
<1>8. CASE UNCHANGED vars
  BY <1>8 DEF vars
<1> QED BY <1>1, <1>2, <1>3, <1>4, <1>5, <1>6, <1>7, <1>8 DEF Next

(* Rules stay behind only after a call that returned an error, whatever     *)
(* failed before or after them, in any order of calls and closes.           *)
THEOREM WindowsLeftRulesAreReported == Spec => []LeftRulesAreReported
<1> DEFINE I == Shape /\ \A k \in Handle : Reported(k)
<1>1. Init => I
  BY TypeInit DEF Init, Reported
<1>2. I /\ [Next]_vars => I'
  BY TypeStep, ReportedStep
<1>3. I => LeftRulesAreReported
  BY DEF LeftRulesAreReported, Reported
<1> QED BY <1>1, <1>2, <1>3, PTL DEF Spec

-----------------------------------------------------------------------------
(* A step of slot h changes the variables of no other slot. *)
LEMMA OwnStep ==
  ASSUME Shape, NEW h \in Handle, Step(h)
  PROVE  /\ user' = user
         /\ happened \subseteq happened'
         /\ \A k \in Handle \ {h} :
              /\ pc'[k] = pc[k] /\ want'[k] = want[k] /\ todo'[k] = todo[k]
              /\ snapshots'[k] = snapshots[k] /\ closing'[k] = closing[k]
              /\ failed'[k] = failed[k] /\ before'[k] = before[k]
<1> USE DEF Shape, Goto, Happens
<1>1. CASE Apply(h)
  BY <1>1 DEF Apply
<1>2. CASE ReadSnapshot(h)
  BY <1>2 DEF ReadSnapshot, Advance, Return
<1>3. CASE SetFamily(h)
  BY <1>3 DEF SetFamily, Advance, StartRestore, Return
<1>4. CASE ApplyRules(h)
  BY <1>4 DEF ApplyRules, StartRestore, Return
<1>5. CASE RestoreFamily(h)
  BY <1>5 DEF RestoreFamily, EndRestoreOf, Return
<1>6. CASE Close(h)
  BY <1>6 DEF Close
<1>7. CASE CloseRules(h)
  BY <1>7 DEF CloseRules, StartRestore, Return
<1> QED BY <1>1, <1>2, <1>3, <1>4, <1>5, <1>6, <1>7 DEF Step

(* A loop that has to go on has a family in turn: it is entered with all    *)
(* the families of the handle, and left after the last one.                 *)
LEMMA LoopStep ==
  ASSUME Shape, NEW h \in Handle, Step(h), InLoop(h)
  PROVE  InLoop(h)'
<1> USE DEF Shape, InLoop, Goto
<1>1. CASE Apply(h)
  BY <1>1 DEF Apply
<1>2. CASE ReadSnapshot(h)
  BY <1>2 DEF ReadSnapshot, Advance, Return
<1>3. CASE SetFamily(h)
  BY <1>3 DEF SetFamily, Advance, StartRestore, Return
<1>4. CASE ApplyRules(h)
  BY <1>4 DEF ApplyRules, StartRestore, Return
<1>5. CASE RestoreFamily(h)
  BY <1>5 DEF RestoreFamily, EndRestoreOf, Return
<1>6. CASE Close(h)
  BY <1>6 DEF Close
<1>7. CASE CloseRules(h)
  BY <1>7 DEF CloseRules, StartRestore, Return
<1> QED BY <1>1, <1>2, <1>3, <1>4, <1>5, <1>6, <1>7 DEF Step

(* The state of the interface, of the rules and of every call has its type, *)
(* and no loop is without a family in turn, also when calls overlap and     *)
(* handles are closed in any order.                                         *)
THEOREM WindowsTypeCorrect == Spec => []TypeOK
<1>1. Init => TypeOK
  BY TypeInit DEF TypeOK, InLoop, Init
<1>2. TypeOK /\ [Next]_vars => TypeOK'
  <2> SUFFICES ASSUME TypeOK, [Next]_vars, NEW k \in Handle PROVE InLoop(k)'
    BY TypeStep DEF TypeOK
  <2>1. Shape /\ InLoop(k)
    BY DEF TypeOK
  <2>2. ASSUME NEW h \in Handle, Step(h) PROVE InLoop(k)'
    BY <2>1, <2>2, OwnStep, LoopStep DEF InLoop
  <2>3. CASE UNCHANGED vars
    BY <2>1, <2>3 DEF InLoop, vars
  <2> QED BY <2>2, <2>3 DEF Next, Step
<1> QED BY <1>1, <1>2, PTL DEF Spec

(* What a slot knows of itself. *)
SlotInv(h) == Phases(h) /\ ("misread" \notin happened => Read(h) /\ Restored(h))

(* While the call of slot h runs, the others have handles or nothing. *)
Alone(h) == \A k \in Handle \ {h} : ~InCall(k)

LEMMA StepAlone ==
  ASSUME Nested, NestedInv, NEW h \in Handle, Step(h)
  PROVE  Alone(h)
<1>1. CASE Apply(h) \/ Close(h)
  BY <1>1 DEF Apply, Close, MayCall, Alone
<1>2. CASE InCall(h)
  BY <1>2 DEF NestedInv, OneCall, Alone
<1> QED BY <1>1, <1>2
        DEF Step, InCall, Steps, ReadSnapshot, SetFamily, ApplyRules, RestoreFamily, CloseRules

(* A step of slot h keeps the invariant if it does for its own slot. *)
LEMMA Frame ==
  ASSUME NestedInv, NEW h \in Handle, Step(h), Alone(h), Shape',
         \A k \in Handle : Reported(k)', SlotInv(h)', OnStack'
  PROVE  NestedInv'
<1>1. ASSUME NEW k \in Handle \ {h} PROVE SlotInv(k)'
  <2>1. /\ pc'[k] = pc[k] /\ want'[k] = want[k] /\ todo'[k] = todo[k]
        /\ snapshots'[k] = snapshots[k] /\ closing'[k] = closing[k]
        /\ failed'[k] = failed[k] /\ before'[k] = before[k]
        /\ happened \subseteq happened'
    BY OwnStep DEF NestedInv
  <2>2. pc[k] \in {"idle", "live"}
    BY DEF Alone, InCall, NestedInv, Shape, Rest
  <2>3. Phases(k)'
    BY <2>1 DEF NestedInv, Phases
  <2>4. "misread" \notin happened' => Read(k)' /\ Restored(k)'
    BY <2>1, <2>2 DEF NestedInv, Read, Restored
  <2> QED BY <2>3, <2>4 DEF SlotInv
<1>2. OneCall'
  BY OwnStep DEF NestedInv, OneCall, Alone, InCall
<1>3. \A k \in Handle : SlotInv(k)'
  BY <1>1
<1> QED BY <1>2, <1>3 DEF NestedInv, SlotInv

(* A slot at rest without a handle knows nothing. *)
LEMMA IdleKnows ==
  ASSUME Shape, NEW h \in Handle, Return(h)
  PROVE  SlotInv(h)'
BY DEF SlotInv, Phases, Read, Restored, Return, Goto, Shape

(* What becomes of the history: it keeps its handles where none comes or    *)
(* goes, ...                                                                *)
LEMMA StackStays ==
  ASSUME Shape, OnStack, NEW h \in Handle, pc[h] # "live", pc'[h] # "live",
         stack' = stack, \A k \in Handle \ {h} : pc'[k] = pc[k]
  PROVE  OnStack'
<1>1. \A i \in DOMAIN stack : stack[i] \in Handle /\ stack[i] # h
  BY DEF Shape, OnStack
<1> QED BY <1>1 DEF OnStack

(* ... gets one more when an apply succeeds, ... *)
LEMMA StackGrows ==
  ASSUME Shape, OnStack, NEW h \in Handle, pc[h] # "live", pc'[h] = "live",
         stack' = Append(stack, h), \A k \in Handle \ {h} : pc'[k] = pc[k]
  PROVE  OnStack'
<1>1. \A i \in DOMAIN stack : stack[i] \in Handle /\ stack[i] # h
  BY DEF Shape, OnStack
<1>2. /\ DOMAIN stack' = 1..(Len(stack) + 1) /\ DOMAIN stack = 1..Len(stack)
      /\ stack'[Len(stack) + 1] = h /\ \A i \in 1..Len(stack) : stack'[i] = stack[i]
  BY DEF Shape
<1>3. Len(stack) \in Nat
  BY DEF Shape
<1> QED BY <1>1, <1>2, <1>3 DEF OnStack

(* ... and loses the last one when that is closed. *)
LEMMA StackShrinks ==
  ASSUME Shape, OnStack, NEW h \in Handle, pc[h] = "live", pc'[h] # "live",
         stack[Len(stack)] = h, stack' = Without(stack, h),
         \A k \in Handle \ {h} : pc'[k] = pc[k]
  PROVE  /\ OnStack' /\ stack # <<>>
         /\ Len(stack') = Len(stack) - 1
         /\ \A i \in 1..(Len(stack) - 1) : stack'[i] = stack[i]
<1>1. \A i \in DOMAIN stack : stack[i] \in Handle
  BY DEF Shape
<1>2. stack \in Seq(Handle) /\ stack # <<>> /\ Len(stack) \in Nat
  BY DEF Shape, OnStack
<1>3. stack' = SubSeq(stack, 1, Len(stack) - 1)
  BY <1>2, WithoutLast DEF OnStack
<1>4. /\ Len(stack') = Len(stack) - 1 /\ DOMAIN stack' = 1..(Len(stack) - 1)
      /\ DOMAIN stack = 1..Len(stack)
      /\ \A i \in 1..(Len(stack) - 1) : stack'[i] = stack[i]
  <2>1. Len(stack) - 1 \in Nat /\ \A i \in 1..(Len(stack) - 1) : stack[i] \in Handle
    BY <1>1, <1>2
  <2> DEFINE n == Len(stack) - 1
             t == SubSeq(stack, 1, n)
  <2>2. t \in Seq(Handle) /\ n \in Nat
    BY <1>2, <2>1, SubSeqProperties
  <2>3. Len(t) = IF 1 <= n THEN n - 1 + 1 ELSE 0
    BY <1>2, <2>1, SubSeqProperties
  <2>4. \A i \in 1..(n - 1 + 1) : t[i] = stack[1 + i - 1]
    BY <1>2, <2>1, SubSeqProperties
  <2>5. stack' = t
    BY <1>3
  <2> HIDE DEF t, n
  <2>8. Len(t) = n
    BY <2>2, <2>3
  <2>9. DOMAIN t = 1..Len(t)
    BY <2>2, LenProperties
  <2>6. Len(t) = n /\ DOMAIN t = 1..n
    BY <2>8, <2>9
  <2>7. \A i \in 1..n : t[i] = stack[i]
    BY <2>2, <2>4
  <2> QED BY <1>2, <2>5, <2>6, <2>7 DEF n
<1>5. OnStack'
  BY <1>1, <1>2, <1>4 DEF OnStack
<1> QED BY <1>2, <1>4, <1>5

(* The end of a restore, or a call that has nothing to restore.             *)
LEMMA StartRestoreKnows ==
  ASSUME NestedInv, NEW h \in Handle, StartRestore(h), pc[h] \in {"set", "nrpt", "close_nrpt"},
         failed' = [failed EXCEPT ![h] = TRUE] \/ (closing[h] /\ failed' = failed),
         nameServer' = nameServer, happened' = happened
  PROVE  SlotInv(h)'
<1>1. CASE want[h] = {}
  BY <1>1, IdleKnows DEF StartRestore, NestedInv
<1>2. CASE want[h] # {}
  BY <1>2 DEF StartRestore, Goto, SlotInv, NestedInv, Shape, Phases, Read, Restored
<1> QED BY <1>1, <1>2

(* Every step keeps the invariant of nested handles. *)
LEMMA NestedStep == ASSUME Nested PROVE NestedInv /\ [Next]_vars => NestedInv'
<1> SUFFICES ASSUME NestedInv, [Next]_vars PROVE NestedInv'
  OBVIOUS
<1>1. Shape /\ Shape' /\ \A k \in Handle : Reported(k)'
  BY TypeStep, ReportedStep DEF NestedInv
<1>2. ASSUME NEW h \in Handle, Step(h), SlotInv(h)', OnStack' PROVE NestedInv'
  BY <1>1, <1>2, StepAlone, Frame
<1>3. ASSUME NEW h \in Handle, Step(h) PROVE \A k \in Handle \ {h} : pc'[k] = pc[k]
  BY <1>1, <1>3, OwnStep
<1>4. ASSUME NEW h \in Handle, Step(h), stack' = stack, pc[h] # "live", pc'[h] # "live"
      PROVE  OnStack'
  BY <1>1, <1>3, <1>4, StackStays DEF NestedInv
<1>5. ASSUME NEW h \in Handle, Apply(h) PROVE NestedInv'
  <2>1. SlotInv(h)'
    BY <1>1, <1>5 DEF Apply, Goto, Shape, SlotInv, NestedInv, Phases, Read, Restored
  <2>2. pc[h] # "live" /\ pc'[h] # "live" /\ stack' = stack
    BY <1>1, <1>5 DEF Apply, Goto, Shape
  <2> QED BY <1>2, <1>4, <1>5, <2>1, <2>2 DEF Step
<1>6. ASSUME NEW h \in Handle, ReadSnapshot(h) PROVE NestedInv'
  <2>1. SlotInv(h)'
    <3>1. CASE Return(h)
      BY <1>1, <3>1, IdleKnows
    <3>2. CASE /\ Advance(h, "set", want[h])
               /\ UNCHANGED <<want, closing, failed, before>>
               /\ \/ /\ snapshots' = [snapshots EXCEPT ![h][First(todo[h])] =
                                                           nameServer[First(todo[h])]]
                     /\ UNCHANGED happened
                  \/ Happens("misread")
      <4> DEFINE f == First(todo[h])
      <4>1. pc[h] = "snapshot" /\ nameServer' = nameServer /\ todo[h] # {}
        BY <1>6 DEF ReadSnapshot, NestedInv, Phases
      <4>2. f \in todo[h] /\ f \in Family
        BY <1>1, <4>1 DEF First, Shape, Family
      <4>3. Phases(h)'
        BY <1>1, <3>2, <4>1, <4>2 DEF NestedInv, Shape, Phases, Advance, Goto
      <4>4. ASSUME "misread" \notin happened' PROVE Read(h)' /\ Restored(h)'
        <5>1. /\ "misread" \notin happened /\ nameServer = before[h]
              /\ snapshots' = [snapshots EXCEPT ![h][f] = nameServer[f]]
          BY <3>2, <4>1, <4>4 DEF NestedInv, Read, Happens
        <5>2. /\ snapshots'[h][f] = before[h][f]
              /\ \A g \in Family \ {f} : snapshots'[h][g] = snapshots[h][g]
          BY <1>1, <4>2, <5>1 DEF Shape
        <5>3. \A g \in want[h] : g \in todo[h] \/ snapshots[h][g] = before[h][g]
          BY <4>1, <5>1 DEF NestedInv, Read
        <5> QED BY <1>1, <3>2, <4>1, <5>1, <5>2, <5>3
            DEF Read, Restored, Advance, Goto, Shape
      <4> QED BY <4>3, <4>4 DEF SlotInv
    <3> QED BY <1>6, <3>1, <3>2 DEF ReadSnapshot
  <2>2. pc[h] # "live" /\ pc'[h] # "live" /\ stack' = stack
    BY <1>1, <1>6 DEF ReadSnapshot, Advance, Return, Goto, Shape
  <2> QED BY <1>2, <1>4, <1>6, <2>1, <2>2 DEF Step
<1>7. ASSUME NEW h \in Handle, SetFamily(h) PROVE NestedInv'
  <2>1. SlotInv(h)'
    <3>1. CASE StartRestore(h) /\ failed' = [failed EXCEPT ![h] = TRUE] /\ UNCHANGED nameServer
      BY <1>7, <3>1, StartRestoreKnows DEF SetFamily
    <3>2. CASE Advance(h, "nrpt", {}) /\ UNCHANGED <<want, snapshots, closing, failed, before>>
      <4>1. /\ pc[h] = "set" /\ pc'[h] \in {"set", "nrpt"} /\ todo'[h] \subseteq todo[h]
            /\ pc'[h] = "set" => todo'[h] # {}
            /\ happened' = happened
        BY <1>1, <1>7, <3>2 DEF SetFamily, Advance, Goto, Shape
      <4>2. Phases(h)'
        BY <3>2, <4>1 DEF NestedInv, Phases
      <4>3. "misread" \notin happened' => Read(h)' /\ Restored(h)'
        BY <3>2, <4>1 DEF NestedInv, Read, Restored
      <4> QED BY <4>2, <4>3 DEF SlotInv
    <3> QED BY <1>7, <3>1, <3>2 DEF SetFamily
  <2>2. pc[h] # "live" /\ pc'[h] # "live" /\ stack' = stack
    BY <1>1, <1>7 DEF SetFamily, Advance, StartRestore, Return, Goto, Shape
  <2> QED BY <1>2, <1>4, <1>7, <2>1, <2>2 DEF Step
<1>8. ASSUME NEW h \in Handle, ApplyRules(h) PROVE NestedInv'
  <2>1. CASE StartRestore(h) /\ failed' = [failed EXCEPT ![h] = TRUE] /\ UNCHANGED <<rules, stack>>
    <3>1. SlotInv(h)'
      BY <1>8, <2>1, StartRestoreKnows DEF ApplyRules
    <3>2. pc[h] # "live" /\ pc'[h] # "live"
      BY <1>1, <1>8, <2>1 DEF ApplyRules, StartRestore, Return, Goto, Shape
    <3> QED BY <1>2, <1>4, <1>8, <2>1, <3>1, <3>2 DEF Step
  <2>2. CASE stack' = Append(stack, h) /\ Goto(h, "live")
             /\ UNCHANGED <<want, todo, snapshots, closing, failed, before>>
    <3>1. SlotInv(h)'
      <4>1. pc[h] = "nrpt" /\ pc'[h] = "live" /\ happened' = happened
        BY <1>1, <1>8, <2>2 DEF ApplyRules, Goto, Shape
      <4>2. Phases(h)'
        BY <2>2, <4>1 DEF NestedInv, Phases
      <4>3. "misread" \notin happened' => Read(h)' /\ Restored(h)'
        BY <2>2, <4>1 DEF NestedInv, Read, Restored
      <4> QED BY <4>2, <4>3 DEF SlotInv
    <3>2. pc[h] # "live" /\ pc'[h] = "live"
      BY <1>1, <1>8, <2>2 DEF ApplyRules, Goto, Shape
    <3>3. OnStack'
      BY <1>1, <1>3, <1>8, <2>2, <3>2, StackGrows DEF NestedInv, Step
    <3> QED BY <1>2, <1>8, <3>1, <3>3 DEF Step
  <2> QED BY <1>8, <2>1, <2>2 DEF ApplyRules
<1>9. ASSUME NEW h \in Handle, RestoreFamily(h) PROVE NestedInv'
  <2> DEFINE f == First(todo[h])
  <2>1. pc[h] = "restore" /\ todo[h] # {} /\ stack' = stack
    BY <1>9 DEF RestoreFamily, NestedInv, Phases
  <2>2. f \in todo[h] /\ f \in Family
    BY <1>1, <2>1 DEF First, Shape, Family
  <2>3. SlotInv(h)'
    <3>1. CASE Return(h)
      BY <1>1, <3>1, IdleKnows
    <3>2. CASE /\ todo' = [todo EXCEPT ![h] = @ \ {f}] /\ todo[h] # {f}
               /\ UNCHANGED <<pc, want, snapshots, closing, before, failed>>
               /\ \/ /\ nameServer' = [nameServer EXCEPT ![f] = snapshots[h][f]]
                     /\ UNCHANGED happened
                  \/ /\ "remove" \in Faults /\ snapshots[h][f] = NoValue
                     /\ Happens("remove")
                     /\ UNCHANGED nameServer
      <4>1. todo'[h] = todo[h] \ {f} /\ todo'[h] # {}
        BY <1>1, <2>2, <3>2 DEF Shape
      <4>2. Phases(h)'
        BY <3>2, <2>1, <4>1 DEF NestedInv, Phases
      <4>3. ASSUME "misread" \notin happened' PROVE Read(h)' /\ Restored(h)'
        <5>1. /\ "misread" \notin happened /\ happened \subseteq happened'
              /\ "remove" \in happened' \/ happened' = happened
          BY <3>2, <4>3 DEF Happens
        <5>2. \A g \in want[h] : snapshots[h][g] = before[h][g]
          BY <2>1, <5>1 DEF NestedInv, Read
        <5>3. \A g \in Family \ {f} : nameServer'[g] = nameServer[g]
          BY <1>1, <3>2 DEF Shape
        <5>4. nameServer'[f] = snapshots[h][f] \/ (snapshots[h][f] = NoValue /\ "remove" \in happened')
          BY <1>1, <2>2, <3>2 DEF Shape, Happens
        <5>5. \A g \in want[h] \ todo[h] :
                nameServer[g] = before[h][g] \/ (before[h][g] = NoValue /\ "remove" \in happened')
          BY <2>1, <5>1 DEF NestedInv, Restored
        <5>6. Restored(h)'
          BY <1>1, <2>1, <3>2, <4>1, <5>2, <5>3, <5>4, <5>5 DEF Restored, Shape
        <5>7. Read(h)'
          BY <2>1, <3>2, <5>2 DEF Read
        <5> QED BY <5>6, <5>7
      <4> QED BY <4>2, <4>3 DEF SlotInv
    <3> QED BY <1>9, <3>1, <3>2 DEF RestoreFamily, EndRestoreOf
  <2>4. pc[h] # "live" /\ pc'[h] # "live"
    BY <1>1, <1>9, <2>1 DEF RestoreFamily, EndRestoreOf, Return, Goto, Shape
  <2> QED BY <1>2, <1>4, <1>9, <2>1, <2>3, <2>4 DEF Step
<1>10. ASSUME NEW h \in Handle, Close(h) PROVE NestedInv'
  <2>1. SlotInv(h)'
    BY <1>1, <1>10 DEF Close, Goto, Shape, SlotInv, NestedInv, Phases, Read, Restored
  <2>2. /\ pc[h] = "live" /\ pc'[h] # "live" /\ stack[Len(stack)] = h
        /\ stack' = Without(stack, h)
    BY <1>1, <1>10 DEF Close, Goto, Shape
  <2>3. OnStack'
    BY <1>1, <1>3, <1>10, <2>2, StackShrinks DEF NestedInv, Step
  <2> QED BY <1>2, <1>10, <2>1, <2>3 DEF Step
<1>11. ASSUME NEW h \in Handle, CloseRules(h) PROVE NestedInv'
  <2>1. closing[h] /\ stack' = stack /\ pc[h] = "close_nrpt"
    BY <1>11 DEF CloseRules, NestedInv, Phases
  <2>2. SlotInv(h)'
    BY <1>11, <2>1, StartRestoreKnows DEF CloseRules
  <2>3. pc'[h] # "live"
    BY <1>1, <1>11, <2>1 DEF CloseRules, StartRestore, Return, Goto, Shape
  <2> QED BY <1>2, <1>4, <1>11, <2>1, <2>2, <2>3 DEF Step
<1>12. CASE UNCHANGED vars
  BY <1>12
  DEF vars, NestedInv, Shape, OneCall, InCall, OnStack, Phases, Reported, Read, Restored
<1> QED BY <1>5, <1>6, <1>7, <1>8, <1>9, <1>10, <1>11, <1>12 DEF Next

LEMMA NestedInit == Init => NestedInv
<1> SUFFICES ASSUME Init PROVE NestedInv
  OBVIOUS
<1>1. Shape
  BY TypeInit
<1>2. OnStack
  BY DEF Init, OnStack
<1>3. \A h \in Handle : pc[h] = "idle" /\ ~closing[h] /\ ~rules[h] /\ todo[h] = {} /\ want[h] = {}
  BY DEF Init
<1> QED BY <1>1, <1>2, <1>3
    DEF NestedInv, OneCall, InCall, Steps, Phases, Reported, Read, Restored

(* Nested handles and serial calls: each slot's snapshots are what its      *)
(* apply found, and a restore has put back all it has gone through.         *)
LEMMA NestedKept == ASSUME Nested PROVE Spec => []NestedInv
BY NestedInit, NestedStep, PTL DEF Spec

(* A step that ends a close with success is the last one of a restore, or   *)
(* the removal of the rules where there is nothing to restore.              *)
LEMMA CloseStep ==
  ASSUME NestedInv, [Next]_vars, NEW h \in Handle, ClosesOk(h), "misread" \notin happened'
  PROVE  /\ ~rules'[h]
         /\ \A f \in want[h] : \/ nameServer'[f] = before[h][f]
                               \/ before[h][f] = NoValue /\ "remove" \in happened'
<1>1. Shape /\ Phases(h) /\ Reported(h)
  BY DEF NestedInv
<1>2. PICK k \in Handle : Step(k)
  BY <1>1 DEF ClosesOk, InCall, Steps, vars, Next, Step
<1>3. k = h
  <2>1. k # h => pc'[h] = pc[h]
    BY <1>1, <1>2, OwnStep
  <2> QED BY <2>1 DEF ClosesOk, InCall, Steps
<1>4. pc[h] \in {"restore", "close_nrpt"} /\ ~failed'[h] /\ pc'[h] = "idle"
  BY <1>1 DEF ClosesOk, InCall, Steps, Phases
<1>5. RestoreFamily(h) \/ CloseRules(h)
  BY <1>2, <1>3, <1>4 DEF Step, Apply, ReadSnapshot, SetFamily, ApplyRules, Close
<1>6. CASE RestoreFamily(h)
  <2> DEFINE f == First(todo[h])
  <2>1. pc[h] = "restore" /\ rules' = rules
    BY <1>6 DEF RestoreFamily
  <2>2. CASE failed' = [failed EXCEPT ![h] = TRUE]
    BY <1>1, <1>4, <2>2 DEF Shape
  <2>3. CASE /\ EndRestoreOf(h) /\ UNCHANGED failed
             /\ \/ /\ nameServer' = [nameServer EXCEPT ![f] = snapshots[h][f]]
                   /\ UNCHANGED happened
                \/ /\ snapshots[h][f] = NoValue
                   /\ Happens("remove")
                   /\ UNCHANGED nameServer
    <3>1. ~rules[h]
      BY <1>1, <1>4, <2>1, <2>3 DEF Reported
    <3>2. todo[h] = {f} /\ f \in Family
      BY <1>4, <2>1, <2>3, FirstType DEF EndRestoreOf
    <3>3. "misread" \notin happened /\ happened \subseteq happened'
      BY <2>3 DEF Happens
    <3>4. \A g \in want[h] : snapshots[h][g] = before[h][g]
      BY <2>1, <3>3 DEF NestedInv, Read
    <3>5. \A g \in want[h] \ {f} :
            nameServer[g] = before[h][g] \/ (before[h][g] = NoValue /\ "remove" \in happened')
      BY <2>1, <3>2, <3>3 DEF NestedInv, Restored
    <3>6. \A g \in Family \ {f} : nameServer'[g] = nameServer[g]
      BY <1>1, <2>3 DEF Shape
    <3>7. nameServer'[f] = snapshots[h][f] \/ (snapshots[h][f] = NoValue /\ "remove" \in happened')
      BY <1>1, <2>3, <3>2 DEF Shape, Happens
    <3>8. want[h] \subseteq Family
      BY <1>1 DEF Shape
    <3> QED BY <2>1, <3>1, <3>4, <3>5, <3>6, <3>7, <3>8
  <2> QED BY <1>6, <2>2, <2>3 DEF RestoreFamily
<1>7. CASE CloseRules(h)
  <2>1. want[h] = {}
    BY <1>1, <1>4, <1>7 DEF CloseRules, StartRestore, Goto, Shape
  <2>2. ~rules'[h]
    BY <1>1, <1>4, <1>7 DEF CloseRules, Shape
  <2> QED BY <2>1, <2>2
<1> QED BY <1>5, <1>6, <1>7

(* A close that reports success has removed the rules and put the name      *)
(* servers back, whatever failed in this and earlier calls, for any number  *)
(* of nested handles; a misread value is excepted, and a value that could   *)
(* not be removed.                                                          *)
THEOREM WindowsCloseRestores == ASSUME Nested PROVE Spec => NestedCloseRestores
<1>1. NestedInv /\ [Next]_vars =>
        [\A h \in Handle :
           ClosesOk(h) /\ "misread" \notin happened' =>
             /\ ~rules'[h]
             /\ \A f \in want[h] : \/ nameServer'[f] = before[h][f]
                                   \/ before[h][f] = NoValue /\ "remove" \in happened']_vars
  BY CloseStep
<1> QED BY <1>1, NestedKept, PTL DEF Spec, NestedCloseRestores

-----------------------------------------------------------------------------
(* What is shown depends only on the handles it looks at, ... *)
LEMMA ShownSame ==
  ASSUME NEW s, NEW t, NEW w, NEW x, NEW u, NEW v, NEW n, NEW f,
         \A i \in 1..n : t[i] = s[i] /\ x[s[i]] = w[s[i]],
         Shown(s, w, u, v, n, f)
  PROVE  Shown(t, x, u, v, n, f)
BY DEF Shown

(* ... there is one such value, ... *)
LEMMA ShownOnce ==
  ASSUME NEW s, NEW w, NEW u, NEW n \in Nat, NEW f, NEW v1, NEW v2,
         Shown(s, w, u, v1, n, f), Shown(s, w, u, v2, n, f)
  PROVE  v1 = v2
BY DEF Shown

(* ... and the handle on top decides, if it has servers for the family.     *)
LEMMA ShownTop ==
  ASSUME NEW s, NEW w, NEW u, NEW n \in Nat, NEW f, NEW v
  PROVE  /\ f \in w[s[n + 1]] => Shown(s, w, u, s[n + 1], n + 1, f)
         /\ f \notin w[s[n + 1]] =>
              (Shown(s, w, u, v, n, f) <=> Shown(s, w, u, v, n + 1, f))
<1>1. 1..(n + 1) = 1..n \cup {n + 1}
  OBVIOUS
<1>2. ASSUME f \in w[s[n + 1]] PROVE Shown(s, w, u, s[n + 1], n + 1, f)
  BY <1>2 DEF Shown
<1>3. ASSUME f \notin w[s[n + 1]], Shown(s, w, u, v, n, f) PROVE Shown(s, w, u, v, n + 1, f)
  BY <1>1, <1>3 DEF Shown
<1>4. ASSUME f \notin w[s[n + 1]], Shown(s, w, u, v, n + 1, f) PROVE Shown(s, w, u, v, n, f)
  BY <1>1, <1>4 DEF Shown
<1> QED BY <1>2, <1>3, <1>4

(* The handles below keep what they have found, if a call changes what only *)
(* its own slot wants.                                                      *)
LEMMA ShowsStays ==
  ASSUME NestedInv, NEW h \in Handle, Step(h), pc[h] # "live", stack' = stack
  PROVE  /\ \A v, f : \A n \in 0..Len(stack) : Shows(v, n, f) => Shows(v, n, f)'
         /\ \A i \in DOMAIN stack : before'[stack[i]] = before[stack[i]]
<1>1. Shape /\ \A i \in DOMAIN stack : stack[i] \in Handle \ {h}
  BY DEF NestedInv, Shape, OnStack
<1>2. user' = user /\ \A i \in DOMAIN stack : /\ want'[stack[i]] = want[stack[i]]
                                              /\ before'[stack[i]] = before[stack[i]]
  BY <1>1, OwnStep
<1>3. DOMAIN stack = 1..Len(stack) /\ Len(stack) \in Nat
  BY <1>1 DEF Shape
<1>4. ASSUME NEW v, NEW f, NEW n \in 0..Len(stack), Shows(v, n, f) PROVE Shows(v, n, f)'
  <2>1. \A i \in 1..n : stack'[i] = stack[i] /\ want'[stack[i]] = want[stack[i]]
    BY <1>2, <1>3
  <2>2. Shown(stack, want, user[f], v, n, f)
    BY <1>4 DEF Shows
  <2>3. Shown(stack', want', user[f], v, n, f)
    BY <2>1, <2>2, ShownSame
  <2> QED BY <1>2, <2>3 DEF Shows
<1> QED BY <1>2, <1>4

(* A step inside a call keeps the chain if it does for its own slot. *)
LEMMA ChainInside ==
  ASSUME NestedInv, NestedInv', Chain, NEW h \in Handle, Step(h), Alone(h),
         pc[h] # "live", stack' = stack, InCall(h)', Half(h)'
  PROVE  Chain'
<1>1. Shape /\ DOMAIN stack = 1..Len(stack) /\ Len(stack) \in Nat
  BY DEF NestedInv, Shape
<1>2. \A i \in DOMAIN stack : \A f \in Family : Shows(before[stack[i]][f], i - 1, f)'
  <2> SUFFICES ASSUME NEW i \in DOMAIN stack, NEW f \in Family
               PROVE  Shows(before[stack[i]][f], i - 1, f)'
    OBVIOUS
  <2>1. Shows(before[stack[i]][f], i - 1, f) /\ i - 1 \in 0..Len(stack)
    BY <1>1 DEF Chain
  <2>2. stack'[i] = stack[i] /\ before'[stack[i]] = before[stack[i]]
    BY ShowsStays
  <2> QED BY <2>1, <2>2, ShowsStays DEF Shows
<1>3. ASSUME NEW k \in Handle \ {h} PROVE Half(k)'
  <2>1. pc'[k] = pc[k] /\ ~InCall(k)
    BY <1>1, OwnStep DEF Alone
  <2> QED BY <2>1 DEF Half, InCall, Steps
<1>4. \A k \in Handle : Half(k)'
  BY <1>3
<1> QED BY <1>2, <1>4 DEF Chain

(* A call that returns without a handle has put all families back.          *)
LEMMA ChainReturn ==
  ASSUME NestedInv, NestedInv', Chain, NEW h \in Handle, Step(h), Alone(h),
         InCall(h), Return(h), stack' = stack,
         \A f \in Family : nameServer'[f] = before[h][f]
  PROVE  Chain'
<1>1. Shape /\ DOMAIN stack = 1..Len(stack) /\ Len(stack) \in Nat /\ pc[h] # "live"
  BY DEF NestedInv, Shape, InCall, Steps
<1>2. \A i \in DOMAIN stack : \A f \in Family : Shows(before[stack[i]][f], i - 1, f)'
  <2> SUFFICES ASSUME NEW i \in DOMAIN stack, NEW f \in Family
               PROVE  Shows(before[stack[i]][f], i - 1, f)'
    OBVIOUS
  <2>1. Shows(before[stack[i]][f], i - 1, f) /\ i - 1 \in 0..Len(stack)
    BY <1>1 DEF Chain
  <2>2. stack'[i] = stack[i] /\ before'[stack[i]] = before[stack[i]]
    BY <1>1, ShowsStays
  <2> QED BY <1>1, <2>1, <2>2, ShowsStays DEF Shows
<1>3. pc'[h] = "idle" /\ \A k \in Handle \ {h} : pc'[k] = pc[k] /\ ~InCall(k)
  BY <1>1, OwnStep DEF Alone, Return, Goto, Shape
<1>4. \A k \in Handle : Half(k)'
  BY <1>3 DEF Half, InCall, Steps
<1>5. ASSUME NEW f \in Family PROVE Shows(nameServer[f], Len(stack), f)'
  <2>1. Shows(before[h][f], Len(stack), f) /\ Len(stack) \in 0..Len(stack)
    BY <1>1 DEF Chain, Half
  <2>2. nameServer'[f] = before[h][f]
    OBVIOUS
  <2> QED BY <1>1, <2>1, <2>2, ShowsStays DEF Shows
<1> QED BY <1>2, <1>4, <1>5 DEF Chain

(* An apply that succeeds puts its handle on top, with what it has set.     *)
LEMMA ChainGrows ==
  ASSUME NestedInv, Chain, NEW h \in Handle, Step(h), Alone(h), pc[h] = "nrpt",
         stack' = Append(stack, h), Goto(h, "live"),
         UNCHANGED <<nameServer, want, todo, snapshots, closing, failed, before, user>>
  PROVE  Chain'
<1> DEFINE n == Len(stack)
<1>1. Shape /\ stack \in Seq(Handle) /\ n \in Nat /\ DOMAIN stack = 1..n
  BY DEF NestedInv, Shape
<1>2. /\ DOMAIN stack' = 1..(n + 1) /\ Len(stack') = n + 1 /\ stack'[n + 1] = h
      /\ \A i \in 1..n : stack'[i] = stack[i]
  BY <1>1
<1> HIDE DEF n
<1>3. ASSUME NEW v, NEW f, NEW m \in 0..n, Shown(stack, want, user[f], v, m, f)
      PROVE  Shown(stack', want, user[f], v, m, f)
  <2>1. \A i \in 1..m : stack'[i] = stack[i] /\ want[stack[i]] = want[stack[i]]
    BY <1>1, <1>2, <1>3
  <2> QED BY <1>3, <2>1, ShownSame
<1>4. pc'[h] = "live" /\ \A k \in Handle \ {h} : pc'[k] = pc[k] /\ ~InCall(k)
  BY <1>1 DEF Alone, Goto, Shape
<1>5. \A k \in Handle : Half(k)'
  BY <1>4 DEF Half, InCall, Steps
<1>6. ASSUME NEW i \in 1..(n + 1), NEW f \in Family PROVE Shows(before[stack[i]][f], i - 1, f)'
  <2>1. CASE i = n + 1
    <3>1. Shows(before[h][f], n, f)
      BY DEF Chain, Half, InCall, Steps, n
    <3>2. Shown(stack', want, user[f], before[h][f], n, f)
      BY <1>1, <1>3, <3>1 DEF Shows
    <3> QED BY <1>1, <1>2, <2>1, <3>2 DEF Shows
  <2>2. CASE i \in 1..n
    <3>1. Shows(before[stack[i]][f], i - 1, f) /\ i - 1 \in 0..n
      BY <1>1, <2>2 DEF Chain
    <3>2. Shown(stack', want, user[f], before[stack[i]][f], i - 1, f)
      BY <1>3, <3>1 DEF Shows
    <3> QED BY <1>2, <2>2, <3>2 DEF Shows
  <2> QED BY <1>1, <2>1, <2>2
<1>7. ASSUME NEW f \in Family PROVE Shows(nameServer[f], Len(stack), f)'
  <2>1. /\ Shows(before[h][f], n, f) /\ todo[h] = {}
        /\ nameServer[f] = IF f \in want[h] \ todo[h] THEN h ELSE before[h][f]
    BY DEF Chain, Half, InCall, Steps, n
  <2>2. CASE f \in want[h]
    <3>1. f \in want[stack'[n + 1]]
      BY <1>2, <2>2
    <3>2. Shown(stack', want, user[f], stack'[n + 1], n + 1, f)
      BY <1>1, <3>1, ShownTop
    <3> QED BY <1>2, <2>1, <2>2, <3>2 DEF Shows
  <2>3. CASE f \notin want[h]
    <3>1. Shown(stack', want, user[f], before[h][f], n, f)
      BY <1>1, <1>3, <2>1 DEF Shows
    <3>2. Shown(stack', want, user[f], before[h][f], n + 1, f)
      BY <1>1, <1>2, <2>3, <3>1, ShownTop
    <3> QED BY <1>2, <2>1, <2>3, <3>2 DEF Shows
  <2> QED BY <2>2, <2>3
<1> QED BY <1>2, <1>5, <1>6, <1>7 DEF Chain

(* A close takes the handle on top, which has found what those below show.  *)
LEMMA ChainShrinks ==
  ASSUME NestedInv, Chain, NEW h \in Handle, Close(h), Nested, Alone(h)
  PROVE  Chain'
<1> DEFINE n == Len(stack) - 1
<1>1. /\ Shape /\ OnStack /\ stack \in Seq(Handle) /\ Len(stack) \in Nat
      /\ DOMAIN stack = 1..Len(stack)
  BY DEF NestedInv, Shape
<1>2. /\ pc[h] = "live" /\ pc'[h] = "close_nrpt" /\ stack[Len(stack)] = h
      /\ stack' = Without(stack, h) /\ \A k \in Handle \ {h} : pc'[k] = pc[k]
      /\ UNCHANGED <<nameServer, want, todo, before, user>>
  BY <1>1 DEF Close, Goto, Shape
<1>3. /\ stack # <<>> /\ Len(stack') = Len(stack) - 1
      /\ \A i \in 1..(Len(stack) - 1) : stack'[i] = stack[i]
  BY <1>1, <1>2, StackShrinks
<1>4. stack' \in Seq(Handle)
  BY <1>1, <1>2, WithoutType
<1>5. n \in Nat /\ Len(stack) = n + 1 /\ stack[n + 1] = h /\ DOMAIN stack' = 1..n
      /\ DOMAIN stack = 1..(n + 1)
  BY <1>1, <1>2, <1>3, <1>4
<1>6. \A i \in 1..n : stack'[i] = stack[i]
  BY <1>3
<1> HIDE DEF n
<1>7. ASSUME NEW v, NEW f, NEW m \in 0..n, Shown(stack, want, user[f], v, m, f)
      PROVE  Shown(stack', want, user[f], v, m, f)
  <2>1. \A i \in 1..m : stack'[i] = stack[i] /\ want[stack[i]] = want[stack[i]]
    BY <1>5, <1>6, <1>7
  <2> QED BY <1>7, <2>1, ShownSame
<1>8. ASSUME NEW i \in 1..n, NEW f \in Family PROVE Shows(before[stack[i]][f], i - 1, f)'
  <2>1. Shows(before[stack[i]][f], i - 1, f)
    BY <1>5, <1>8 DEF Chain
  <2>2. Shown(stack', want, user[f], before[stack[i]][f], i - 1, f)
    BY <1>5, <1>7, <1>8, <2>1 DEF Shows
  <2> QED BY <1>2, <1>6, <1>8, <2>2 DEF Shows
<1>9. ASSUME NEW f \in Family PROVE Shown(stack, want, user[f], before[h][f], n, f)
  <2>1. Shows(before[stack[n + 1]][f], n + 1 - 1, f) /\ n + 1 - 1 = n
    BY <1>5 DEF Chain
  <2> QED BY <1>5, <2>1 DEF Shows
<1>10. ASSUME NEW f \in Family, f \notin want[h] PROVE nameServer[f] = before[h][f]
  <2>1. \A k \in Handle : ~InCall(k)
    BY <1>2 DEF Alone, InCall, Steps
  <2>2. Shown(stack, want, user[f], nameServer[f], n + 1, f)
    BY <1>5, <2>1 DEF Chain, Shows
  <2>3. Shown(stack, want, user[f], nameServer[f], n, f)
    BY <1>5, <1>10, <2>2, ShownTop
  <2> QED BY <1>5, <1>9, <2>3, ShownOnce
<1>11. Half(h)'
  <2>1. ASSUME NEW f \in Family PROVE Shows(before[h][f], Len(stack), f)'
    <3>1. Shown(stack', want, user[f], before[h][f], n, f)
      BY <1>5, <1>7, <1>9
    <3> QED BY <1>2, <1>3, <1>5, <3>1 DEF Shows
  <2> QED BY <1>2, <1>10, <2>1 DEF Half
<1>12. ASSUME NEW k \in Handle \ {h} PROVE Half(k)'
  BY <1>2 DEF Half, InCall, Steps, Alone
<1>13. \A k \in Handle : Half(k)'
  BY <1>11, <1>12
<1>14. InCall(h)'
  BY <1>2 DEF InCall, Steps
<1> QED BY <1>5, <1>8, <1>13, <1>14 DEF Chain

(* As long as no restore has failed and nothing was misread, the chain      *)
(* holds after every step.                                                  *)
LEMMA ChainStep ==
  ASSUME Nested, NestedInv, Chain, NestedInv', [Next]_vars, happened' = {}
  PROVE  Chain'
<1>1. Shape /\ \A h \in Handle : Phases(h)
  BY DEF NestedInv
<1>2. ASSUME NEW h \in Handle, Step(h), pc[h] # "live", stack' = stack, InCall(h)', Half(h)'
      PROVE  Chain'
  BY <1>2, StepAlone, ChainInside
<1>3. ASSUME NEW h \in Handle, Step(h), InCall(h), Return(h), stack' = stack,
             \A f \in Family : nameServer'[f] = before[h][f]
      PROVE  Chain'
  BY <1>3, StepAlone, ChainReturn
<1>4. ASSUME NEW h \in Handle, Step(h), InCall(h), before'[h] = before[h], stack' = stack
      PROVE  \A f \in Family : Shows(before[h][f], Len(stack), f)'
  <2>1. pc[h] # "live" /\ Len(stack) \in 0..Len(stack)
    BY <1>1, <1>4 DEF InCall, Steps, Shape
  <2>2. \A f \in Family : Shows(before[h][f], Len(stack), f)
    BY <1>4 DEF Chain, Half
  <2> QED BY <1>4, <2>1, <2>2, ShowsStays DEF Shows
<1>5. ASSUME NEW h \in Handle, Step(h), StartRestore(h), InCall(h), stack' = stack,
             nameServer' = nameServer, \A f \in Family \ want[h] : nameServer[f] = before[h][f]
      PROVE  Chain'
  <2>1. CASE want[h] = {}
    BY <1>3, <1>5, <2>1 DEF StartRestore
  <2>2. CASE want[h] # {}
    <3>1. /\ pc'[h] = "restore" /\ todo'[h] = want[h] /\ before'[h] = before[h]
          /\ pc[h] # "live"
      BY <1>1, <1>5, <2>2 DEF StartRestore, Goto, Shape, InCall, Steps
    <3>2. Half(h)'
      BY <1>4, <1>5, <3>1 DEF Half
    <3> QED BY <1>2, <1>5, <3>1, <3>2 DEF InCall, Steps
  <2> QED BY <2>1, <2>2
<1>6. ASSUME NEW h \in Handle, Apply(h) PROVE Chain'
  <2>1. /\ \A k \in Handle : ~InCall(k)
        /\ pc[h] # "live" /\ pc'[h] \in {"nrpt", "snapshot"} /\ before'[h] = nameServer
        /\ want'[h] = todo'[h] /\ (pc'[h] = "nrpt" => todo'[h] = {})
        /\ nameServer' = nameServer /\ stack' = stack
    BY <1>1, <1>6 DEF Apply, MayCall, Goto, Shape, InCall, Steps
  <2>2. ASSUME NEW f \in Family PROVE Shows(before[h][f], Len(stack), f)'
    <3>1. Shows(nameServer[f], Len(stack), f) /\ Len(stack) \in 0..Len(stack)
      BY <1>1, <2>1 DEF Chain, Shape
    <3>2. Shows(nameServer[f], Len(stack), f)'
      BY <1>6, <2>1, <3>1, ShowsStays DEF Shows, Step
    <3> QED BY <2>1, <3>2 DEF Shows
  <2>3. Half(h)'
    BY <2>1, <2>2 DEF Half
  <2> QED BY <1>2, <1>6, <2>1, <2>3 DEF InCall, Steps, Step
<1>7. ASSUME NEW h \in Handle, ReadSnapshot(h) PROVE Chain'
  <2>1. /\ pc[h] = "snapshot" /\ InCall(h) /\ pc[h] # "live" /\ todo[h] # {}
        /\ nameServer' = nameServer /\ stack' = stack
    BY <1>1, <1>7 DEF ReadSnapshot, InCall, Steps, Phases
  <2>2. "misread" \notin happened
    BY <1>7 DEF ReadSnapshot, Happens
  <2>3. nameServer = before[h]
    BY <2>1, <2>2 DEF NestedInv, Read
  <2>4. CASE Return(h)
    BY <1>3, <1>7, <2>1, <2>3, <2>4 DEF Step
  <2>5. CASE Advance(h, "set", want[h]) /\ UNCHANGED <<want, closing, failed, before>>
    <3>1. /\ pc'[h] \in {"snapshot", "set"} /\ (pc'[h] = "set" => todo'[h] = want'[h])
          /\ before'[h] = before[h]
      BY <1>1, <2>1, <2>5 DEF Advance, Goto, Shape
    <3>2. \A f \in Family : Shows(before[h][f], Len(stack), f)'
      BY <1>4, <1>7, <2>1, <3>1 DEF Step
    <3>3. Half(h)'
      BY <2>1, <2>3, <3>1, <3>2 DEF Half
    <3> QED BY <1>2, <1>7, <2>1, <3>1, <3>3 DEF InCall, Steps, Step
  <2> QED BY <1>7, <2>4, <2>5 DEF ReadSnapshot
<1>8. ASSUME NEW h \in Handle, SetFamily(h) PROVE Chain'
  <2> DEFINE f == First(todo[h])
  <2>1. /\ pc[h] = "set" /\ InCall(h) /\ pc[h] # "live" /\ todo[h] # {} /\ stack' = stack
        /\ todo[h] \subseteq want[h] /\ todo[h] \subseteq Family
    BY <1>1, <1>8 DEF SetFamily, InCall, Steps, Phases, Shape
  <2>2. f \in todo[h]
    BY <2>1 DEF First, Family
  <2>3. \A g \in Family : nameServer[g] = IF g \in want[h] \ todo[h] THEN h ELSE before[h][g]
    BY <2>1 DEF Chain, Half
  <2>4. CASE StartRestore(h) /\ UNCHANGED nameServer
    BY <1>5, <1>8, <2>1, <2>3, <2>4 DEF Step
  <2>5. CASE /\ nameServer' = [nameServer EXCEPT ![f] = h]
             /\ Advance(h, "nrpt", {})
             /\ UNCHANGED <<want, snapshots, closing, failed, before>>
    <3>1. /\ pc'[h] \in {"set", "nrpt"} /\ before'[h] = before[h] /\ want'[h] = want[h]
          /\ todo'[h] = todo[h] \ {f} /\ (pc'[h] = "nrpt" => todo'[h] = {})
      BY <1>1, <2>1, <2>5 DEF Advance, Goto, Shape
    <3>2. \A g \in Family : Shows(before[h][g], Len(stack), g)'
      BY <1>4, <1>8, <2>1, <3>1 DEF Step
    <3>3. nameServer'[f] = h /\ \A g \in Family \ {f} : nameServer'[g] = nameServer[g]
      BY <1>1, <2>1, <2>2, <2>5 DEF Shape
    <3>4. \A g \in Family :
            nameServer'[g] = IF g \in want'[h] \ todo'[h] THEN h ELSE before'[h][g]
      BY <2>1, <2>2, <2>3, <3>1, <3>3
    <3>5. Half(h)'
      BY <2>1, <3>1, <3>2, <3>4 DEF Half
    <3> QED BY <1>2, <1>8, <2>1, <3>1, <3>5 DEF InCall, Steps, Step
  <2> QED BY <1>8, <2>4, <2>5 DEF SetFamily
<1>9. ASSUME NEW h \in Handle, ApplyRules(h) PROVE Chain'
  <2>1. pc[h] = "nrpt" /\ InCall(h) /\ UNCHANGED <<nameServer, user>>
    BY <1>9 DEF ApplyRules, InCall, Steps
  <2>2. /\ todo[h] = {}
        /\ \A g \in Family : nameServer[g] = IF g \in want[h] \ todo[h] THEN h ELSE before[h][g]
    BY <2>1 DEF Chain, Half
  <2>3. CASE StartRestore(h) /\ UNCHANGED <<rules, stack>>
    BY <1>5, <1>9, <2>1, <2>2, <2>3 DEF Step
  <2>4. CASE stack' = Append(stack, h) /\ Goto(h, "live")
             /\ UNCHANGED <<want, todo, snapshots, closing, failed, before>>
    BY <1>9, <2>1, <2>4, StepAlone, ChainGrows DEF Step
  <2> QED BY <1>9, <2>3, <2>4 DEF ApplyRules
<1>10. ASSUME NEW h \in Handle, RestoreFamily(h) PROVE Chain'
  <2> DEFINE f == First(todo[h])
  <2>1. /\ pc[h] = "restore" /\ InCall(h) /\ pc[h] # "live" /\ todo[h] # {} /\ stack' = stack
        /\ todo[h] \subseteq want[h] /\ todo[h] \subseteq Family
    BY <1>1, <1>10 DEF RestoreFamily, InCall, Steps, Phases, Shape
  <2>2. f \in todo[h]
    BY <2>1 DEF First, Family
  <2>3. /\ nameServer' = [nameServer EXCEPT ![f] = snapshots[h][f]]
        /\ UNCHANGED happened /\ EndRestoreOf(h) /\ UNCHANGED failed
    BY <1>10 DEF RestoreFamily, Happens
  <2>4. snapshots[h][f] = before[h][f]
    BY <2>1, <2>2, <2>3 DEF NestedInv, Read
  <2>5. nameServer'[f] = before[h][f] /\ \A g \in Family \ {f} : nameServer'[g] = nameServer[g]
    BY <1>1, <2>1, <2>2, <2>3, <2>4 DEF Shape
  <2>6. \A g \in Family \ todo[h] : nameServer[g] = before[h][g]
    BY <2>1 DEF Chain, Half
  <2>7. CASE todo[h] = {f}
    <3>1. \A g \in Family : nameServer'[g] = before[h][g]
      BY <2>5, <2>6, <2>7
    <3>2. Return(h)
      BY <2>3, <2>7 DEF EndRestoreOf
    <3> QED BY <1>3, <1>10, <2>1, <3>1, <3>2 DEF Step
  <2>8. CASE todo[h] # {f}
    <3>1. /\ todo'[h] = todo[h] \ {f} /\ before' = before /\ pc' = pc
      BY <1>1, <2>3, <2>8 DEF EndRestoreOf, Shape
    <3>2. \A g \in Family : Shows(before[h][g], Len(stack), g)'
      BY <1>4, <1>10, <2>1, <3>1 DEF Step
    <3>3. \A g \in Family \ todo'[h] : nameServer'[g] = before[h][g]
      BY <2>5, <2>6, <3>1
    <3>4. Half(h)'
      BY <2>1, <3>1, <3>2, <3>3 DEF Half
    <3> QED BY <1>2, <1>10, <2>1, <3>1, <3>4 DEF InCall, Steps, Step
  <2> QED BY <2>7, <2>8
<1>11. ASSUME NEW h \in Handle, Close(h) PROVE Chain'
  BY <1>11, StepAlone, ChainShrinks DEF Step
<1>12. ASSUME NEW h \in Handle, CloseRules(h) PROVE Chain'
  <2>1. /\ pc[h] = "close_nrpt" /\ InCall(h) /\ stack' = stack /\ nameServer' = nameServer
        /\ StartRestore(h)
    BY <1>12 DEF CloseRules, InCall, Steps
  <2>2. \A g \in Family \ want[h] : nameServer[g] = before[h][g]
    BY <2>1 DEF Chain, Half
  <2> QED BY <1>5, <1>12, <2>1, <2>2 DEF Step
<1>13. CASE UNCHANGED vars
  BY <1>13 DEF vars, Chain, Half, Shows, InCall
<1> QED BY <1>6, <1>7, <1>8, <1>9, <1>10, <1>11, <1>12, <1>13 DEF Next

LEMMA ChainInit == Init => Chain
<1> SUFFICES ASSUME Init PROVE Chain
  OBVIOUS
<1>1. /\ stack = <<>> /\ Len(stack) = 0 /\ DOMAIN stack = {}
      /\ \A h \in Handle : pc[h] = "idle"
  BY DEF Init
<1>2. ASSUME NEW f \in Family PROVE Shows(nameServer[f], Len(stack), f)
  <2>1. nameServer[f] = user[f]
    BY DEF Init
  <2>2. \A i \in 1..Len(stack) : FALSE
    BY <1>1
  <2> QED BY <2>1, <2>2 DEF Shows, Shown
<1> QED BY <1>1, <1>2 DEF Chain, Half, InCall, Steps

(* While no call is running and no restore has failed, each family of the   *)
(* interface is as the latest live handle that has servers for it wants it, *)
(* and as the user had it when there is none: also after an apply that      *)
(* failed half-way, for any number of nested handles.                       *)
THEOREM WindowsTopmostInForce == ASSUME Nested PROVE Spec => []TopmostInForce
<1>1. Init => StackInv
  BY NestedInit, ChainInit DEF StackInv
<1>2. StackInv /\ [Next]_vars => StackInv'
  <2> SUFFICES ASSUME StackInv, [Next]_vars PROVE StackInv'
    OBVIOUS
  <2>1. NestedInv /\ NestedInv'
    BY NestedStep DEF StackInv
  <2>2. happened \subseteq happened'
    BY <2>1, OwnStep DEF Next, Step, vars, NestedInv
  <2>3. happened' = {} => Chain'
    BY <2>1, <2>2, ChainStep DEF StackInv
  <2> QED BY <2>1, <2>3 DEF StackInv
<1>3. StackInv => TopmostInForce
  <2> SUFFICES ASSUME StackInv, happened = {}, \A h \in Handle : ~InCall(h), NEW f \in Family
               PROVE  LET above == {i \in DOMAIN stack : f \in want[stack[i]]}
                      IN IF above = {}
                           THEN nameServer[f] = user[f]
                           ELSE \E i \in above : /\ \A j \in above : j <= i
                                                 /\ nameServer[f] = stack[i]
    BY DEF TopmostInForce
  <2>1. Shown(stack, want, user[f], nameServer[f], Len(stack), f)
    BY DEF StackInv, Chain, Shows
  <2>2. DOMAIN stack = 1..Len(stack)
    BY DEF StackInv, NestedInv, Shape
  <2> QED BY <2>1, <2>2 DEF Shown
<1> QED BY <1>1, <1>2, <1>3, PTL DEF Spec
=============================================================================
