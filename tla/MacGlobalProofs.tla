-------------------------- MODULE MacGlobalProofs --------------------------
(***************************************************************************)
(* Theorems about MacGlobal, for any number of handles and services and    *)
(* for calls that overlap and fail in any way.                             *)
(***************************************************************************)
EXTENDS MacGlobal, SequenceTheorems, TLAPS

Locked == {"set", "commit", "apply", "unlock"}

(* The types of the variables one by one. *)
Types ==
  /\ stored \in [Service -> Entry \cup {Gone}]
  /\ running \in [Service -> Entry \cup {Gone}]
  /\ user \in [Service -> UserDns \cup {Gone}]
  /\ primary \in Service
  /\ cached \in BOOLEAN
  /\ pc \in [Handle -> Steps \cup Rest]
  /\ split \in [Handle -> BOOLEAN]
  /\ closing \in [Handle -> BOOLEAN]
  /\ failed \in [Handle -> BOOLEAN]
  /\ session \in [Handle -> [Service -> Entry \cup {Gone}]]
  /\ service \in [Handle -> Service \cup {NoService}]
  /\ original \in [Handle -> Entry]
  /\ before \in [Handle -> Entry]
  /\ stack \in Seq(Handle)
  /\ edited \subseteq Service
  /\ happened \subseteq {"left", "flush"}

(* A handle is on the history once. *)
Once == \A i, j \in DOMAIN stack : stack[i] = stack[j] => i = j

(* What the step a slot has come to says of its locals, of the lock and of  *)
(* the history.                                                             *)
Phase(h) ==
  /\ lock = h <=> pc[h] \in Locked
  /\ h \in stale => pc[h] = "lock"
  /\ failed[h] => pc[h] = "unlock"
  /\ pc[h] \in {"idle", "live"} => ~closing[h]
  /\ pc[h] = "idle" => ~split[h] /\ ~Committed(h)
  /\ pc[h] \in Locked \cup {"lock"} => ~split[h]
  /\ pc[h] # "idle" /\ ~split[h] => service[h] \in Service
  /\ Committed(h) => ~split[h] /\ original[h] = before[h]

(* On the history is a handle from the commit of its apply to that of its   *)
(* close.                                                                   *)
Course(h) ==
  /\ closing[h] =>
       /\ pc[h] \in {"lock", "set", "commit"} => Committed(h)
       /\ pc[h] \in {"apply", "flush"} => ~Committed(h)
       /\ pc[h] = "unlock" /\ ~failed[h] => ~Committed(h)
  /\ ~closing[h] =>
       /\ pc[h] \in {"lock", "set", "commit"} => ~Committed(h)
       /\ pc[h] \in {"apply", "flush", "live"} /\ ~split[h] => Committed(h)
       /\ pc[h] = "unlock" /\ ~failed[h] => Committed(h)

(* A session that is not an old one is the preferences on disk, up to its   *)
(* own change, and apply has read the entry that is there.                  *)
UpToDate(h) == (pc[h] = "lock" /\ h \notin stale) \/ pc[h] \in {"set", "commit"}

InStep(h) ==
  UpToDate(h) =>
    /\ session[h] = IF pc[h] = "commit"
                      THEN [stored EXCEPT ![service[h]] = Wanted(h)]
                      ELSE stored
    /\ ~closing[h] => original[h] = stored[service[h]]

Fits(h) == Phase(h) /\ Course(h) /\ InStep(h)

SlotsInv == Types /\ Once /\ stale \subseteq Handle /\ \A h \in Handle : Fits(h)

(* k comes before h on the history t. *)
Precedes(t, k, h) == \E i, j \in DOMAIN t : i < j /\ t[i] = k /\ t[j] = h

Earlier(k, h) == Precedes(stack, k, h)

Holders(s) == {h \in Handle : Committed(h) /\ service[h] = s}

Below(h) == {k \in Holders(service[h]) : Earlier(k, h)}

Latest(t, k, S) == k \in S /\ \A l \in S : l = k \/ Precedes(t, l, k)

(* v is the entry that the latest of the handles S makes of u, and u where  *)
(* there is none.                                                           *)
Shows(t, u, v, S) ==
  \/ S = {} /\ v = u
  \/ \E k \in S : Latest(t, k, S) /\ v = DnsWithServers(u, k)

(* The disk shows the latest handle of each service, each handle has found  *)
(* those below it, and one that can still be closed is the latest.          *)
Shown(s) == Shows(stack, user[s], stored[s], Holders(s))

Found(h) == Committed(h) => Shows(stack, user[service[h]], before[h], Below(h))

OnTop(h) == closing[h] /\ UpToDate(h) => Latest(stack, h, Holders(service[h]))

InForce ==
  /\ \A s \in Service \ edited : Shown(s) /\ (Holders(s) # {} => user[s] \in Entry)
  /\ \A h \in Handle : service[h] \notin edited => Found(h)
  /\ \A h \in Handle : OnTop(h)
  /\ (\A h \in Handle : pc[h] # "apply") => running = stored

ForceInv == SlotsInv /\ ("left" \notin happened => InForce)

(* Answers from before a change can be in the cache only on the way to the  *)
(* flush.                                                                   *)
OnTheWay ==
  happened = {} /\ cached =>
    \E h \in Handle : ~failed[h] /\ pc[h] \in {"unlock", "flush"}

-----------------------------------------------------------------------------
(* What becomes of the history: it gets one more at its end, ...            *)
LEMMA HistoryGrows ==
  ASSUME stack \in Seq(Handle), Once, NEW h \in Handle, ~Committed(h),
         stack' = Append(stack, h)
  PROVE  /\ stack' \in Seq(Handle) /\ Once'
         /\ \A k \in Handle : Committed(k)' <=> Committed(k) \/ k = h
         /\ \A k, l \in Handle : Earlier(k, l)' <=> Earlier(k, l) \/ (Committed(k) /\ l = h)
<1> DEFINE n == Len(stack)
<1>1. n \in Nat /\ DOMAIN stack = 1..n
  OBVIOUS
<1>2. /\ stack' \in Seq(Handle) /\ DOMAIN stack' = 1..(n + 1) /\ stack'[n + 1] = h
      /\ \A i \in 1..n : stack'[i] = stack[i]
  OBVIOUS
<1>3. \A i \in 1..n : stack[i] # h
  BY <1>1 DEF Committed
<1> HIDE DEF n
<1>4. Once'
  BY <1>1, <1>2, <1>3 DEF Once
<1>5. ASSUME NEW k \in Handle PROVE Committed(k)' <=> Committed(k) \/ k = h
  BY <1>1, <1>2 DEF Committed
<1>6. ASSUME NEW k \in Handle, NEW l \in Handle
      PROVE  Earlier(k, l)' <=> Earlier(k, l) \/ (Committed(k) /\ l = h)
  <2>1. Earlier(k, l) => Earlier(k, l)'
    BY <1>1, <1>2 DEF Earlier, Precedes
  <2>2. Committed(k) /\ l = h => Earlier(k, l)'
    BY <1>1, <1>2 DEF Earlier, Precedes, Committed
  <2>3. ASSUME Earlier(k, l)' PROVE Earlier(k, l) \/ (Committed(k) /\ l = h)
    <3>1. PICK i, j \in 1..(n + 1) : i < j /\ stack'[i] = k /\ stack'[j] = l
      BY <1>2, <2>3 DEF Earlier, Precedes
    <3>2. i \in 1..n /\ stack[i] = k
      BY <1>1, <1>2, <3>1
    <3>3. CASE j = n + 1
      BY <1>1, <1>2, <3>1, <3>2, <3>3 DEF Committed
    <3>4. CASE j # n + 1
      <4>1. j \in 1..n /\ stack[j] = l
        BY <1>1, <1>2, <3>1, <3>4
      <4> QED BY <1>1, <3>1, <3>2, <4>1 DEF Earlier, Precedes
    <3> QED BY <3>3, <3>4
  <2> QED BY <2>1, <2>2, <2>3
<1> QED BY <1>2, <1>4, <1>5, <1>6

(* ... and loses one, wherever it is.                                       *)
LEMMA HistoryShrinks ==
  ASSUME stack \in Seq(Handle), Once, NEW h \in Handle, stack' = Without(h)
  PROVE  /\ stack' \in Seq(Handle) /\ Once'
         /\ \A k \in Handle : Committed(k)' <=> Committed(k) /\ k # h
         /\ \A k, l \in Handle : Earlier(k, l)' <=> Earlier(k, l) /\ k # h /\ l # h
<1>1. CASE ~Committed(h)
  <2>1. stack' = stack
    BY <1>1 DEF Without
  <2> QED BY <1>1, <2>1 DEF Committed, Earlier, Precedes, Once
<1>2. CASE Committed(h)
  <2> DEFINE n == Len(stack)
             i == CHOOSE i \in DOMAIN stack : stack[i] = h
  <2>1. n \in Nat /\ DOMAIN stack = 1..n
    OBVIOUS
  <2>2. i \in 1..n /\ stack[i] = h
    BY <1>2 DEF Committed
  <2>3. stack' = SubSeq(stack, 1, i - 1) \o SubSeq(stack, i + 1, n)
    BY <1>2 DEF Without
  <2> HIDE DEF n, i
  <2>4. PICK m \in 1..n : m = i
    BY <2>2
  <2>5. /\ SubSeq(stack, 1, m - 1) \in Seq(Handle) /\ Len(SubSeq(stack, 1, m - 1)) = m - 1
        /\ \A a \in 1..(m - 1) : SubSeq(stack, 1, m - 1)[a] = stack[a]
    BY <2>1 DEF n
  <2>6. /\ SubSeq(stack, m + 1, n) \in Seq(Handle) /\ Len(SubSeq(stack, m + 1, n)) = n - m
        /\ \A a \in 1..(n - m) : SubSeq(stack, m + 1, n)[a] = stack[m + a]
    <3> DEFINE b == m + 1
    <3>1. b \in 1..(n + 1) /\ n = Len(stack)
      BY <2>1 DEF n
    <3> HIDE DEF b
    <3>2. /\ SubSeq(stack, b, n) \in Seq(Handle) /\ Len(SubSeq(stack, b, n)) = n - b + 1
          /\ \A a \in 1..(n - b + 1) : SubSeq(stack, b, n)[a] = stack[b + a - 1]
      BY <2>1, <3>1, SubSeqProperties
    <3>3. n - b + 1 = n - m /\ \A a \in 1..(n - m) : b + a - 1 = m + a
      BY <2>1 DEF b
    <3> QED BY <3>2, <3>3 DEF b
  <2>7. /\ stack' \in Seq(Handle) /\ DOMAIN stack' = 1..(n - 1)
        /\ \A a \in 1..(n - 1) : stack'[a] = IF a < m THEN stack[a] ELSE stack[a + 1]
    <3> DEFINE s == SubSeq(stack, 1, m - 1)
               t == SubSeq(stack, m + 1, n)
    <3>1. stack' = s \o t
      BY <2>3, <2>4
    <3>2. s \in Seq(Handle) /\ t \in Seq(Handle) /\ Len(s) = m - 1 /\ Len(t) = n - m
      BY <2>5, <2>6
    <3>3. /\ s \o t \in Seq(Handle) /\ Len(s \o t) = (m - 1) + (n - m)
          /\ \A a \in 1..Len(s) + Len(t) : (s \o t)[a] = IF a <= Len(s) THEN s[a] ELSE t[a - Len(s)]
      <4> HIDE DEF s, t
      <4> QED BY <3>2
    <3>4. ASSUME NEW a \in 1..(n - 1)
          PROVE  (s \o t)[a] = IF a < m THEN stack[a] ELSE stack[a + 1]
      <4>1. CASE a < m
        <5>1. a \in 1..(m - 1) /\ a <= Len(s) /\ a \in 1..Len(s) + Len(t)
          BY <2>1, <3>2, <4>1
        <5> QED BY <2>5, <3>3, <4>1, <5>1
      <4>2. CASE ~(a < m)
        <5>1. a - (m - 1) \in 1..(n - m) /\ ~(a <= Len(s)) /\ a \in 1..Len(s) + Len(t)
              /\ a - Len(s) = a - (m - 1) /\ m + (a - (m - 1)) = a + 1
          BY <2>1, <3>2, <4>2
        <5>2. (s \o t)[a] = t[a - (m - 1)]
          BY <3>3, <5>1
        <5>3. t[a - (m - 1)] = stack[m + (a - (m - 1))]
          BY <2>6, <5>1
        <5> QED BY <4>2, <5>1, <5>2, <5>3
      <4> QED BY <4>1, <4>2
    <3>5. (m - 1) + (n - m) = n - 1 /\ n - 1 \in Nat
      BY <2>1
    <3> HIDE DEF s, t
    <3>6. DOMAIN (s \o t) = 1..(n - 1)
      BY <3>3, <3>5
    <3> QED BY <3>1, <3>3, <3>4, <3>6
  <2>8. \A a \in 1..n : stack[a] = h => a = m
    BY <2>1, <2>2, <2>4 DEF Once
  <2>9. stack[m] = h
    BY <2>2, <2>4
  <2> DEFINE To(a) == IF a < m THEN a ELSE a + 1
             Fro(a) == IF a < m THEN a ELSE a - 1
  <2>10. \A a \in 1..(n - 1) : To(a) \in 1..n /\ To(a) # m /\ stack'[a] = stack[To(a)]
    BY <2>1, <2>7
  <2>11. \A a \in 1..n : a # m => Fro(a) \in 1..(n - 1) /\ stack'[Fro(a)] = stack[a]
    BY <2>1, <2>7
  <2>12. Once'
    <3>1. ASSUME NEW a \in 1..(n - 1), NEW b \in 1..(n - 1), stack'[a] = stack'[b]
          PROVE  a = b
      <4>1. To(a) = To(b)
        <5>1. To(a) \in 1..n /\ To(b) \in 1..n /\ stack[To(a)] = stack[To(b)]
          BY <2>10, <3>1
        <5> HIDE DEF To
        <5> QED BY <2>1, <5>1 DEF Once
      <4> QED BY <2>1, <4>1
    <3> QED BY <2>7, <3>1 DEF Once
  <2>13. ASSUME NEW k \in Handle PROVE Committed(k)' <=> Committed(k) /\ k # h
    <3>1. Committed(k)' => Committed(k) /\ k # h
      BY <2>1, <2>7, <2>8, <2>10 DEF Committed
    <3>2. Committed(k) /\ k # h => Committed(k)'
      BY <2>1, <2>7, <2>9, <2>11 DEF Committed
    <3> QED BY <3>1, <3>2
  <2>14. ASSUME NEW k \in Handle, NEW l \in Handle
         PROVE  Earlier(k, l)' <=> Earlier(k, l) /\ k # h /\ l # h
    <3>1. ASSUME Earlier(k, l)' PROVE Earlier(k, l) /\ k # h /\ l # h
      <4>1. PICK a, b \in 1..(n - 1) : a < b /\ stack'[a] = k /\ stack'[b] = l
        BY <2>7, <3>1 DEF Earlier, Precedes
      <4>2. To(a) \in 1..n /\ To(b) \in 1..n /\ To(a) < To(b)
            /\ stack[To(a)] = k /\ stack[To(b)] = l /\ To(a) # m /\ To(b) # m
        BY <2>1, <2>10, <4>1
      <4> HIDE DEF To
      <4> QED BY <2>1, <2>8, <4>2 DEF Earlier, Precedes
    <3>2. ASSUME Earlier(k, l), k # h, l # h PROVE Earlier(k, l)'
      <4>1. PICK a, b \in 1..n : a < b /\ stack[a] = k /\ stack[b] = l
        BY <2>1, <3>2 DEF Earlier, Precedes
      <4>2. Fro(a) \in 1..(n - 1) /\ Fro(b) \in 1..(n - 1) /\ Fro(a) < Fro(b)
            /\ stack'[Fro(a)] = k /\ stack'[Fro(b)] = l
        BY <2>1, <2>9, <2>11, <3>2, <4>1
      <4> HIDE DEF Fro
      <4> QED BY <2>7, <4>2 DEF Earlier, Precedes
    <3> QED BY <3>1, <3>2
  <2> QED BY <2>7, <2>12, <2>13, <2>14
<1> QED BY <1>1, <1>2

(* Committing is an order. *)
LEMMA EarlierOrder ==
  ASSUME stack \in Seq(Handle), Once
  PROVE  /\ \A k \in Handle : ~Earlier(k, k)
         /\ \A k, l \in Handle : Earlier(k, l) => Committed(k) /\ Committed(l) /\ ~Earlier(l, k)
         /\ \A k, l \in Handle : Committed(k) /\ Committed(l) => k = l \/ Earlier(k, l) \/ Earlier(l, k)
<1>1. DOMAIN stack = 1..Len(stack) /\ Len(stack) \in Nat
  OBVIOUS
<1>2. \A k, l \in Handle : Earlier(k, l) => Committed(k) /\ Committed(l)
  BY DEF Earlier, Precedes, Committed
<1>3. \A k, l \in Handle : Earlier(k, l) => ~Earlier(l, k)
  BY <1>1 DEF Earlier, Precedes, Once
<1>4. \A k, l \in Handle : Committed(k) /\ Committed(l) => k = l \/ Earlier(k, l) \/ Earlier(l, k)
  BY <1>1 DEF Earlier, Precedes, Committed
<1> QED BY <1>2, <1>3, <1>4

-----------------------------------------------------------------------------
(* The steps of slot h. *)
Act(h) ==
  \/ ApplyGlobal(h) \/ Lock(h) \/ Set(h) \/ Commit(h) \/ ApplyChanges(h)
  \/ Unlock(h) \/ Flush(h) \/ CloseGlobal(h)
  \/ ApplyResolver(h) \/ CloseResolver(h) \/ Vanish(h)

(* An entry that is there is replaced by one of the same keys. *)
LEMMA ServersType ==
  ASSUME NEW d \in Entry, NEW h \in Handle
  PROVE  DnsWithServers(d, h) \in Dns
BY DEF DnsWithServers, Entry, Dns

LEMMA WantedType == ASSUME Types, NEW h \in Handle PROVE Wanted(h) \in Entry
BY ServersType DEF Types, Wanted, Entry

LEMMA NoSessionType == NoSession \in [Service -> Entry \cup {Gone}]
BY DEF NoSession, Entry

(* What a slot may do to the variables of its own. *)
LEMMA ReturnTypes ==
  ASSUME Types, NEW h \in Handle, Return(h)
  PROVE  /\ pc' \in [Handle -> Steps \cup Rest]
         /\ split' \in [Handle -> BOOLEAN] /\ closing' \in [Handle -> BOOLEAN]
         /\ failed' \in [Handle -> BOOLEAN]
         /\ session' \in [Handle -> [Service -> Entry \cup {Gone}]]
         /\ service' \in [Handle -> Service \cup {NoService}]
         /\ original' \in [Handle -> Entry] /\ before' \in [Handle -> Entry]
BY NoSessionType DEF Return, Goto, Types, Rest, Entry

LEMMA FailHappens ==
  ASSUME Types, NEW h \in Handle, Fail(h)
  PROVE  Return(h) /\ happened' \in {happened, happened \cup {"left"}}
BY DEF Fail, Happens

(* The history grows by a handle that commits, and loses one that returns   *)
(* or commits its close.                                                    *)
LEMMA StackStep ==
  ASSUME NEW h \in Handle, Act(h)
  PROVE  \/ stack' = stack \/ stack' = Without(h)
         \/ stack' = Append(stack, h) /\ pc[h] = "commit" /\ ~closing[h]
BY DEF Act, ApplyGlobal, Lock, Set, Commit, ApplyChanges, Unlock, Flush, CloseGlobal,
       ApplyResolver, CloseResolver, Vanish, Fail, Return, hist, locals

LEMMA TypesInit == Init => Types
<1> SUFFICES ASSUME Init PROVE Types
  OBVIOUS
<1>1. UserDns \subseteq Entry /\ NoDns \in Entry
  BY MacGlobalAssumption DEF Entry
<1>2. stored \in [Service -> Entry \cup {Gone}] /\ user \in [Service -> UserDns \cup {Gone}]
  BY <1>1 DEF Init
<1>3. /\ running \in [Service -> Entry \cup {Gone}] /\ primary \in Service
      /\ edited \subseteq Service /\ happened \subseteq {"left", "flush"}
  BY <1>2 DEF Init
<1>6. cached \in BOOLEAN
  BY DEF Init
<1>7. stack \in Seq(Handle)
  BY DEF Init
<1>4. /\ pc \in [Handle -> Steps \cup Rest] /\ split \in [Handle -> BOOLEAN]
      /\ closing \in [Handle -> BOOLEAN] /\ failed \in [Handle -> BOOLEAN]
  BY DEF Init, Rest
<1>5. /\ service \in [Handle -> Service \cup {NoService}]
      /\ original \in [Handle -> Entry] /\ before \in [Handle -> Entry]
      /\ session \in [Handle -> [Service -> Entry \cup {Gone}]]
  BY <1>1, NoSessionType DEF Init
<1> QED BY <1>2, <1>3, <1>4, <1>5, <1>6, <1>7 DEF Types

LEMMA TypesStep ==
  ASSUME SlotsInv, NEW h \in Handle, Act(h)
  PROVE  Types' /\ Once'
<1> USE DEF Goto, Steps, Rest
<1>t. Types /\ Once /\ Fits(h) /\ (pc[h] = "commit" /\ ~closing[h] => ~Committed(h))
  BY DEF SlotsInv, Fits, Course
<1> USE <1>t
<1>1. stack' \in Seq(Handle) /\ Once'
  <2>1. CASE stack' = stack
    BY <2>1 DEF Types, Once
  <2> QED BY <2>1, StackStep, HistoryGrows, HistoryShrinks DEF Types
<1>2. CASE ApplyGlobal(h)
  <2>1. PICK s \in Service : service' = [service EXCEPT ![h] = s]
                             /\ original' = [original EXCEPT ![h] = stored[s]] /\ stored[s] # Gone
    BY <1>2 DEF ApplyGlobal, TargetService, PrimaryService, ServiceByInterface
  <2>2. stored[s] \in Entry
    BY <2>1 DEF Types
  <2> QED BY <1>1, <1>2, <2>1, <2>2 DEF ApplyGlobal, Types, prefs, hist
<1>3. CASE Lock(h)
  BY <1>1, <1>3, ReturnTypes, FailHappens DEF Lock, Types, prefs, locals
<1>4. CASE Set(h)
  <2>1. [session[h] EXCEPT ![service[h]] = Wanted(h)] \in [Service -> Entry \cup {Gone}]
    BY WantedType DEF Types
  <2>2. session' \in [Handle -> [Service -> Entry \cup {Gone}]]
    BY <1>4, <2>1 DEF Set, Types
  <2> QED BY <1>1, <1>4, <2>2 DEF Set, Types, prefs, hist
<1>5. CASE Commit(h)
  <2>1. stored' \in {stored, session[h]} /\ session[h] \in [Service -> Entry \cup {Gone}]
    BY <1>5 DEF Commit, Types
  <2>2. stored' \in [Service -> Entry \cup {Gone}]
    BY <2>1 DEF Types
  <2>3. /\ pc' \in [Handle -> Steps \cup Rest] /\ failed' \in [Handle -> BOOLEAN]
        /\ UNCHANGED <<running, primary, cached, lock, split, session, service, original,
                       closing, user, edited, happened>>
    BY <1>5 DEF Commit, Types
  <2>4. pc[h] = "commit" /\ ~closing[h] => stored[service[h]] = original[h]
    BY DEF Fits, InStep, UpToDate
  <2>5. before' \in {before, [before EXCEPT ![h] = original[h]]}
    BY <1>5, <2>4 DEF Commit
  <2>6. before' \in [Handle -> Entry]
    BY <2>5 DEF Types
  <2> QED BY <1>1, <2>2, <2>3, <2>6 DEF Types
<1>6. CASE ApplyChanges(h)
  BY <1>1, <1>6 DEF ApplyChanges, Types, Happens
<1>7. CASE Unlock(h)
  BY <1>1, <1>7, ReturnTypes, FailHappens DEF Unlock, Types, prefs, locals
<1>8. CASE Flush(h)
  <2>1. cached' \in BOOLEAN /\ happened' \subseteq {"left", "flush"}
    BY <1>8 DEF Flush, Types, Happens
  <2>2. CASE Return(h)
    BY <1>1, <1>8, <2>1, <2>2, ReturnTypes DEF Flush, Types
  <2>3. CASE session' = [session EXCEPT ![h] = NoSession] /\ Goto(h, "live")
             /\ UNCHANGED <<split, service, original, closing, failed, before>>
    BY <1>1, <1>8, <2>1, <2>3, NoSessionType DEF Flush, Types
  <2> QED BY <1>8, <2>2, <2>3 DEF Flush
<1>9. CASE CloseGlobal(h)
  <2>1. /\ UNCHANGED <<stored, running, primary, cached, user, edited>>
        /\ happened' \subseteq {"left", "flush"}
    BY <1>9, FailHappens DEF CloseGlobal, Types, prefs
  <2>2. CASE Return(h)
    BY <1>1, <2>1, <2>2, ReturnTypes DEF Types
  <2>3. CASE /\ session' = [session EXCEPT ![h] = stored]
             /\ closing' = [closing EXCEPT ![h] = TRUE]
             /\ Goto(h, "lock") /\ UNCHANGED <<split, service, original, failed, before>>
    BY <1>1, <2>1, <2>3 DEF Types
  <2> QED BY <1>9, <2>2, <2>3, FailHappens DEF CloseGlobal
<1>10. CASE ApplyResolver(h)
  BY <1>1, <1>10 DEF ApplyResolver, Types, Happens
<1>11. CASE CloseResolver(h)
  BY <1>1, <1>11, ReturnTypes, FailHappens DEF CloseResolver, Types
<1>12. CASE Vanish(h)
  BY <1>1, <1>12, ReturnTypes, FailHappens DEF Vanish, Types, prefs
<1> QED BY <1>2, <1>3, <1>4, <1>5, <1>6, <1>7, <1>8, <1>9, <1>10, <1>11, <1>12 DEF Act

-----------------------------------------------------------------------------
(* A step of slot h touches no other slot: not its locals, not its hold on  *)
(* the lock, and its session ages only when the preferences change.         *)
LEMMA OwnStep ==
  ASSUME Types, NEW h \in Handle, Act(h)
  PROVE  /\ UNCHANGED <<user, edited, primary>>
         /\ happened \subseteq happened'
         /\ \A k \in Handle \ {h} :
              /\ pc'[k] = pc[k] /\ split'[k] = split[k] /\ session'[k] = session[k]
              /\ service'[k] = service[k] /\ original'[k] = original[k]
              /\ closing'[k] = closing[k] /\ failed'[k] = failed[k]
              /\ before'[k] = before[k]
<1> USE DEF Types, Goto, Happens, prefs, locals, hist
<1>1. ASSUME Return(h)
      PROVE  \A k \in Handle \ {h} :
              /\ pc'[k] = pc[k] /\ split'[k] = split[k] /\ session'[k] = session[k]
              /\ service'[k] = service[k] /\ original'[k] = original[k]
              /\ closing'[k] = closing[k] /\ failed'[k] = failed[k]
              /\ before'[k] = before[k]
  BY <1>1 DEF Return
<1>2. CASE ApplyGlobal(h)
  BY <1>2 DEF ApplyGlobal
<1>3. CASE Lock(h)
  BY <1>1, <1>3, FailHappens DEF Lock
<1>4. CASE Set(h)
  BY <1>4 DEF Set
<1>5. CASE Commit(h)
  BY <1>5 DEF Commit
<1>6. CASE ApplyChanges(h)
  BY <1>6 DEF ApplyChanges
<1>7. CASE Unlock(h)
  BY <1>1, <1>7, FailHappens DEF Unlock
<1>8. CASE Flush(h)
  BY <1>1, <1>8 DEF Flush
<1>9. CASE CloseGlobal(h)
  BY <1>1, <1>9, FailHappens DEF CloseGlobal
<1>10. CASE ApplyResolver(h)
  BY <1>10 DEF ApplyResolver
<1>11. CASE CloseResolver(h)
  BY <1>1, <1>11, FailHappens DEF CloseResolver
<1>12. CASE Vanish(h)
  BY <1>1, <1>12, FailHappens DEF Vanish
<1> QED BY <1>2, <1>3, <1>4, <1>5, <1>6, <1>7, <1>8, <1>9, <1>10, <1>11, <1>12 DEF Act

LEMMA SharedStep ==
  ASSUME Types, NEW h \in Handle, Act(h), Phase(h)
  PROVE  /\ \A k \in Handle \ {h} : lock' = k <=> lock = k
         /\ \/ stored' = stored /\ \A k \in Handle \ {h} : k \in stale' <=> k \in stale
            \/ /\ pc[h] = "commit" /\ pc'[h] = "apply" /\ stored' = session[h]
               /\ stale' = {k \in Handle : pc[k] = "lock"}
<1> USE DEF Types, Goto, prefs
<1>1. ASSUME Return(h)
      PROVE  \A k \in Handle \ {h} : (lock' = k <=> lock = k) /\ (k \in stale' <=> k \in stale)
  BY <1>1, MacGlobalAssumption DEF Return
<1>2. CASE ApplyGlobal(h)
  BY <1>2 DEF ApplyGlobal
<1>3. CASE Lock(h)
  BY <1>1, <1>3, MacGlobalAssumption, FailHappens DEF Lock
<1>4. CASE Set(h)
  BY <1>4 DEF Set
<1>5. CASE Commit(h)
  BY <1>5 DEF Commit, Outdate
<1>6. CASE ApplyChanges(h)
  BY <1>6 DEF ApplyChanges
<1>7. CASE Unlock(h)
  BY <1>1, <1>7, MacGlobalAssumption, FailHappens DEF Unlock, Phase, Locked
<1>8. CASE Flush(h)
  BY <1>1, <1>8 DEF Flush
<1>9. CASE CloseGlobal(h)
  BY <1>1, <1>9, FailHappens DEF CloseGlobal
<1>10. CASE ApplyResolver(h)
  BY <1>10 DEF ApplyResolver
<1>11. CASE CloseResolver(h)
  BY <1>1, <1>11, FailHappens DEF CloseResolver
<1>12. CASE Vanish(h)
  BY <1>1, <1>12, FailHappens DEF Vanish
<1> QED BY <1>2, <1>3, <1>4, <1>5, <1>6, <1>7, <1>8, <1>9, <1>10, <1>11, <1>12 DEF Act

(* What the history says of the other slots stays as it is. *)
LEMMA OthersCommitted ==
  ASSUME SlotsInv, NEW h \in Handle, Act(h)
  PROVE  \A k \in Handle \ {h} : Committed(k)' <=> Committed(k)
<1>1. Types /\ Once /\ (pc[h] = "commit" /\ ~closing[h] => ~Committed(h)) /\ stack \in Seq(Handle)
  BY DEF SlotsInv, Fits, Course, Types
<1>2. CASE stack' = stack
  BY <1>2 DEF Committed
<1>3. CASE stack' = Without(h)
  BY <1>1, <1>3, HistoryShrinks
<1>4. CASE stack' = Append(stack, h) /\ pc[h] = "commit" /\ ~closing[h]
  BY <1>1, <1>4, HistoryGrows
<1> QED BY <1>2, <1>3, <1>4, StackStep

LEMMA OthersFit ==
  ASSUME SlotsInv, NEW h \in Handle, Act(h), NEW k \in Handle \ {h}
  PROVE  Fits(k)'
<1>1. Types /\ Fits(k) /\ Fits(h)
  BY DEF SlotsInv
<1>2. /\ pc'[k] = pc[k] /\ split'[k] = split[k] /\ session'[k] = session[k]
      /\ service'[k] = service[k] /\ original'[k] = original[k]
      /\ closing'[k] = closing[k] /\ failed'[k] = failed[k] /\ before'[k] = before[k]
  BY <1>1, OwnStep
<1>3. Committed(k)' <=> Committed(k)
  BY OthersCommitted
<1>4. lock' = k <=> lock = k
  BY <1>1, SharedStep DEF Fits
<1>5. (k \in stale' => pc[k] = "lock") /\ InStep(k)'
  <2>1. CASE stored' = stored /\ (k \in stale' <=> k \in stale)
    <3>1. Wanted(k)' = Wanted(k)
      BY <1>2 DEF Wanted
    <3> QED BY <1>1, <1>2, <2>1, <3>1 DEF Fits, Phase, InStep, UpToDate
  <2>2. CASE pc[h] = "commit" /\ stale' = {l \in Handle : pc[l] = "lock"}
    <3>1. pc[k] \notin Locked
      BY <1>1, <2>2 DEF Fits, Phase, Locked
    <3> QED BY <1>2, <2>2, <3>1 DEF InStep, UpToDate, Locked
  <2> QED BY <1>1, <2>1, <2>2, SharedStep DEF Fits
<1>6. Phase(k)'
  BY <1>1, <1>2, <1>3, <1>4, <1>5 DEF Fits, Phase
<1>7. Course(k)'
  BY <1>1, <1>2, <1>3 DEF Fits, Course
<1> QED BY <1>5, <1>6, <1>7 DEF Fits

(* A slot that returns without a handle is as it was at first.              *)
LEMMA ReturnFits ==
  ASSUME Types, Once, NEW h \in Handle, Return(h)
  PROVE  Fits(h)'
<1>1. ~Committed(h)'
  BY HistoryShrinks DEF Return, Types
<1>2. /\ pc'[h] = "idle" /\ ~split'[h] /\ ~closing'[h] /\ ~failed'[h]
      /\ lock' # h /\ h \notin stale'
  BY MacGlobalAssumption DEF Return, Goto, Types
<1> QED BY <1>1, <1>2 DEF Fits, Phase, Course, InStep, UpToDate, Locked

(* The locals, where a step does not return. *)
LEMMA OwnFits ==
  ASSUME SlotsInv, NEW h \in Handle, Act(h)
  PROVE  Fits(h)'
<1>t. Types /\ Once /\ Fits(h) /\ stack \in Seq(Handle)
  BY DEF SlotsInv, Types
<1>r. ASSUME Return(h) PROVE Fits(h)'
  BY <1>t, <1>r, ReturnFits
<1>f. ASSUME Fail(h) PROVE Fits(h)'
  BY <1>t, <1>f, <1>r, FailHappens
<1>s. stack' = stack => (Committed(h)' <=> Committed(h))
  BY DEF Committed
<1> USE DEF Goto, prefs, locals, hist
<1>1. CASE ApplyGlobal(h)
  <2>1. PICK s \in Service : /\ service' = [service EXCEPT ![h] = s]
                             /\ original' = [original EXCEPT ![h] = stored[s]]
    BY <1>1 DEF ApplyGlobal, TargetService, PrimaryService, ServiceByInterface
  <2>2. /\ pc[h] = "idle" /\ pc'[h] = "lock" /\ service'[h] = s /\ original'[h] = stored[s]
        /\ session'[h] = stored
        /\ UNCHANGED <<stored, lock, stale, split, closing, failed, before, stack>>
    BY <1>1, <1>t, <2>1 DEF ApplyGlobal, Types
  <2>3. Committed(h)' = Committed(h)
    BY <2>2 DEF Committed
  <2> QED BY <1>t, <2>2, <2>3 DEF Fits, Phase, Course, InStep, UpToDate, Locked
<1>2. CASE Lock(h)
  <2>1. CASE h \notin stale /\ lock' = h /\ pc' = [pc EXCEPT ![h] = "set"]
             /\ UNCHANGED <<stale, locals, stack, before, happened>>
    <3>1. pc[h] = "lock" /\ pc'[h] = "set" /\ stored' = stored
      BY <1>2, <1>t, <2>1 DEF Lock, Types
    <3> QED BY <1>t, <1>s, <2>1, <3>1 DEF Fits, Phase, Course, InStep, UpToDate, Locked
  <2> QED BY <1>2, <1>f, <2>1 DEF Lock
<1>3. CASE Set(h)
  <2>1. /\ pc[h] = "set" /\ UNCHANGED <<stored, lock, stale, split, service, original, closing, before, stack>>
    BY <1>3 DEF Set
  <2>2. Wanted(h)' = Wanted(h)
    BY <2>1 DEF Wanted
  <2>3. CASE /\ session' = [session EXCEPT ![h][service[h]] = Wanted(h)]
             /\ pc' = [pc EXCEPT ![h] = "commit"] /\ UNCHANGED failed
    <3>1. session'[h] = [stored EXCEPT ![service[h]] = Wanted(h)] /\ pc'[h] = "commit"
      BY <1>t, <2>1, <2>3 DEF Types, Fits, InStep, UpToDate
    <3> QED BY <1>t, <1>s, <2>1, <2>2, <2>3, <3>1 DEF Fits, Phase, Course, InStep, UpToDate, Locked
  <2>4. CASE /\ failed' = [failed EXCEPT ![h] = TRUE] /\ pc' = [pc EXCEPT ![h] = "unlock"]
    <3>1. failed'[h] /\ pc'[h] = "unlock"
      BY <1>t, <2>4 DEF Types
    <3> QED BY <1>t, <1>s, <2>1, <3>1 DEF Fits, Phase, Course, InStep, UpToDate, Locked
  <2> QED BY <1>3, <2>3, <2>4 DEF Set
<1>4. CASE Commit(h)
  <2>1. /\ pc[h] = "commit" /\ UNCHANGED <<lock, split, session, service, original, closing>>
    BY <1>4 DEF Commit
  <2>2. CASE /\ failed' = [failed EXCEPT ![h] = TRUE] /\ pc' = [pc EXCEPT ![h] = "unlock"]
             /\ UNCHANGED <<stored, stale, stack, before>>
    <3>1. failed'[h] /\ pc'[h] = "unlock"
      BY <1>t, <2>2 DEF Types
    <3> QED BY <1>t, <1>s, <2>1, <2>2, <3>1 DEF Fits, Phase, Course, InStep, UpToDate, Locked
  <2>3. CASE Outdate /\ pc' = [pc EXCEPT ![h] = "apply"] /\ UNCHANGED failed
             /\ closing[h] /\ stack' = Without(h) /\ UNCHANGED before
    <3>1. ~Committed(h)'
      BY <1>t, <2>3, HistoryShrinks
    <3>2. pc'[h] = "apply" /\ h \notin stale'
      BY <1>t, <2>1, <2>3 DEF Types, Outdate
    <3> QED BY <1>t, <2>1, <2>3, <3>1, <3>2 DEF Fits, Phase, Course, InStep, UpToDate, Locked
  <2>4. CASE Outdate /\ pc' = [pc EXCEPT ![h] = "apply"] /\ UNCHANGED failed
             /\ ~closing[h] /\ stack' = Append(stack, h)
             /\ before' = [before EXCEPT ![h] = stored[service[h]]]
    <3>1. Committed(h)' /\ ~Committed(h)
      BY <1>t, <2>1, <2>4, HistoryGrows DEF Fits, Course
    <3>2. pc'[h] = "apply" /\ h \notin stale' /\ before'[h] = original[h]
      BY <1>t, <2>1, <2>4 DEF Types, Outdate, Fits, InStep, UpToDate
    <3> QED BY <1>t, <2>1, <2>4, <3>1, <3>2 DEF Fits, Phase, Course, InStep, UpToDate, Locked
  <2> QED BY <1>4, <2>2, <2>3, <2>4 DEF Commit
<1>5. CASE ApplyChanges(h)
  <2>1. /\ pc[h] = "apply" /\ pc'[h] = "unlock"
        /\ UNCHANGED <<stored, lock, stale, split, session, service, original, closing, stack, before>>
    BY <1>5, <1>t DEF ApplyChanges, Types
  <2>2. Course(h)'
    BY <1>t, <1>s, <2>1 DEF Fits, Phase, Course, Locked
  <2>3. Phase(h)'
    BY <1>t, <1>s, <2>1 DEF Fits, Phase, Locked
  <2> QED BY <2>1, <2>2, <2>3 DEF Fits, InStep, UpToDate
<1>6. CASE Unlock(h)
  <2>1. CASE ~failed[h] /\ lock' = Nobody /\ pc' = [pc EXCEPT ![h] = "flush"]
             /\ UNCHANGED <<stale, locals, stack, before, happened>>
    <3>1. pc[h] = "unlock" /\ pc'[h] = "flush" /\ lock' # h
      BY <1>6, <1>t, <2>1, MacGlobalAssumption DEF Unlock, Types
    <3> QED BY <1>t, <1>s, <2>1, <3>1 DEF Fits, Phase, Course, InStep, UpToDate, Locked
  <2> QED BY <1>6, <1>f, <2>1 DEF Unlock
<1>7. CASE Flush(h)
  <2>1. CASE /\ ~closing[h] /\ pc' = [pc EXCEPT ![h] = "live"]
             /\ UNCHANGED <<lock, stale, split, service, original, closing, failed, stack, before>>
    <3>1. pc[h] = "flush" /\ pc'[h] = "live" /\ stored' = stored
      BY <1>7, <1>t, <2>1 DEF Flush, Types
    <3> QED BY <1>t, <1>s, <2>1, <3>1 DEF Fits, Phase, Course, InStep, UpToDate, Locked
  <2> QED BY <1>7, <1>r, <2>1 DEF Flush
<1>8. CASE CloseGlobal(h)
  <2>1. CASE /\ session' = [session EXCEPT ![h] = stored]
             /\ closing' = [closing EXCEPT ![h] = TRUE]
             /\ pc' = [pc EXCEPT ![h] = "lock"]
             /\ UNCHANGED <<lock, stale, split, service, original, failed, stack, before, happened>>
    <3>1. /\ pc[h] = "live" /\ ~split[h] /\ pc'[h] = "lock" /\ stored' = stored
          /\ closing'[h] /\ session'[h] = stored
      BY <1>8, <1>t, <2>1 DEF CloseGlobal, Types
    <3> QED BY <1>t, <1>s, <2>1, <3>1 DEF Fits, Phase, Course, InStep, UpToDate, Locked
  <2> QED BY <1>8, <1>f, <2>1 DEF CloseGlobal
<1>9. CASE ApplyResolver(h)
  <2>1. CASE split' = [split EXCEPT ![h] = TRUE] /\ pc' = [pc EXCEPT ![h] = "flush"]
    <3>1. /\ pc[h] = "idle" /\ split'[h] /\ pc'[h] = "flush"
          /\ UNCHANGED <<stored, lock, stale, service, original, closing, failed, stack, before>>
      BY <1>9, <1>t, <2>1 DEF ApplyResolver, Types
    <3> QED BY <1>t, <1>s, <3>1 DEF Fits, Phase, Course, InStep, UpToDate, Locked
  <2>2. CASE UNCHANGED <<split, pc>>
    <3>1. UNCHANGED <<stored, lock, stale, session, service, original, closing, failed, stack, before>>
      BY <1>9 DEF ApplyResolver
    <3>2. Wanted(h)' = Wanted(h)
      BY <3>1 DEF Wanted
    <3> QED BY <1>t, <1>s, <2>2, <3>1, <3>2 DEF Fits, Phase, Course, InStep, UpToDate
  <2> QED BY <1>9, <2>1, <2>2 DEF ApplyResolver
<1>10. CASE CloseResolver(h)
  <2>1. CASE /\ closing' = [closing EXCEPT ![h] = TRUE] /\ pc' = [pc EXCEPT ![h] = "flush"]
             /\ UNCHANGED <<lock, stale, split, session, service, original, failed, stack, before, happened>>
    <3>1. /\ pc[h] = "live" /\ split[h] /\ pc'[h] = "flush" /\ closing'[h] /\ stored' = stored
      BY <1>10, <1>t, <2>1 DEF CloseResolver, Types
    <3> QED BY <1>t, <1>s, <2>1, <3>1 DEF Fits, Phase, Course, InStep, UpToDate, Locked
  <2> QED BY <1>10, <1>f, <2>1 DEF CloseResolver
<1>11. CASE Vanish(h)
  BY <1>11, <1>f DEF Vanish
<1> QED BY <1>1, <1>2, <1>3, <1>4, <1>5, <1>6, <1>7, <1>8, <1>9, <1>10, <1>11 DEF Act

-----------------------------------------------------------------------------
LEMMA SlotsInit == Init => SlotsInv
<1> SUFFICES ASSUME Init PROVE SlotsInv
  OBVIOUS
<1>1. Types /\ Once
  BY TypesInit DEF Init, Once
<1>2. ASSUME NEW h \in Handle PROVE Fits(h)
  <2>1. /\ pc[h] = "idle" /\ ~split[h] /\ ~closing[h] /\ ~failed[h] /\ lock # h
        /\ h \notin stale /\ ~Committed(h)
    BY MacGlobalAssumption DEF Init, Committed
  <2> QED BY <2>1 DEF Fits, Phase, Course, InStep, UpToDate, Locked
<1> QED BY <1>1, <1>2 DEF SlotsInv, Init

LEMMA SlotsAct == ASSUME SlotsInv, NEW h \in Handle, Act(h) PROVE SlotsInv'
<1>1. Types' /\ Once'
  BY TypesStep
<1>2. \A k \in Handle : Fits(k)'
  BY OthersFit, OwnFits
<1>3. stale' \subseteq Handle
  <2>1. h \in stale' => h \in Handle
    OBVIOUS
  <2> QED BY DEF SlotsInv, Act, ApplyGlobal, Lock, Set, Commit, ApplyChanges, Unlock, Flush,
                 CloseGlobal, ApplyResolver, CloseResolver, Vanish, Fail, Return, Outdate
<1> QED BY <1>1, <1>2, <1>3 DEF SlotsInv

(* What others commit makes the sessions old that wait, and no session      *)
(* holds the lock meanwhile.                                                *)
LEMMA SlotsExternal == SlotsInv /\ ExternalCommit => SlotsInv'
<1> SUFFICES ASSUME SlotsInv, ExternalCommit PROVE SlotsInv'
  OBVIOUS
<1>1. PICK s \in Editable, d \in UserDns \cup {Gone} :
        /\ stored' = [stored EXCEPT ![s] = d] /\ running' = stored'
        /\ \/ user' = [user EXCEPT ![s] = d] /\ UNCHANGED edited
           \/ edited' = edited \cup {s} /\ UNCHANGED user
  BY DEF ExternalCommit
<1>2. lock = Nobody /\ stale' = {k \in Handle : pc[k] = "lock"}
      /\ UNCHANGED <<primary, cached, lock, pc, locals, stack, before, happened>>
  BY DEF ExternalCommit, Outdate
<1>3. s \in Service /\ d \in Entry \cup {Gone}
  BY MacGlobalAssumption DEF Entry
<1>4. Types' /\ Once'
  BY <1>1, <1>2, <1>3 DEF SlotsInv, Types, Once, locals
<1>5. ASSUME NEW h \in Handle PROVE Fits(h)'
  <2>1. pc[h] \notin Locked /\ Fits(h)
    BY <1>2, MacGlobalAssumption DEF SlotsInv, Fits, Phase
  <2>2. Committed(h)' <=> Committed(h)
    BY <1>2 DEF Committed
  <2> QED BY <1>2, <2>1, <2>2 DEF Fits, Phase, Course, InStep, UpToDate, Locked, locals
<1> QED BY <1>2, <1>4, <1>5 DEF SlotsInv

LEMMA SlotsSame ==
  ASSUME SlotsInv, primary' \in Service,
         UNCHANGED <<stored, running, cached, lock, stale, pc, locals, hist>>
  PROVE  SlotsInv'
<1>1. Types' /\ Once'
  BY DEF SlotsInv, Types, Once, locals, hist
<1>2. ASSUME NEW h \in Handle PROVE Fits(h)'
  <2>1. (Committed(h)' <=> Committed(h)) /\ Wanted(h)' = Wanted(h)
    BY DEF Committed, Wanted, locals, hist
  <2> QED BY <2>1 DEF SlotsInv, Fits, Phase, Course, InStep, UpToDate, locals, hist
<1> QED BY <1>1, <1>2 DEF SlotsInv

LEMMA SlotsStep == SlotsInv /\ [Next]_vars => SlotsInv'
<1> SUFFICES ASSUME SlotsInv, [Next]_vars PROVE SlotsInv'
  OBVIOUS
<1>1. CASE \E h \in Handle : Act(h)
  BY <1>1, SlotsAct
<1>2. CASE ExternalCommit
  BY <1>2, SlotsExternal
<1>3. CASE PrimaryChanges
  BY <1>3, SlotsSame DEF PrimaryChanges
<1>4. CASE UNCHANGED vars
  BY <1>4, SlotsSame DEF vars, prefs, SlotsInv, Types
<1> QED BY <1>1, <1>2, <1>3, <1>4 DEF Next, Act

LEMMA SlotsKept == Spec => []SlotsInv
BY SlotsInit, SlotsStep, PTL DEF Spec

LEMMA SlotsTypes == SlotsInv => TypeOK
<1> SUFFICES ASSUME SlotsInv PROVE TypeOK
  OBVIOUS
<1> DEFINE S == {h \in Handle : ~split[h] /\ service[h] # NoService}
<1>1. ASSUME NEW i \in DOMAIN stack PROVE stack[i] \in S
  <2>1. stack[i] \in Handle /\ Committed(stack[i])
    BY <1>1 DEF SlotsInv, Types, Committed
  <2> QED BY <2>1, MacGlobalAssumption DEF SlotsInv, Fits, Phase
<1>2. stack \in Seq(S)
  BY <1>1 DEF SlotsInv, Types
<1>3. \A h \in Handle : lock = h <=> pc[h] \in {"set", "commit", "apply", "unlock"}
  BY DEF SlotsInv, Fits, Phase, Locked
<1>4. stale \subseteq {h \in Handle : pc[h] = "lock"}
  BY DEF SlotsInv, Fits, Phase
<1> HIDE DEF S
<1> QED BY <1>2, <1>3, <1>4 DEF SlotsInv, Types, TypeOK, S

(* The preferences, the sessions and the locals of every call have their    *)
(* types, and a call holds the lock exactly from its SCPreferencesLock to   *)
(* its SCPreferencesUnlock, whatever fails between them.                    *)
THEOREM MacGlobalTypeCorrect == Spec => []TypeOK
BY SlotsKept, SlotsTypes, PTL

(* The one step that commits: it writes the session, and nobody else        *)
(* changes the preferences while a call has come to its commit.             *)
LEMMA CommitOnly ==
  ASSUME SlotsInv, [Next]_vars, NEW h \in Handle, pc[h] = "commit", stored' # stored
  PROVE  Commit(h) /\ stored' = session[h]
<1>1. CASE \E k \in Handle : Act(k)
  <2>1. PICK k \in Handle : Act(k)
    BY <1>1
  <2>2. pc[k] = "commit" /\ stored' = session[k] /\ pc'[k] = "apply"
    BY <2>1, SharedStep DEF SlotsInv, Fits
  <2>3. k = h
    BY <2>2 DEF SlotsInv, Fits, Phase, Locked
  <2>4. Commit(h)
    BY <2>1, <2>2, <2>3
       DEF Act, ApplyGlobal, Lock, Set, ApplyChanges, Unlock, Flush, CloseGlobal,
           ApplyResolver, CloseResolver, Vanish, prefs
  <2> QED BY <2>2, <2>3, <2>4
<1>2. CASE ExternalCommit
  BY <1>2, MacGlobalAssumption DEF ExternalCommit, SlotsInv, Fits, Phase, Locked
<1>3. CASE PrimaryChanges
  BY <1>3 DEF PrimaryChanges
<1>4. CASE UNCHANGED vars
  BY <1>4 DEF vars, prefs
<1> QED BY <1>1, <1>2, <1>3, <1>4 DEF Next, Act

(* apply reads the entry of its service before it holds the lock and writes *)
(* all preferences back under it: the refusal of old sessions alone makes   *)
(* its commit change no other service and no other key.                     *)
THEOREM MacGlobalOthersCommitsKept == Spec => OthersCommitsKept
<1>1. SlotsInv /\ [Next]_vars =>
        [\A h \in Handle :
           pc[h] = "commit" /\ stored' # stored =>
             /\ \A s \in Service \ {service[h]} : stored'[s] = stored[s]
             /\ ~closing[h] /\ stored[service[h]] # NoDns =>
                  stored'[service[h]].others = stored[service[h]].others]_vars
  <2> SUFFICES ASSUME SlotsInv, [Next]_vars, NEW h \in Handle, pc[h] = "commit",
                      stored' # stored
               PROVE  /\ \A s \in Service \ {service[h]} : stored'[s] = stored[s]
                      /\ ~closing[h] /\ stored[service[h]] # NoDns =>
                           stored'[service[h]].others = stored[service[h]].others
    OBVIOUS
  <2>1. /\ stored' = [stored EXCEPT ![service[h]] = Wanted(h)]
        /\ ~closing[h] => original[h] = stored[service[h]]
    BY CommitOnly DEF SlotsInv, Fits, InStep, UpToDate
  <2>2. service[h] \in Service
    BY DEF SlotsInv, Fits, Phase, Locked
  <2>3. \A s \in Service \ {service[h]} : stored'[s] = stored[s]
    BY <2>1, <2>2 DEF SlotsInv, Types
  <2>4. stored'[service[h]] = Wanted(h)
    BY <2>1, <2>2 DEF SlotsInv, Types
  <2> QED BY <2>1, <2>3, <2>4 DEF Wanted, DnsWithServers
<1> QED BY <1>1, SlotsKept, PTL DEF Spec, OthersCommitsKept

(* close takes back what the commit of its own apply replaced, although     *)
(* apply read the entry earlier, and puts it where it was found.            *)
THEOREM MacGlobalCloseRestores == Spec => CloseRestores
<1>1. SlotsInv /\ [Next]_vars =>
        [\A h \in Handle :
           closing[h] /\ pc[h] = "commit" /\ pc'[h] = "apply" =>
             stored'[service[h]] = before[h]]_vars
  <2> SUFFICES ASSUME SlotsInv, [Next]_vars, NEW h \in Handle, closing[h],
                      pc[h] = "commit", pc'[h] = "apply"
               PROVE  stored'[service[h]] = before[h]
    OBVIOUS
  <2>1. /\ session[h] = [stored EXCEPT ![service[h]] = original[h]]
        /\ service[h] \in Service /\ original[h] = before[h]
    BY DEF SlotsInv, Fits, InStep, UpToDate, Wanted, Phase, Course, Locked
  <2>2. session[h][service[h]] = before[h]
    BY <2>1 DEF SlotsInv, Types
  <2>3. stored' = session[h]
    <3>1. CASE stored' = stored
      <4>1. PICK k \in Handle : Act(k)
        BY DEF Next, Act, vars, ExternalCommit, PrimaryChanges
      <4>2. k = h
        BY <4>1, OwnStep DEF SlotsInv
      <4>3. Commit(h)
        BY <4>1, <4>2
           DEF Act, ApplyGlobal, Lock, Set, Commit, ApplyChanges, Unlock, Flush, CloseGlobal,
               ApplyResolver, CloseResolver, Vanish, Fail, Return, Goto, SlotsInv, Types
      <4> QED BY <4>3 DEF Commit, Goto, SlotsInv, Types
    <3>2. CASE stored' # stored
      BY <3>2, CommitOnly
    <3> QED BY <3>1, <3>2
  <2> QED BY <2>2, <2>3
<1> QED BY <1>1, SlotsKept, PTL DEF Spec, CloseRestores

-----------------------------------------------------------------------------
(* A call that returns with an error and has left nothing has not committed *)
(* its change.                                                              *)
LEMMA FailsClean ==
  ASSUME SlotsInv, NEW h \in Handle, Fail(h), "left" \notin happened'
  PROVE  /\ Untouched(h) /\ happened' = happened
         /\ ~Committed(h) /\ stack' = stack
<1>1. Untouched(h) /\ happened' = happened
  BY DEF Fail, Happens
<1>2. ~Committed(h)
  BY <1>1 DEF Untouched
<1>3. stack' = stack
  BY <1>2 DEF Fail, Return, Without
<1> QED BY <1>1, <1>2, <1>3

(* A change that was put in force is on the way to the flush of its call,   *)
(* unless that ends with an error that is recorded.                         *)
LEMMA OnTheWayStep == SlotsInv /\ OnTheWay /\ [Next]_vars => OnTheWay'
<1> SUFFICES ASSUME SlotsInv, OnTheWay, [Next]_vars, happened' = {}, cached'
             PROVE  \E h \in Handle : ~failed'[h] /\ pc'[h] \in {"unlock", "flush"}
  BY DEF OnTheWay
<1>1. CASE \E h \in Handle : Act(h)
  <2>1. PICK h \in Handle : Act(h)
    BY <1>1
  <2>t. Types /\ Fits(h)
    BY DEF SlotsInv
  <2>2. happened = {}
    BY <2>1, <2>t, OwnStep
  <2>3. ASSUME NEW g \in Handle \ {h}, ~failed[g], pc[g] \in {"unlock", "flush"}
        PROVE  ~failed'[g] /\ pc'[g] \in {"unlock", "flush"}
    BY <2>1, <2>3, <2>t, OwnStep
  <2>4. ASSUME ~failed[h], pc[h] \in {"unlock", "flush"}
        PROVE  ~failed'[h] /\ pc'[h] \in {"unlock", "flush"}
    <3>1. ~Fail(h)
      BY <2>4 DEF Fail, Happens, Untouched
    <3>2. ~Flush(h)
      BY DEF Flush, Happens
    <3>3. Unlock(h)
      BY <2>1, <2>4, <3>1, <3>2
         DEF Act, ApplyGlobal, Lock, Set, Commit, ApplyChanges, CloseGlobal,
             ApplyResolver, CloseResolver, Vanish
    <3> QED BY <2>4, <2>t, <3>1, <3>3 DEF Unlock, Goto, locals, Types
  <2>5. CASE cached
    BY <2>2, <2>3, <2>4, <2>5 DEF OnTheWay
  <2>6. CASE ~cached
    <3>1. /\ ApplyChanges(h) \/ ApplyResolver(h) \/ CloseResolver(h)
      BY <2>1, <2>6
         DEF Act, ApplyGlobal, Lock, Set, Commit, Unlock, Flush, CloseGlobal, Vanish, prefs
    <3>2. CASE ApplyChanges(h)
      BY <2>t, <3>2 DEF ApplyChanges, Happens, Goto, Types, Fits, Phase
    <3>3. CASE ApplyResolver(h)
      BY <2>t, <3>3 DEF ApplyResolver, Happens, Goto, Types, Fits, Phase
    <3>4. CASE CloseResolver(h)
      BY <2>t, <2>6, <3>4 DEF CloseResolver, Goto, Types, Fits, Phase
    <3> QED BY <3>1, <3>2, <3>3, <3>4
  <2> QED BY <2>5, <2>6 DEF SlotsInv, Types
<1>2. CASE ExternalCommit
  BY <1>2 DEF ExternalCommit, OnTheWay, locals
<1>3. CASE PrimaryChanges
  BY <1>3 DEF PrimaryChanges, OnTheWay, locals, hist
<1>4. CASE UNCHANGED vars
  BY <1>4 DEF vars, prefs, hist, OnTheWay, locals
<1> QED BY <1>1, <1>2, <1>3, <1>4 DEF Next, Act

(* When every call has returned without an error, no answer from before a   *)
(* change is left in the cache, however the calls overlapped.               *)
THEOREM MacGlobalAnswersAreFresh == Spec => []AnswersAreFresh
<1>1. Init => OnTheWay
  BY DEF Init, OnTheWay
<1>2. SlotsInv /\ OnTheWay => AnswersAreFresh
  BY DEF SlotsInv, Types, OnTheWay, AnswersAreFresh, InCall, Steps
<1> QED BY <1>1, <1>2, OnTheWayStep, SlotsKept, PTL DEF Spec

-----------------------------------------------------------------------------
(* Steps of slot h but a commit that succeeds: the history and the disk     *)
(* stay, and so does what handles on the history have found.                *)
LEMMA QuietStep ==
  ASSUME SlotsInv, NEW h \in Handle, Act(h), "left" \notin happened',
         ~(Commit(h) /\ pc'[h] = "apply")
  PROVE  /\ stored' = stored /\ stack' = stack /\ pc'[h] # "apply"
         /\ Committed(h) => service'[h] = service[h] /\ before'[h] = before[h]
         /\ running' = stored \/ (running' = running /\ pc[h] # "apply")
         /\ closing'[h] /\ UpToDate(h)' =>
              /\ service'[h] = service[h]
              /\ (closing[h] /\ UpToDate(h)) \/ (Nested => Topmost(h))
<1>t. Types /\ Once /\ Fits(h) /\ Fits(h)'
  BY OwnFits DEF SlotsInv
<1>f. ASSUME Fail(h)
      PROVE  /\ stack' = stack /\ ~Committed(h) /\ pc[h] # "apply"
             /\ pc'[h] = "idle" /\ ~closing'[h]
  <2>1. Untouched(h) /\ ~Committed(h) /\ stack' = stack
    BY <1>f, FailsClean
  <2>2. pc[h] # "apply"
    BY <1>t, <2>1 DEF Untouched, Fits, Phase
  <2>3. pc'[h] = "idle" /\ ~closing'[h]
    BY <1>t, <1>f DEF Fail, Return, Goto, Types
  <2> QED BY <2>1, <2>2, <2>3
<1> USE DEF Goto, prefs, locals, hist
<1>1. CASE ApplyGlobal(h)
  <2>1. /\ pc[h] = "idle" /\ pc'[h] = "lock" /\ ~closing[h] /\ closing' = closing
        /\ UNCHANGED <<stored, running, stack>> /\ ~Committed(h)
    BY <1>1, <1>t DEF ApplyGlobal, Types, Fits, Phase
  <2> QED BY <2>1
<1>2. CASE Lock(h)
  <2>1. UNCHANGED <<stored, running>> /\ pc[h] = "lock"
    BY <1>2 DEF Lock
  <2>2. CASE h \notin stale /\ pc' = [pc EXCEPT ![h] = "set"]
             /\ UNCHANGED <<stale, locals, stack, before, happened>>
    BY <1>t, <2>1, <2>2 DEF Types, UpToDate
  <2> QED BY <1>2, <1>f, <2>1, <2>2 DEF Lock
<1>3. CASE Set(h)
  <2>1. /\ pc[h] = "set" /\ pc'[h] \in {"commit", "unlock"}
        /\ UNCHANGED <<stored, running, stack, service, before, closing>>
    BY <1>3, <1>t DEF Set, Types
  <2> QED BY <2>1 DEF UpToDate
<1>4. CASE Commit(h)
  <2>1. pc' = [pc EXCEPT ![h] = "unlock"] /\ pc[h] = "commit"
        /\ UNCHANGED <<stored, running, stack, service, before, closing>>
    BY <1>4, <1>t DEF Commit, Types
  <2> QED BY <1>t, <2>1 DEF UpToDate, Types
<1>5. CASE ApplyChanges(h)
  <2>1. /\ pc[h] = "apply" /\ pc'[h] = "unlock" /\ running' = stored
        /\ UNCHANGED <<stored, stack, service, before, closing>>
    BY <1>5, <1>t DEF ApplyChanges, Happens, Types
  <2> QED BY <2>1 DEF UpToDate
<1>6. CASE Unlock(h)
  <2>1. UNCHANGED <<stored, running>> /\ pc[h] = "unlock"
    BY <1>6 DEF Unlock
  <2>2. CASE pc' = [pc EXCEPT ![h] = "flush"] /\ UNCHANGED <<stale, locals, stack, before, happened>>
    BY <1>t, <2>1, <2>2 DEF Types, UpToDate
  <2> QED BY <1>6, <1>f, <2>1, <2>2 DEF Unlock
<1>7. CASE Flush(h)
  <2>1. UNCHANGED <<stored, running>> /\ pc[h] = "flush"
    BY <1>7 DEF Flush
  <2>2. CASE closing[h] /\ Return(h)
    <3>1. ~Committed(h)
      BY <1>t, <2>1, <2>2 DEF Fits, Course
    <3>2. stack' = stack
      BY <2>2, <3>1 DEF Return, Without
    <3>3. pc'[h] = "idle" /\ ~closing'[h]
      BY <1>t, <2>2 DEF Return, Types
    <3> QED BY <2>1, <3>1, <3>2, <3>3
  <2>3. CASE pc' = [pc EXCEPT ![h] = "live"]
             /\ UNCHANGED <<lock, stale, split, service, original, closing, failed, stack, before>>
    BY <1>t, <2>1, <2>3 DEF Types, UpToDate
  <2> QED BY <1>7, <2>2, <2>3 DEF Flush
<1>8. CASE CloseGlobal(h)
  <2>1. UNCHANGED <<stored, running>> /\ pc[h] = "live" /\ (Nested => Topmost(h))
    BY <1>8 DEF CloseGlobal
  <2>2. CASE pc' = [pc EXCEPT ![h] = "lock"]
             /\ UNCHANGED <<lock, stale, split, service, original, failed, stack, before, happened>>
    BY <1>t, <2>1, <2>2 DEF Types
  <2> QED BY <1>8, <1>f, <2>1, <2>2 DEF CloseGlobal
<1>9. CASE ApplyResolver(h)
  <2>1. /\ pc[h] = "idle" /\ ~closing[h] /\ pc'[h] \in {"idle", "flush"}
        /\ UNCHANGED <<stored, running, stack, service, before, closing>>
    BY <1>9, <1>t DEF ApplyResolver, Types, Fits, Phase
  <2> QED BY <2>1
<1>10. CASE CloseResolver(h)
  <2>1. UNCHANGED <<stored, running>> /\ pc[h] = "live"
    BY <1>10 DEF CloseResolver
  <2>2. CASE pc' = [pc EXCEPT ![h] = "flush"]
             /\ UNCHANGED <<lock, stale, split, session, service, original, failed, stack, before, happened>>
    BY <1>t, <2>1, <2>2 DEF Types, UpToDate
  <2> QED BY <1>10, <1>f, <2>1, <2>2 DEF CloseResolver
<1>11. CASE Vanish(h)
  BY <1>11, <1>f DEF Vanish
<1> QED BY <1>1, <1>2, <1>3, <1>4, <1>5, <1>6, <1>7, <1>8, <1>9, <1>10, <1>11 DEF Act

(* The topmost handle of its service, by its place and by its order.        *)
LEMMA TopmostLatest ==
  ASSUME SlotsInv, NEW h \in Handle, Topmost(h)
  PROVE  Latest(stack, h, Holders(service[h]))
<1>1. stack \in Seq(Handle) /\ DOMAIN stack = 1..Len(stack) /\ Len(stack) \in Nat
  BY DEF SlotsInv, Types
<1>2. PICK i \in On(service[h]) : stack[i] = h /\ \A j \in On(service[h]) : j <= i
  BY DEF Topmost
<1>3. h \in Holders(service[h])
  BY <1>2 DEF On, Holders, Committed
<1>4. ASSUME NEW l \in Holders(service[h]), l # h PROVE Precedes(stack, l, h)
  <2>1. PICK j \in DOMAIN stack : stack[j] = l
    BY DEF Holders, Committed
  <2>2. j \in On(service[h])
    BY <2>1 DEF On, Holders
  <2>3. j < i /\ i \in DOMAIN stack
    BY <1>1, <1>2, <1>4, <2>1, <2>2 DEF On
  <2> QED BY <1>2, <2>1, <2>3 DEF Precedes
<1> QED BY <1>3, <1>4 DEF Latest

LEMMA QuietForce ==
  ASSUME Nested, SlotsInv, InForce, NEW h \in Handle, Act(h), "left" \notin happened',
         ~(Commit(h) /\ pc'[h] = "apply")
  PROVE  InForce'
<1>t. Types /\ Fits(h)
  BY DEF SlotsInv
<1>1. /\ stored' = stored /\ stack' = stack /\ user' = user /\ edited' = edited
      /\ pc'[h] # "apply"
      /\ \A k \in Handle : Committed(k) => service'[k] = service[k] /\ before'[k] = before[k]
  BY <1>t, QuietStep, OwnStep
<1>2. \A k \in Handle : Committed(k)' <=> Committed(k)
  BY <1>1 DEF Committed
<1>3. \A s : Holders(s)' = Holders(s)
  BY <1>1, <1>2 DEF Holders
<1>4. ASSUME NEW s \in Service \ edited'
      PROVE  Shown(s)' /\ (Holders(s)' # {} => user'[s] \in Entry)
  BY <1>1, <1>3 DEF InForce, Shown
<1>5. ASSUME NEW k \in Handle, service'[k] \notin edited' PROVE Found(k)'
  <2>1. CASE Committed(k)
    <3>1. Below(k)' = Below(k)
      BY <1>1, <1>3, <2>1 DEF Below, Earlier
    <3> QED BY <1>1, <1>5, <2>1, <3>1 DEF InForce, Found
  <2>2. CASE ~Committed(k)
    BY <1>2, <2>2 DEF Found
  <2> QED BY <2>1, <2>2
<1>6. ASSUME NEW k \in Handle, closing'[k], UpToDate(k)'
      PROVE  OnTop(k)'
  <2>0. ASSUME service'[k] = service[k] PROVE Holders(service[k])' = Holders(service[k])
    BY <1>1, <1>2, <2>0 DEF Holders
  <2>1. CASE k = h
    <3>1. service'[h] = service[h] /\ ((closing[h] /\ UpToDate(h)) \/ Topmost(h))
      BY <1>6, <2>1, QuietStep
    <3>2. Latest(stack, h, Holders(service[h]))
      BY <3>1, TopmostLatest DEF InForce, OnTop
    <3> QED BY <1>1, <2>0, <2>1, <3>1, <3>2 DEF OnTop
  <2>2. CASE k # h
    <3>1. pc'[k] = pc[k] /\ closing'[k] = closing[k] /\ service'[k] = service[k]
      BY <1>t, <2>2, OwnStep
    <3>2. k \in stale' <=> k \in stale
      BY <1>t, <1>1, <2>2, SharedStep DEF Fits
    <3>3. Latest(stack, k, Holders(service[k]))
      BY <1>6, <3>1, <3>2 DEF InForce, OnTop, UpToDate
    <3> QED BY <1>1, <2>0, <3>1, <3>3 DEF OnTop
  <2> QED BY <2>1, <2>2
<1>7. ASSUME \A k \in Handle : pc'[k] # "apply" PROVE running' = stored'
  <2>1. CASE running' = stored
    BY <1>1, <2>1
  <2>2. CASE running' = running /\ pc[h] # "apply"
    <3>1. \A k \in Handle : pc[k] # "apply"
      BY <1>t, <1>7, <2>2, OwnStep
    <3> QED BY <1>1, <2>2, <3>1 DEF InForce
  <2> QED BY <2>1, <2>2, QuietStep
<1>8. \A k \in Handle : OnTop(k)'
  BY <1>6 DEF OnTop
<1> QED BY <1>4, <1>5, <1>7, <1>8 DEF InForce

LEMMA ShowsSame ==
  ASSUME NEW t, NEW t2, NEW u, NEW v, NEW S, Shows(t, u, v, S),
         \A k, l \in S : Precedes(t, k, l) => Precedes(t2, k, l)
  PROVE  Shows(t2, u, v, S)
BY DEF Shows, Latest

(* A commit that succeeds: the service of the call gets what the call wants *)
(* and every waiting session is an old one.                                 *)
LEMMA CommitFacts ==
  ASSUME SlotsInv, NEW h \in Handle, Commit(h), pc'[h] = "apply"
  PROVE  /\ service[h] \in Service /\ ~UpToDate(h)'
         /\ stored' = [stored EXCEPT ![service[h]] = Wanted(h)]
         /\ stored'[service[h]] = Wanted(h)
         /\ \A s \in Service \ {service[h]} : stored'[s] = stored[s]
         /\ \A k \in Handle : ~UpToDate(k)'
         /\ UNCHANGED <<service, closing, user, edited>>
         /\ IF closing[h]
              THEN stack' = Without(h) /\ UNCHANGED before
              ELSE /\ stack' = Append(stack, h)
                   /\ before' = [before EXCEPT ![h] = stored[service[h]]]
<1>t. Types /\ Fits(h) /\ Fits(h)'
  BY OwnFits DEF SlotsInv, Act
<1>1. pc[h] = "commit" /\ pc' = [pc EXCEPT ![h] = "apply"] /\ stored' = session[h] /\ Outdate
  BY <1>t DEF Commit, Goto, Types
<1>2. /\ session[h] = [stored EXCEPT ![service[h]] = Wanted(h)] /\ service[h] \in Service
      /\ lock = h
  BY <1>t, <1>1 DEF Fits, InStep, UpToDate, Phase, Locked
<1>3. ASSUME NEW k \in Handle PROVE ~UpToDate(k)'
  <2>1. CASE k = h
    BY <2>1 DEF UpToDate
  <2>2. CASE k # h
    <3>1. pc'[k] = pc[k] /\ pc[k] \notin Locked
      BY <1>t, <1>1, <1>2, <2>2 DEF Types, SlotsInv, Fits, Phase
    <3>2. pc[k] = "lock" => k \in stale'
      BY <1>1 DEF Outdate
    <3> QED BY <3>1, <3>2 DEF UpToDate, Locked
  <2> QED BY <2>1, <2>2
<1>4. /\ UNCHANGED <<service, closing, user, edited>>
      /\ IF closing[h]
           THEN stack' = Without(h) /\ UNCHANGED before
           ELSE /\ stack' = Append(stack, h)
                /\ before' = [before EXCEPT ![h] = stored[service[h]]]
  BY <1>t, <1>1 DEF Commit, Goto, Types
<1>5. /\ stored'[service[h]] = Wanted(h)
      /\ \A s \in Service \ {service[h]} : stored'[s] = stored[s]
  BY <1>t, <1>1, <1>2 DEF Types
<1> QED BY <1>1, <1>2, <1>3, <1>4, <1>5

(* The commit of apply puts its handle over all others of its service.      *)
LEMMA ApplyForce ==
  ASSUME SlotsInv, InForce, NEW h \in Handle, Commit(h), pc'[h] = "apply", ~closing[h]
  PROVE  InForce'
<1>t. Types /\ Once /\ Fits(h) /\ stack \in Seq(Handle)
  BY DEF SlotsInv, Types
<1> DEFINE s0 == service[h]
<1>1. /\ s0 \in Service /\ stored'[s0] = Wanted(h)
      /\ \A s \in Service \ {s0} : stored'[s] = stored[s]
      /\ \A k \in Handle : ~UpToDate(k)'
      /\ UNCHANGED <<service, closing, user, edited>>
      /\ stack' = Append(stack, h) /\ before' = [before EXCEPT ![h] = stored[s0]]
  BY CommitFacts
<1>2. ~Committed(h) /\ original[h] = stored[s0]
  <2>1. pc[h] = "commit"
    BY DEF Commit
  <2> QED BY <1>t, <2>1 DEF Fits, Course, InStep, UpToDate
<1>3. /\ \A k \in Handle : Committed(k)' <=> Committed(k) \/ k = h
      /\ \A k, l \in Handle : Earlier(k, l)' <=> Earlier(k, l) \/ (Committed(k) /\ l = h)
  BY <1>t, <1>1, <1>2, HistoryGrows
<1>4. \A k, l \in Handle : Precedes(stack, k, l) => Precedes(stack', k, l)
  BY <1>3 DEF Earlier
<1>5. stored'[s0] = DnsWithServers(stored[s0], h)
  BY <1>1, <1>2 DEF Wanted
<1>6. ASSUME NEW s \in Service \ edited'
      PROVE  Shown(s)' /\ (Holders(s)' # {} => user'[s] \in Entry)
  <2>0. Shows(stack, user[s], stored[s], Holders(s)) /\ (Holders(s) # {} => user[s] \in Entry)
    BY <1>1, <1>6 DEF InForce, Shown
  <2>1. CASE s # s0
    <3>1. Holders(s)' = Holders(s)
      BY <1>1, <1>3, <2>1 DEF Holders
    <3>2. Shows(stack', user[s], stored[s], Holders(s))
      BY <1>4, <2>0, ShowsSame DEF Holders
    <3> QED BY <1>1, <1>6, <2>0, <2>1, <3>1, <3>2 DEF Shown
  <2>2. CASE s = s0
    <3>1. Holders(s)' = Holders(s) \cup {h}
      BY <1>1, <1>3, <2>2 DEF Holders
    <3>2. Latest(stack', h, Holders(s) \cup {h})
      BY <1>3 DEF Latest, Holders, Earlier
    <3>3. DnsWithServers(stored[s], h) = DnsWithServers(user[s], h)
      <4>1. CASE stored[s] = user[s]
        BY <4>1
      <4>2. CASE \E k \in Holders(s) : stored[s] = DnsWithServers(user[s], k)
        <5>1. PICK k \in Handle : stored[s] = DnsWithServers(user[s], k)
          BY <4>2 DEF Holders
        <5>2. stored[s] # NoDns
          BY <2>0, <4>2, <5>1, ServersType, MacGlobalAssumption
        <5> QED BY <5>1, <5>2 DEF DnsWithServers
      <4> QED BY <2>0, <4>1, <4>2 DEF Shows
    <3>4. user[s] \in Entry
      <4>1. original[h] \in Entry
        BY <1>t DEF Types
      <4> QED BY <1>2, <2>0, <2>2, <4>1 DEF Shows
    <3>5. stored'[s] = DnsWithServers(user[s], h)
      BY <1>5, <2>2, <3>3
    <3>6. Shows(stack', user[s], stored'[s], Holders(s) \cup {h})
      BY <3>2, <3>5 DEF Shows
    <3> QED BY <1>1, <3>1, <3>4, <3>6 DEF Shown
  <2> QED BY <2>1, <2>2
<1>7. ASSUME NEW k \in Handle, service'[k] \notin edited' PROVE Found(k)'
  <2>1. CASE k = h
    <3>1. Below(h)' = Holders(s0)
      BY <1>1, <1>2, <1>3, <1>t, EarlierOrder DEF Below, Holders
    <3>2. Shows(stack, user[s0], stored[s0], Holders(s0))
      BY <1>1, <1>7, <2>1 DEF InForce, Shown
    <3>3. Shows(stack', user[s0], stored[s0], Holders(s0))
      BY <1>4, <3>2, ShowsSame DEF Holders
    <3>4. before'[h] = stored[s0]
      BY <1>t, <1>1 DEF Types
    <3> QED BY <1>1, <2>1, <3>1, <3>3, <3>4 DEF Found
  <2>2. CASE k # h /\ Committed(k)
    <3>1. Below(k)' = Below(k)
      BY <1>1, <1>2, <1>3, <2>2, <1>t, EarlierOrder DEF Below, Holders
    <3>2. Shows(stack, user[service[k]], before[k], Below(k))
      BY <1>1, <1>7, <2>2 DEF InForce, Found
    <3>3. Shows(stack', user[service[k]], before[k], Below(k))
      BY <1>4, <3>2, ShowsSame DEF Below, Holders
    <3>4. before'[k] = before[k]
      BY <1>t, <1>1, <2>2 DEF Types
    <3> QED BY <1>1, <3>1, <3>3, <3>4 DEF Found
  <2>3. CASE k # h /\ ~Committed(k)
    BY <1>3, <2>3 DEF Found
  <2> QED BY <2>1, <2>2, <2>3
<1>8. \A k \in Handle : OnTop(k)'
  BY <1>1 DEF OnTop
<1> QED BY <1>6, <1>7, <1>8 DEF InForce

(* The commit of close, under Nested that of the latest handle, puts back   *)
(* what the handles below it show.                                          *)
LEMMA CloseForce ==
  ASSUME SlotsInv, InForce, NEW h \in Handle, Commit(h), pc'[h] = "apply", closing[h]
  PROVE  InForce'
<1>t. Types /\ Once /\ Fits(h) /\ stack \in Seq(Handle)
  BY DEF SlotsInv, Types
<1> DEFINE s0 == service[h]
<1>1. /\ s0 \in Service /\ stored'[s0] = original[h]
      /\ \A s \in Service \ {s0} : stored'[s] = stored[s]
      /\ \A k \in Handle : ~UpToDate(k)'
      /\ UNCHANGED <<service, closing, user, edited, before>>
      /\ stack' = Without(h)
  BY CommitFacts DEF Wanted
<1>2. Committed(h) /\ original[h] = before[h] /\ Latest(stack, h, Holders(s0))
  <2>1. pc[h] = "commit"
    BY DEF Commit
  <2> QED BY <1>t, <2>1 DEF Fits, Course, Phase, UpToDate, InForce, OnTop
<1>3. /\ \A k \in Handle : Committed(k)' <=> Committed(k) /\ k # h
      /\ \A k, l \in Handle : Earlier(k, l)' <=> Earlier(k, l) /\ k # h /\ l # h
  BY <1>t, <1>1, HistoryShrinks
<1>4. ASSUME NEW S, S \subseteq Handle \ {h}, NEW u, NEW v, Shows(stack, u, v, S)
      PROVE  Shows(stack', u, v, S)
  <2>1. \A k, l \in S : Precedes(stack, k, l) => Precedes(stack', k, l)
    BY <1>3, <1>4 DEF Earlier
  <2> QED BY <1>4, <2>1, ShowsSame
<1>5. ASSUME NEW s \in Service \ edited'
      PROVE  Shown(s)' /\ (Holders(s)' # {} => user'[s] \in Entry)
  <2>1. Shows(stack, user[s], stored[s], Holders(s)) /\ (Holders(s) # {} => user[s] \in Entry)
    BY <1>1, <1>5 DEF InForce, Shown
  <2>2. Holders(s)' = Holders(s) \ {h}
    BY <1>1, <1>3 DEF Holders
  <2>3. CASE s # s0
    <3>1. Holders(s) \ {h} = Holders(s) /\ Holders(s) \subseteq Handle \ {h}
      BY <2>3 DEF Holders
    <3>2. Shows(stack', user[s], stored[s], Holders(s))
      BY <1>4, <2>1, <3>1
    <3> QED BY <1>1, <1>5, <2>1, <2>2, <2>3, <3>1, <3>2 DEF Shown
  <2>4. CASE s = s0
    <3>1. Below(h) = Holders(s0) \ {h}
      BY <1>2, <1>t, EarlierOrder DEF Below, Latest, Earlier, Holders
    <3>2. Shows(stack, user[s0], before[h], Below(h))
      BY <1>1, <1>2, <1>5, <2>4 DEF InForce, Found
    <3>3. Shows(stack', user[s0], before[h], Below(h))
      BY <1>4, <3>1, <3>2 DEF Holders
    <3> QED BY <1>1, <1>2, <2>1, <2>2, <2>4, <3>1, <3>3 DEF Shown
  <2> QED BY <2>3, <2>4
<1>6. ASSUME NEW k \in Handle, service'[k] \notin edited' PROVE Found(k)'
  <2>1. CASE k # h /\ Committed(k)
    <3>1. h \notin Below(k)
      <4>1. CASE service[k] = s0
        <5>1. Earlier(k, h)
          BY <1>2, <2>1, <4>1 DEF Latest, Holders, Earlier
        <5> QED BY <1>t, <5>1, EarlierOrder DEF Below
      <4>2. CASE service[k] # s0
        BY <4>2 DEF Below, Holders
      <4> QED BY <4>1, <4>2
    <3>2. Below(k)' = Below(k)
      BY <1>1, <1>3, <2>1, <3>1 DEF Below, Holders
    <3>3. Shows(stack, user[service[k]], before[k], Below(k))
      BY <1>1, <1>6, <2>1 DEF InForce, Found
    <3>4. Shows(stack', user[service[k]], before[k], Below(k))
      BY <1>4, <3>1, <3>3 DEF Below, Holders
    <3> QED BY <1>1, <3>2, <3>4 DEF Found
  <2>2. CASE ~(k # h /\ Committed(k))
    BY <1>3, <2>2 DEF Found
  <2> QED BY <2>1, <2>2
<1>7. \A k \in Handle : OnTop(k)'
  BY <1>1 DEF OnTop
<1>8. pc'[h] = "apply"
  OBVIOUS
<1> QED BY <1>5, <1>6, <1>7, <1>8 DEF InForce

(* What others commit is the user's entry where there is no handle, and the *)
(* service is "edited" where there is one.                                  *)
LEMMA ExternalForce == SlotsInv /\ InForce /\ ExternalCommit => InForce'
<1> SUFFICES ASSUME SlotsInv, InForce, ExternalCommit PROVE InForce'
  OBVIOUS
<1>1. PICK s \in Editable, d \in UserDns \cup {Gone} :
        /\ stored' = [stored EXCEPT ![s] = d] /\ running' = stored'
        /\ IF On(s) = {}
             THEN user' = [user EXCEPT ![s] = d] /\ UNCHANGED edited
             ELSE edited' = edited \cup {s} /\ UNCHANGED user
  BY DEF ExternalCommit
<1>2. /\ UNCHANGED <<pc, service, closing, stack, before>>
      /\ \A k \in Handle : ~UpToDate(k)'
  <2>1. lock = Nobody /\ stale' = {k \in Handle : pc[k] = "lock"} /\ UNCHANGED <<pc, service, closing, stack, before>>
    BY DEF ExternalCommit, Outdate, locals
  <2>2. \A k \in Handle : pc[k] \notin Locked
    BY <2>1, MacGlobalAssumption DEF SlotsInv, Fits, Phase
  <2> QED BY <2>1, <2>2 DEF UpToDate, Locked
<1>3. \A k : Committed(k)' <=> Committed(k)
  BY <1>2 DEF Committed
<1>4. \A r : Holders(r)' = Holders(r)
  BY <1>2, <1>3 DEF Holders
<1>5. s \in Service /\ Types
  BY MacGlobalAssumption DEF SlotsInv
<1>6. \A r \in Service \ {s} : stored'[r] = stored[r] /\ user'[r] = user[r]
  BY <1>1, <1>5 DEF Types
<1>7. \A k \in Handle : Committed(k) => On(service[k]) # {}
  BY DEF Committed, On
<1>8. ASSUME NEW r \in Service \ edited'
      PROVE  Shown(r)' /\ (Holders(r)' # {} => user'[r] \in Entry)
  <2>1. CASE r # s
    <3>1. r \in Service \ edited
      BY <1>1, <1>8
    <3> QED BY <1>2, <1>4, <1>6, <2>1, <3>1 DEF InForce, Shown
  <2>2. CASE r = s
    <3>1. On(s) = {} /\ user' = [user EXCEPT ![s] = d]
      BY <1>1, <1>8, <2>2
    <3>2. Holders(s) = {}
      BY <1>7, <3>1 DEF Holders
    <3>3. user'[s] = d /\ stored'[s] = d
      BY <1>1, <1>5, <3>1 DEF Types
    <3> QED BY <1>4, <2>2, <3>2, <3>3 DEF Shown, Shows
  <2> QED BY <2>1, <2>2
<1>9. ASSUME NEW k \in Handle, service'[k] \notin edited' PROVE Found(k)'
  <2>1. CASE Committed(k)
    <3>1. user' [service[k]] = user[service[k]]
      <4>1. service[k] \in Service
        BY <1>5, <2>1, MacGlobalAssumption DEF SlotsInv, Fits, Phase
      <4>2. CASE service[k] = s
        BY <1>1, <1>2, <1>7, <1>9, <2>1, <4>2
      <4>3. CASE service[k] # s
        BY <1>6, <4>1, <4>3
      <4> QED BY <4>2, <4>3
    <3>2. Below(k)' = Below(k)
      BY <1>2, <1>3 DEF Below, Holders, Earlier
    <3>3. service[k] \notin edited
      BY <1>1, <1>2, <1>9
    <3> QED BY <1>2, <2>1, <3>1, <3>2, <3>3 DEF InForce, Found
  <2>2. CASE ~Committed(k)
    BY <1>3, <2>2 DEF Found
  <2> QED BY <2>1, <2>2
<1>10. \A k \in Handle : OnTop(k)'
  BY <1>2 DEF OnTop
<1> QED BY <1>1, <1>8, <1>9, <1>10 DEF InForce

LEMMA SameForce ==
  ASSUME InForce, UNCHANGED <<stored, running, stale, pc, locals, hist>>
  PROVE  InForce'
<1>1. \A k : Committed(k)' <=> Committed(k)
  BY DEF Committed, hist
<1>2. \A s : Holders(s)' = Holders(s)
  BY <1>1 DEF Holders, locals
<1>3. ASSUME NEW s \in Service \ edited'
      PROVE  Shown(s)' /\ (Holders(s)' # {} => user'[s] \in Entry)
  BY <1>2 DEF InForce, Shown, hist
<1>4. ASSUME NEW k \in Handle, service'[k] \notin edited' PROVE Found(k)'
  <2>1. Below(k)' = Below(k)
    BY <1>1 DEF Below, Holders, Earlier, locals, hist
  <2> QED BY <1>1, <1>4, <2>1 DEF InForce, Found, locals, hist
<1>5. ASSUME NEW k \in Handle PROVE OnTop(k)'
  <2>1. Holders(service[k])' = Holders(service[k])
    BY <1>1 DEF Holders, locals
  <2> QED BY <2>1 DEF InForce, OnTop, UpToDate, locals, hist
<1> QED BY <1>3, <1>4, <1>5 DEF InForce, locals, hist

LEMMA ForceStep == Nested /\ ForceInv /\ [Next]_vars => ForceInv'
<1> SUFFICES ASSUME Nested, ForceInv, [Next]_vars PROVE ForceInv'
  OBVIOUS
<1>1. SlotsInv'
  BY SlotsStep DEF ForceInv
<1>2. ASSUME "left" \notin happened' PROVE InForce'
  <2>1. ASSUME NEW h \in Handle, Act(h) PROVE InForce'
    <3>1. InForce /\ SlotsInv
      BY <1>2, <2>1, OwnStep DEF ForceInv, SlotsInv
    <3>2. CASE Commit(h) /\ pc'[h] = "apply"
      BY <3>1, <3>2, ApplyForce, CloseForce
    <3>3. CASE ~(Commit(h) /\ pc'[h] = "apply")
      BY <1>2, <2>1, <3>1, <3>3, QuietForce
    <3> QED BY <3>2, <3>3
  <2>2. CASE ExternalCommit
    BY <1>2, <2>2, ExternalForce DEF ForceInv, ExternalCommit
  <2>3. CASE PrimaryChanges
    BY <1>2, <2>3, SameForce DEF ForceInv, PrimaryChanges, hist
  <2>4. CASE UNCHANGED vars
    BY <1>2, <2>4, SameForce DEF ForceInv, vars, prefs, hist
  <2> QED BY <2>1, <2>2, <2>3, <2>4 DEF Next, Act
<1> QED BY <1>1, <1>2 DEF ForceInv

LEMMA ForceInit == Init => ForceInv
<1> SUFFICES ASSUME Init PROVE ForceInv
  OBVIOUS
<1>1. \A k : ~Committed(k)
  BY DEF Init, Committed
<1>2. \A s : Holders(s) = {}
  BY <1>1 DEF Holders
<1>3. InForce
  BY <1>1, <1>2 DEF Init, InForce, Shown, Shows, Found, OnTop
<1> QED BY <1>3, SlotsInit DEF ForceInv

LEMMA InForceShows == ForceInv => TopmostInForce
<1> SUFFICES ASSUME ForceInv, happened \subseteq {"flush"}, NEW s \in Service \ edited
             PROVE  /\ IF On(s) = {}
                         THEN stored[s] = user[s]
                         ELSE \E i \in On(s) : /\ \A j \in On(s) : j <= i
                                               /\ stored[s] = DnsWithServers(user[s], stack[i])
                    /\ (\A h \in Handle : pc[h] # "apply") => running[s] = stored[s]
  BY DEF TopmostInForce
<1>1. SlotsInv /\ InForce
  BY DEF ForceInv
<1>2. /\ stack \in Seq(Handle) /\ Once /\ DOMAIN stack = 1..Len(stack) /\ Len(stack) \in Nat
      /\ \A i \in DOMAIN stack : stack[i] \in Handle
  BY <1>1 DEF SlotsInv, Types
<1>3. Shows(stack, user[s], stored[s], Holders(s))
  BY <1>1 DEF InForce, Shown
<1>4. \A i \in DOMAIN stack : i \in On(s) <=> stack[i] \in Holders(s)
  BY <1>2 DEF On, Holders, Committed
<1>5. CASE On(s) = {}
  <2>1. Holders(s) = {}
    BY <1>4, <1>5 DEF Holders, Committed
  <2> QED BY <1>1, <1>3, <1>5, <2>1 DEF Shows, InForce
<1>6. CASE On(s) # {}
  <2>1. Holders(s) # {}
    BY <1>4, <1>6 DEF On
  <2>2. PICK k \in Holders(s) : /\ Latest(stack, k, Holders(s))
                                /\ stored[s] = DnsWithServers(user[s], k)
    BY <1>3, <2>1 DEF Shows
  <2>3. PICK i \in DOMAIN stack : stack[i] = k
    BY DEF Holders, Committed
  <2>4. ASSUME NEW j \in On(s) PROVE j <= i
    <3>1. j \in DOMAIN stack /\ stack[j] \in Holders(s)
      BY <1>4 DEF On
    <3>2. CASE stack[j] = k
      BY <1>2, <2>3, <3>1, <3>2 DEF Once
    <3>3. CASE Precedes(stack, stack[j], k)
      BY <1>2, <2>3, <3>1, <3>3 DEF Precedes, Once
    <3> QED BY <2>2, <3>1, <3>2, <3>3 DEF Latest
  <2>5. i \in On(s)
    BY <1>4, <2>3
  <2> QED BY <1>1, <1>6, <2>2, <2>3, <2>4, <2>5 DEF InForce
<1> QED BY <1>5, <1>6

(* Where the handles of one service are closed in reverse order, its entry  *)
(* on disk, and in force unless an ApplyChanges is to come, has the servers *)
(* of the latest handle and the user's other keys, and is the user's own    *)
(* where there is no handle: for calls that overlap and fail in any way,    *)
(* until one that could not take its change back has returned an error.     *)
THEOREM MacGlobalTopmostInForce == ASSUME Nested PROVE Spec => []TopmostInForce
<1>1. ForceInv /\ [Next]_vars => ForceInv'
  BY ForceStep
<1> QED BY <1>1, ForceInit, InForceShows, PTL DEF Spec
=============================================================================
