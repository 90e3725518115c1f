----------------------------- MODULE NrptProofs -----------------------------
(***************************************************************************)
(* Theorems about Nrpt, for any number of programs, owners and rules.      *)
(***************************************************************************)
EXTENDS Nrpt, TLAPS

(* Programs use owners of their own, and each owner has a subkey of its     *)
(* own, as the names of owners that differ in more than case do.            *)
OwnersOfTheirOwn ==
  /\ \A h, k \in Handle : h # k => OwnersOf[h] \cap OwnersOf[k] = {}
  /\ \A o, p \in Owner : KeyOf[o] = KeyOf[p] => o = p

(* Where a call of apply cleans up, where it writes rules, and where an     *)
(* error or a close takes them away.                                        *)
Cleaning == {"open_state", "read_ids", "list_rules", "remove_tagged", "remove_listed",
             "remove_state"}
Writing  == {"create_rule", "tag_rule", "create_state", "set_ids"}
Leaving  == {"roll_back", "close_rules", "close_state"}

(* The local variables of slot h. *)
Locals(h) ==
  /\ pc[h] \in {"idle", "dead"} =>
       owner[h] = Nobody /\ ids[h] = {} /\ cur[h] = Nobody
  /\ pc[h] \notin {"idle", "dead"} => owner[h] \in OwnersOf[h]
  /\ pc[h] \in Cleaning \cup {"create_rule", "tag_rule"} => left[h] # 0
  /\ pc[h] \in Cleaning => ids[h] = {}
  /\ pc[h] \in {"roll_back", "close_rules"} => todo[h] \subseteq ids[h]
  /\ pc[h] = "tag_rule" => cur[h] # Nobody
  /\ pc[h] \notin {"tag_rule", "roll_back"} => cur[h] = Nobody

(* What slot h knows of the registry: its rules carry its mark or are gone, *)
(* the one it is writing has no mark yet, and what it read from its list    *)
(* carries no mark of another owner.                                        *)
Knows(h) ==
  /\ \A id \in ids[h] : rules[id] \in {owner[h], "absent"}
  /\ pc[h] \notin Leaving => \A id \in ids[h] : rules[id] = owner[h]
  /\ pc[h] = "close_rules" => \A id \in todo[h] : rules[id] = owner[h]
  /\ cur[h] # Nobody => rules[cur[h]] = "untagged"
  /\ pc[h] = "remove_listed" => \A id \in todo[h] : rules[id] \in {owner[h], "absent"}
  /\ pc[h] \in {"set_ids", "live", "close_rules", "close_state"} => key(h) \in stateKeys

(* Two slots never write one rule. *)
Apart == \A h, k \in Handle : h # k /\ cur[h] = cur[k] => cur[h] = Nobody

(* What stands on a list has the mark of the list's owner, or is gone.      *)
Lists ==
  /\ \A o \in Owner : \A id \in listed[KeyOf[o]] : rules[id] \in {o, "absent"}
  /\ \A k \in Key : listed[k] # {} => k \in stateKeys /\ \E o \in Owner : k = KeyOf[o]

RulesInv ==
  /\ TypeOK
  /\ \A h \in Handle : Locals(h) /\ Knows(h)
  /\ Apart /\ Lists

(* As long as the registry works in apply and no process dies with rules    *)
(* on no list: the list of an owner names the rules of its handle, and is   *)
(* empty while an apply writes new ones.                                    *)
OwnList(h) ==
  /\ pc[h] \in {"live", "close_rules", "close_state"} => listed[key(h)] = ids[h]
  /\ pc[h] \in Writing \cup {"list_rules", "remove_tagged"} => listed[key(h)] = {}
  /\ pc[h] \in {"remove_listed", "close_rules"} =>
       \A id \in listed[key(h)] \ todo[h] : rules[id] = "absent"
  /\ pc[h] \in {"remove_state", "close_state"} =>
       \A id \in listed[key(h)] : rules[id] = "absent"
  /\ pc[h] # "roll_back"

Explained ==
  \A id \in RuleId : Unclaimed(id) =>
    happened \cap {"forget", "close"} # {} /\ \E k \in Key : id \in listed[k]

Quiet == happened \cap {"io", "crash"} = {}

TidyInv == Quiet => Explained /\ \A h \in Handle : OwnList(h)

-----------------------------------------------------------------------------
(* What happens in slot h. *)
Act(h) == Apply(h) \/ Close(h) \/ Step(h) \/ Forget(h) \/ Crash(h)

(* The types of the local variables. *)
LocalTypes ==
  /\ pc \in [Handle -> Steps \cup Rest]
  /\ owner \in [Handle -> Owner \cup {Nobody}]
  /\ ids \in [Handle -> SUBSET RuleId]
  /\ left \in [Handle -> Nat]
  /\ cur \in [Handle -> RuleId \cup {Nobody}]
  /\ todo \in [Handle -> SUBSET RuleId]

(* What a return, a loop and a rollback do to the local variables.          *)
LEMMA ReturnLocals ==
  ASSUME TypeOK, NEW h \in Handle, NEW l \in {"idle", "dead"}, Return(h, l)
  PROVE  LocalTypes' /\ Locals(h)'
<1>1. LocalTypes'
  BY DEF LocalTypes, TypeOK, Return, Goto, Rest
<1>2. /\ pc'[h] = l /\ owner'[h] = Nobody /\ ids'[h] = {} /\ cur'[h] = Nobody
  BY DEF TypeOK, Return, Goto
<1> QED BY <1>1, <1>2 DEF Locals, Cleaning

LEMMA LoopTypes ==
  ASSUME TypeOK, NEW h \in Handle, NEW s \in SUBSET RuleId, NEW b \in Steps,
         NEW l \in Steps \cup Rest, Loop(h, s, b, l)
  PROVE  /\ pc' \in [Handle -> Steps \cup Rest] /\ todo' \in [Handle -> SUBSET RuleId]
         /\ todo'[h] = s
         /\ pc'[h] = l \/ (pc'[h] = b /\ s # {})
BY DEF TypeOK, Loop, Goto

LEMMA RollBackLocals ==
  ASSUME TypeOK, NEW h \in Handle, owner[h] \in OwnersOf[h], RollBackFrom(h)
  PROVE  /\ LocalTypes' /\ Locals(h)'
         /\ pc'[h] \in {"idle", "roll_back"}
<1>1. CASE ids[h] = {}
  <2>1. Return(h, "idle")
    BY <1>1 DEF RollBackFrom
  <2> QED BY <2>1, ReturnLocals DEF Return, Goto, TypeOK
<1>2. CASE ids[h] # {}
  <2>1. /\ Loop(h, ids[h], "roll_back", "idle") /\ UNCHANGED <<owner, ids, left, cur>>
        /\ ids[h] \in SUBSET RuleId
    BY <1>2 DEF RollBackFrom, TypeOK
  <2>2. pc'[h] = "roll_back" /\ todo'[h] = ids[h]
    BY <1>2, <2>1 DEF Loop, Goto, TypeOK
  <2>3. LocalTypes'
    BY <2>1, LoopTypes DEF LocalTypes, TypeOK, Steps, Rest
  <2> QED BY <2>1, <2>2, <2>3 DEF Locals, Cleaning
<1> QED BY <1>1, <1>2

(* A step of one slot leaves the local variables of the others alone, and   *)
(* all lists but its own.                                                   *)
LEMMA OwnStep ==
  ASSUME TypeOK, NEW h \in Handle, Act(h)
  PROVE  /\ \A k \in Handle \ {h} :
              /\ pc'[k] = pc[k] /\ owner'[k] = owner[k] /\ ids'[k] = ids[k]
              /\ left'[k] = left[k] /\ cur'[k] = cur[k] /\ todo'[k] = todo[k]
         /\ \A k \in Key \ {key(h)} :
              listed'[k] = listed[k] /\ (k \in stateKeys' <=> k \in stateKeys)
<1> USE DEF TypeOK, Goto, Loop, Return, RollBackFrom
<1>1. CASE Apply(h) \/ Close(h) \/ Forget(h) \/ Crash(h)
  BY <1>1 DEF Apply, Close, Forget, Crash, registry
<1>2. CASE OpenState(h) \/ ReadIds(h) \/ ListRules(h)
  BY <1>2 DEF OpenState, ReadIds, ListRules, registry
<1>3. CASE RemoveListed(h) \/ RemoveTagged(h) \/ RemoveState(h)
  BY <1>3 DEF RemoveListed, RemoveTagged, RemoveState
<1>4. CASE CreateRule(h) \/ TagRule(h)
  BY <1>4 DEF CreateRule, TagRule
<1>5. CASE CreateState(h) \/ SetIds(h)
  BY <1>5 DEF CreateState, SetIds
<1>6. CASE RollBack(h) \/ CloseRules(h) \/ CloseState(h)
  BY <1>6 DEF RollBack, CloseRules, CloseState
<1> QED BY <1>1, <1>2, <1>3, <1>4, <1>5, <1>6 DEF Act, Step

LEMMA HappensType == ASSUME TypeOK, [Next]_vars PROVE happened' \subseteq Mishaps
<1>1. \A h \in Handle : Act(h) => happened' \subseteq Mishaps
  BY DEF TypeOK, Act, Apply, Close, Forget, Crash, Step, OpenState, ReadIds, ListRules,
         RemoveListed, RemoveTagged, RemoveState, CreateRule, TagRule, CreateState, SetIds,
         RollBack, CloseRules, CloseState, Ok, Err, FailsIf, CloseFailsIf, Happens
<1> QED BY <1>1 DEF Next, Act, vars, TypeOK

RegistryTypes ==
  /\ rules \in [RuleId -> {"absent", "untagged"} \cup Owner]
  /\ stateKeys \subseteq Key
  /\ listed \in [Key -> SUBSET RuleId]

(* Every action keeps the types and what its slot knows of its own locals.  *)
LEMMA LocalsStep ==
  ASSUME TypeOK, NEW h \in Handle, Locals(h), Act(h)
  PROVE  RegistryTypes' /\ LocalTypes' /\ Locals(h)'
<1>1. RegistryTypes /\ LocalTypes
  BY DEF TypeOK, RegistryTypes, LocalTypes
<1>2. pc[h] \notin {"idle", "dead"} => key(h) \in Key /\ owner[h] \in Owner
  BY NrptAssumption DEF Locals, key
<1>3. CASE Apply(h)
  <2>1. PICK o \in OwnersOf[h] : owner' = [owner EXCEPT ![h] = o]
    BY <1>3 DEF Apply
  <2>2. PICK n \in Chunks : left' = [left EXCEPT ![h] = n]
    BY <1>3 DEF Apply
  <2>3. o \in Owner /\ n \in Nat /\ n # 0
    BY NrptAssumption
  <2> QED BY <1>1, <1>3, <2>1, <2>2, <2>3
      DEF Apply, Goto, registry, RegistryTypes, LocalTypes, Locals, Cleaning, Steps
<1>4. CASE OpenState(h)
  BY <1>1, <1>4 DEF OpenState, Goto, registry, RegistryTypes, LocalTypes, Locals, Cleaning, Steps
<1>5. CASE ReadIds(h) \/ ListRules(h)
  BY <1>1, <1>2, <1>5
  DEF ReadIds, ListRules, Loop, Goto, registry, RegistryTypes, LocalTypes, Locals, Cleaning, Steps
<1>6. CASE RemoveListed(h) \/ RemoveTagged(h)
  <2>1. /\ pc[h] \in {"remove_listed", "remove_tagged"} /\ RegistryTypes'
        /\ UNCHANGED <<owner, ids, left, cur>>
    BY <1>1, <1>6 DEF RemoveListed, RemoveTagged, RegistryTypes
  <2>2. PICK id \in todo[h], b \in {"remove_listed", "remove_tagged"} :
          Loop(h, todo[h] \ {id}, b, "remove_state")
    BY <1>6 DEF RemoveListed, RemoveTagged
  <2>3. todo[h] \ {id} \in SUBSET RuleId
    BY <1>1 DEF LocalTypes
  <2>4. /\ pc'[h] \in {"remove_listed", "remove_tagged", "remove_state"}
        /\ pc' \in [Handle -> Steps \cup Rest] /\ todo' \in [Handle -> SUBSET RuleId]
    BY <2>2, <2>3, LoopTypes DEF Steps
  <2> QED BY <1>1, <2>1, <2>4 DEF LocalTypes, Locals, Cleaning
<1>7. CASE RemoveState(h)
  BY <1>1, <1>2, <1>7 DEF RemoveState, Goto, RegistryTypes, LocalTypes, Locals, Cleaning, Steps
<1>8. CASE CreateRule(h)
  <2>1. RegistryTypes'
    BY <1>1, <1>8 DEF CreateRule, RegistryTypes, Fresh
  <2>2. CASE Return(h, "idle")
    BY <2>1, <2>2, ReturnLocals
  <2>3. CASE RollBackFrom(h)
    BY <1>8, <2>1, <2>3, RollBackLocals DEF CreateRule, Locals
  <2>4. CASE /\ \E id \in Fresh : cur' = [cur EXCEPT ![h] = id]
             /\ Goto(h, "tag_rule") /\ UNCHANGED <<owner, ids, left, todo>>
    <3>1. PICK id \in RuleId : cur' = [cur EXCEPT ![h] = id]
      BY <2>4 DEF Fresh
    <3>2. id # Nobody
      BY NrptAssumption
    <3> QED BY <1>1, <1>8, <2>1, <2>4, <3>1, <3>2
        DEF CreateRule, Goto, LocalTypes, Locals, Cleaning, Steps
  <2> QED BY <1>8, <2>2, <2>3, <2>4 DEF CreateRule
<1>9. CASE TagRule(h)
  <2>1. cur[h] \in RuleId /\ left[h] \in Nat \ {0} /\ owner[h] \in Owner /\ pc[h] = "tag_rule"
    BY <1>1, <1>2, <1>9 DEF TagRule, Locals, LocalTypes
  <2>2. RegistryTypes'
    BY <1>1, <1>9, <2>1 DEF TagRule, RegistryTypes
  <2>3. CASE RollBackFrom(h)
    BY <2>1, <2>2, <2>3, RollBackLocals DEF Locals
  <2>4. CASE /\ ids' = [ids EXCEPT ![h] = @ \cup {cur[h]}]
             /\ cur' = [cur EXCEPT ![h] = Nobody]
             /\ left' = [left EXCEPT ![h] = @ - 1]
             /\ Goto(h, IF left[h] = 1 THEN "create_state" ELSE "create_rule")
             /\ UNCHANGED <<owner, todo>>
    <3>1. left[h] - 1 \in Nat /\ (left[h] # 1 => left[h] - 1 # 0)
      BY <2>1
    <3>2. LocalTypes'
      BY <1>1, <2>1, <2>4, <3>1 DEF LocalTypes, Goto, Steps
    <3>3. Locals(h)'
      BY <1>1, <2>1, <2>4, <3>1 DEF LocalTypes, Goto, Locals, Cleaning
    <3> QED BY <2>2, <3>2, <3>3
  <2> QED BY <1>9, <2>3, <2>4 DEF TagRule
<1>10. CASE CreateState(h) \/ SetIds(h)
  <2>1. RegistryTypes' /\ owner[h] \in OwnersOf[h]
    BY <1>1, <1>2, <1>10 DEF CreateState, SetIds, RegistryTypes, LocalTypes, Locals
  <2>2. CASE RollBackFrom(h)
    BY <2>1, <2>2, RollBackLocals
  <2>3. CASE \/ Goto(h, "set_ids") /\ UNCHANGED <<owner, ids, left, cur, todo>>
             \/ Goto(h, "live") /\ UNCHANGED <<owner, ids, left, cur, todo>>
    BY <1>1, <1>10, <2>1, <2>3
    DEF CreateState, SetIds, Goto, LocalTypes, Locals, Cleaning, Steps, Rest
  <2> QED BY <1>10, <2>2, <2>3 DEF CreateState, SetIds
<1>11. CASE RollBack(h)
  <2>1. RegistryTypes'
    BY <1>1, <1>11 DEF RollBack, RegistryTypes
  <2>2. CASE Return(h, "idle")
    BY <2>1, <2>2, ReturnLocals
  <2>3. CASE \E id \in todo[h] : todo' = [todo EXCEPT ![h] = @ \ {id}]
                                /\ UNCHANGED <<pc, owner, ids, left, cur>>
    BY <1>1, <1>11, <2>1, <2>3 DEF RollBack, LocalTypes, Locals, Cleaning
  <2> QED BY <1>11, <2>2, <2>3 DEF RollBack
<1>12. CASE Close(h)
  BY <1>1, <1>12 DEF Close, Loop, Goto, registry, RegistryTypes, LocalTypes, Locals, Cleaning, Steps
<1>13. CASE CloseRules(h)
  <2>1. RegistryTypes'
    BY <1>1, <1>13 DEF CloseRules, RegistryTypes
  <2>2. CASE Return(h, "idle")
    BY <2>1, <2>2, ReturnLocals
  <2>3. CASE \E id \in todo[h] : Loop(h, todo[h] \ {id}, "close_rules", "close_state")
                                /\ UNCHANGED <<owner, ids, left, cur>>
    BY <1>1, <1>13, <2>1, <2>3
    DEF CloseRules, Loop, Goto, LocalTypes, Locals, Cleaning, Steps
  <2> QED BY <1>13, <2>2, <2>3 DEF CloseRules
<1>14. CASE CloseState(h)
  <2>1. RegistryTypes' /\ Return(h, "idle")
    BY <1>1, <1>2, <1>14 DEF CloseState, RegistryTypes
  <2> QED BY <2>1, ReturnLocals
<1>15. CASE Forget(h) \/ Crash(h)
  <2>1. RegistryTypes' /\ \E l \in {"idle", "dead"} : Return(h, l)
    BY <1>1, <1>15 DEF Forget, Crash, registry, RegistryTypes
  <2> QED BY <2>1, ReturnLocals
<1> QED BY <1>3, <1>4, <1>5, <1>6, <1>7, <1>8, <1>9, <1>10, <1>11, <1>12, <1>13, <1>14, <1>15
        DEF Act, Step

LEMMA TypeInit == Init => TypeOK /\ \A h \in Handle : Locals(h)
BY DEF Init, TypeOK, Locals, Rest, Cleaning

LEMMA TypeStep ==
  ASSUME TypeOK, \A h \in Handle : Locals(h), [Next]_vars
  PROVE  TypeOK' /\ \A h \in Handle : Locals(h)'
<1>1. ASSUME NEW h \in Handle, Act(h) PROVE TypeOK' /\ \A k \in Handle : Locals(k)'
  <2>1. RegistryTypes' /\ LocalTypes' /\ Locals(h)'
    BY <1>1, LocalsStep
  <2>2. ASSUME NEW k \in Handle \ {h} PROVE Locals(k)'
    BY <1>1, OwnStep DEF Locals
  <2> QED BY <2>1, <2>2, HappensType DEF TypeOK, RegistryTypes, LocalTypes
<1>2. CASE UNCHANGED vars
  BY <1>2 DEF vars, TypeOK, Locals
<1> QED BY <1>1, <1>2 DEF Next, Act

(* The registry and the local variables of every call have their types,     *)
(* whatever owners share and whatever fails.                                *)
THEOREM NrptTypeCorrect == Spec => []TypeOK
<1> DEFINE I == TypeOK /\ \A h \in Handle : Locals(h)
<1>1. Init => I
  BY TypeInit
<1>2. I /\ [Next]_vars => I'
  BY TypeStep
<1>3. I => TypeOK
  OBVIOUS
<1> QED BY <1>1, <1>2, <1>3, PTL DEF Spec

-----------------------------------------------------------------------------
(* What a step of slot h may do to a rule: remove one with its own mark,    *)
(* write a new one, or give that one its mark.                              *)
Changes(h, id) ==
  \/ rules'[id] = rules[id]
  \/ rules[id] = owner[h] /\ rules'[id] = "absent"
  \/ id \in Fresh /\ rules'[id] = "untagged" /\ cur'[h] = id /\ pc'[h] = "tag_rule"
  \/ id = cur[h] /\ rules[id] = "untagged" /\ rules'[id] = owner[h] /\ cur'[h] = Nobody

LEMMA OwnRules ==
  ASSUME TypeOK, NEW h \in Handle, Locals(h), Knows(h), Act(h), NEW id \in RuleId
  PROVE  Changes(h, id)
<1> USE DEF Changes, TypeOK
<1>1. CASE rules' = rules
  BY <1>1
<1>2. CASE RemoveListed(h)
  BY <1>2 DEF RemoveListed, Knows
<1>3. CASE RemoveTagged(h)
  BY <1>3 DEF RemoveTagged
<1>4. CASE CreateRule(h)
  BY <1>4 DEF CreateRule, Goto, Fresh
<1>5. CASE TagRule(h)
  BY <1>5 DEF TagRule, Knows, Locals
<1>6. CASE RollBack(h)
  BY <1>6 DEF RollBack, Knows, Locals
<1>7. CASE CloseRules(h)
  BY <1>7 DEF CloseRules, Knows
<1> QED BY <1>1, <1>2, <1>3, <1>4, <1>5, <1>6, <1>7
        DEF Act, Step, Apply, Close, Forget, Crash, registry, OpenState, ReadIds, ListRules,
            RemoveState, CreateState, SetIds, CloseState

(* No call of one owner removes or changes a rule of another, for any       *)
(* number of programs: Next allows no other step.                           *)
LEMMA OthersKeptStep ==
  ASSUME RulesInv, NEW h \in Handle, Step(h), NEW id \in RuleId,
         rules[id] \in Owner \ {owner[h]}
  PROVE  rules'[id] = rules[id]
BY OwnRules, NrptAssumption DEF RulesInv, Act, Changes, Fresh

(* Another slot's step leaves what a slot knows as it is. *)
LEMMA OthersKnow ==
  ASSUME OwnersOfTheirOwn, RulesInv, NEW h \in Handle, Act(h), NEW k \in Handle \ {h}
  PROVE  Knows(k)'
<1>1. /\ pc'[k] = pc[k] /\ owner'[k] = owner[k] /\ ids'[k] = ids[k]
      /\ cur'[k] = cur[k] /\ todo'[k] = todo[k]
  BY OwnStep DEF RulesInv
<1>2. TypeOK /\ Locals(k) /\ Knows(k) /\ Locals(h) /\ Knows(h) /\ Apart
  BY DEF RulesInv
<1>3. \A id \in RuleId : Changes(h, id)
  BY <1>2, OwnRules
<1>4. CASE pc[k] \in {"idle", "dead"}
  BY <1>1, <1>2, <1>4 DEF Knows, Locals, Leaving
<1>5. CASE pc[k] \notin {"idle", "dead"}
  <2>1. owner[k] \in Owner /\ owner[k] # owner[h]
    BY <1>2, <1>5, NrptAssumption DEF OwnersOfTheirOwn, Locals
  <2>2. \A id \in RuleId : rules[id] = owner[k] => rules'[id] = rules[id]
    BY <1>3, <2>1, NrptAssumption DEF Changes, Fresh
  <2>3. \A id \in ids[k] \cup todo[k] : rules[id] = "absent" => rules'[id] = "absent"
    BY <1>2, <1>3 DEF Changes, Fresh, TypeOK
  <2>4. cur[k] # Nobody => rules'[cur[k]] = "untagged"
    <3> SUFFICES ASSUME cur[k] # Nobody PROVE rules'[cur[k]] = "untagged"
      OBVIOUS
    <3>1. cur[k] \in RuleId /\ rules[cur[k]] = "untagged" /\ cur[k] # cur[h]
      BY <1>2 DEF Knows, TypeOK, Apart
    <3>2. owner[h] # "untagged"
      BY <1>2, NrptAssumption DEF Locals, TypeOK
    <3> QED BY <1>3, <3>1, <3>2 DEF Changes, Fresh
  <2>5. ids[k] \cup todo[k] \subseteq RuleId
    BY <1>2 DEF TypeOK
  <2>6. key(k) # key(h) \/ pc[h] \in {"idle", "dead"}
    BY <1>2, <2>1, NrptAssumption DEF OwnersOfTheirOwn, key, Locals
  <2>7. key(k) \in stateKeys => key(k)' \in stateKeys'
    <3>1. CASE key(k) # key(h)
      BY <1>1, <1>2, <2>1, <3>1, OwnStep, NrptAssumption DEF key
    <3>2. CASE pc[h] \in {"idle", "dead"}
      BY <1>1, <3>2
      DEF Act, Step, Apply, Close, Forget, Crash, InCall, Steps, registry, OpenState, ReadIds,
          ListRules, RemoveListed, RemoveTagged, CreateRule, TagRule, CreateState, SetIds,
          RollBack, CloseRules, CloseState, RemoveState, key
    <3> QED BY <2>6, <3>1, <3>2
  <2> QED BY <1>1, <1>2, <2>2, <2>3, <2>4, <2>5, <2>7 DEF Knows
<1> QED BY <1>4, <1>5

LEMMA ReturnKnows ==
  ASSUME TypeOK, NEW h \in Handle, NEW l \in {"idle", "dead"}, Return(h, l)
  PROVE  Knows(h)'
BY DEF TypeOK, Return, Goto, Knows, Leaving

LEMMA RollBackKnows ==
  ASSUME TypeOK, NEW h \in Handle, Knows(h), RollBackFrom(h), rules' = rules
  PROVE  Knows(h)'
<1>1. CASE ids[h] = {}
  BY <1>1, ReturnKnows DEF RollBackFrom
<1>2. CASE ids[h] # {}
  BY <1>2 DEF RollBackFrom, Loop, Goto, TypeOK, Knows, Leaving
<1> QED BY <1>1, <1>2

(* Every step of a slot keeps what the slot knows. *)
LEMMA OwnKnows ==
  ASSUME RulesInv, NEW h \in Handle, Act(h), Locals(h)'
  PROVE  Knows(h)'
<1>1. TypeOK /\ Locals(h) /\ Knows(h) /\ Lists
  BY DEF RulesInv
<1>2. pc[h] \notin {"idle", "dead"} => key(h) \in Key /\ owner[h] \in Owner
  BY <1>1, NrptAssumption DEF Locals, key
<1>3. CASE Apply(h)
  <2>1. ids'[h] = {} /\ pc'[h] = "open_state" /\ cur'[h] = Nobody
    BY <1>1, <1>3 DEF Apply, Goto, TypeOK, Locals
  <2> QED BY <2>1 DEF Knows, Leaving
<1>4. CASE OpenState(h)
  BY <1>1, <1>4 DEF OpenState, Goto, registry, TypeOK, Knows, Leaving, key
<1>5. CASE ReadIds(h)
  <2>1. \A id \in listed[key(h)] : rules[id] \in {owner[h], "absent"}
    BY <1>1, <1>2, <1>5 DEF ReadIds, Lists, key
  <2>2. UNCHANGED <<rules, owner, ids, cur>>
    BY <1>5 DEF ReadIds, registry
  <2>3. /\ pc'[h] \in {"remove_listed", "remove_state", "list_rules"}
        /\ pc'[h] = "remove_listed" => todo'[h] = listed[key(h)]
    BY <1>1, <1>5 DEF ReadIds, Loop, Goto, TypeOK
  <2> QED BY <1>1, <1>5, <2>1, <2>2, <2>3 DEF ReadIds, Knows, Leaving
<1>6. CASE ListRules(h)
  BY <1>1, <1>6 DEF ListRules, Loop, Goto, registry, TypeOK, Knows, Leaving, key
<1>7. CASE RemoveListed(h) \/ RemoveTagged(h)
  <2>1. /\ pc[h] \in {"remove_listed", "remove_tagged"} /\ ids[h] = {} /\ cur[h] = Nobody
        /\ UNCHANGED <<owner, ids, left, cur>>
    BY <1>1, <1>7 DEF RemoveListed, RemoveTagged, Locals, Cleaning
  <2>2. /\ pc'[h] \in {pc[h], "remove_state"}
        /\ todo'[h] \subseteq todo[h]
    BY <1>1, <1>7 DEF RemoveListed, RemoveTagged, Loop, Goto, TypeOK
  <2>3. pc[h] = "remove_listed" =>
          \A id \in todo[h] : rules'[id] \in {rules[id], "absent"}
    BY <1>1, <1>7 DEF RemoveListed, RemoveTagged, TypeOK
  <2> QED BY <1>1, <2>1, <2>2, <2>3 DEF Knows, Leaving
<1>8. CASE RemoveState(h)
  BY <1>1, <1>8 DEF RemoveState, Goto, TypeOK, Knows, Leaving
<1>9. CASE CreateRule(h)
  <2>1. CASE Return(h, "idle")
    BY <1>1, <2>1, ReturnKnows
  <2>2. CASE RollBackFrom(h) /\ UNCHANGED rules
    BY <1>1, <2>2, RollBackKnows
  <2>3. CASE /\ \E id \in Fresh : /\ rules' = [rules EXCEPT ![id] = "untagged"]
                                /\ cur' = [cur EXCEPT ![h] = id]
             /\ Goto(h, "tag_rule") /\ UNCHANGED <<owner, ids, left, todo>>
    <3>1. PICK id \in Fresh : /\ rules' = [rules EXCEPT ![id] = "untagged"]
                             /\ cur' = [cur EXCEPT ![h] = id]
      BY <2>3
    <3>2. id \in RuleId /\ id \notin ids[h] /\ pc'[h] = "tag_rule" /\ pc[h] = "create_rule"
      BY <1>1, <1>9, <2>3 DEF Fresh, Goto, TypeOK, CreateRule
    <3>3. cur'[h] = id /\ rules'[id] = "untagged"
          /\ \A i \in ids[h] : rules'[i] = rules[i]
      BY <1>1, <3>1, <3>2 DEF TypeOK
    <3> QED BY <1>1, <2>3, <3>2, <3>3 DEF Knows, Leaving
  <2> QED BY <1>9, <2>1, <2>2, <2>3 DEF CreateRule
<1>10. CASE TagRule(h)
  <2>1. pc[h] = "tag_rule" /\ cur[h] \in RuleId
    BY <1>1, <1>10 DEF TagRule, Locals, TypeOK
  <2>2. CASE RollBackFrom(h) /\ UNCHANGED rules
    BY <1>1, <2>2, RollBackKnows
  <2>3. CASE /\ rules' = [rules EXCEPT ![cur[h]] = owner[h]]
             /\ ids' = [ids EXCEPT ![h] = @ \cup {cur[h]}]
             /\ cur' = [cur EXCEPT ![h] = Nobody]
             /\ Goto(h, IF left[h] = 1 THEN "create_state" ELSE "create_rule")
             /\ UNCHANGED <<owner, todo>>
    <3>1. /\ pc'[h] \in {"create_state", "create_rule"} /\ cur'[h] = Nobody
          /\ ids'[h] = ids[h] \cup {cur[h]} /\ owner'[h] = owner[h]
      BY <1>1, <2>3 DEF Goto, TypeOK
    <3>2. \A i \in ids'[h] : rules'[i] = owner[h]
      BY <1>1, <2>1, <2>3, <3>1 DEF TypeOK, Knows, Leaving
    <3> QED BY <3>1, <3>2 DEF Knows, Leaving
  <2> QED BY <1>10, <2>2, <2>3 DEF TagRule
<1>11. CASE CreateState(h)
  <2>1. CASE RollBackFrom(h)
    BY <1>1, <1>11, <2>1, RollBackKnows DEF CreateState
  <2>2. CASE /\ stateKeys' = stateKeys \cup {key(h)}
             /\ Goto(h, "set_ids") /\ UNCHANGED <<owner, ids, left, cur, todo>>
    BY <1>1, <1>11, <2>2 DEF CreateState, Goto, TypeOK, Knows, Leaving, key
  <2> QED BY <1>11, <2>1, <2>2 DEF CreateState
<1>12. CASE SetIds(h)
  <2>1. CASE RollBackFrom(h)
    BY <1>1, <1>12, <2>1, RollBackKnows DEF SetIds
  <2>2. CASE /\ key(h) \in stateKeys
             /\ Goto(h, "live") /\ UNCHANGED <<owner, ids, left, cur, todo>>
    BY <1>1, <1>12, <2>2 DEF SetIds, Goto, TypeOK, Knows, Leaving, key
  <2> QED BY <1>12, <2>1, <2>2 DEF SetIds
<1>13. CASE RollBack(h)
  <2>1. CASE Return(h, "idle")
    BY <1>1, <2>1, ReturnKnows
  <2>2. CASE UNCHANGED <<pc, owner, ids, left, cur>>
    <3>1. pc[h] = "roll_back" /\ \A i \in RuleId : rules'[i] \in {rules[i], "absent"}
      BY <1>1, <1>13 DEF RollBack, TypeOK
    <3>2. cur[h] # Nobody => rules'[cur[h]] = "untagged"
      <4>1. \A i \in ids[h] : rules[i] # "untagged"
        BY <1>1, <3>1, NrptAssumption DEF Knows, TypeOK
      <4>2. cur[h] # Nobody => rules[cur[h]] = "untagged" /\ cur[h] \in RuleId
        BY <1>1 DEF Knows, TypeOK
      <4> QED BY <1>1, <1>13, <3>1, <4>1, <4>2 DEF RollBack, Locals, TypeOK
    <3>3. ids[h] \subseteq RuleId
      BY <1>1 DEF TypeOK
    <3> QED BY <1>1, <2>2, <3>1, <3>2, <3>3 DEF Knows, Leaving
  <2> QED BY <1>13, <2>1, <2>2 DEF RollBack
<1>14. CASE Close(h)
  BY <1>1, <1>14 DEF Close, Loop, Goto, registry, TypeOK, Knows, Locals, Leaving, key
<1>15. CASE CloseRules(h)
  <2>1. CASE Return(h, "idle")
    BY <1>1, <2>1, ReturnKnows
  <2>2. CASE \E id \in todo[h] : /\ rules' = [rules EXCEPT ![id] = "absent"]
                                /\ Loop(h, todo[h] \ {id}, "close_rules", "close_state")
                                /\ UNCHANGED <<owner, ids, left, cur>>
    <3>1. PICK id \in todo[h] : /\ rules' = [rules EXCEPT ![id] = "absent"]
                                /\ Loop(h, todo[h] \ {id}, "close_rules", "close_state")
                                /\ UNCHANGED <<owner, ids, left, cur>>
      BY <2>2
    <3>2. /\ pc'[h] \in {"close_rules", "close_state"} /\ todo'[h] = todo[h] \ {id}
          /\ pc[h] = "close_rules" /\ cur[h] = Nobody /\ stateKeys' = stateKeys
      BY <1>1, <1>15, <3>1 DEF CloseRules, Loop, Goto, TypeOK, Locals
    <3>3. /\ \A i \in ids[h] : rules'[i] \in {rules[i], "absent"}
          /\ \A i \in todo[h] \ {id} : rules'[i] = rules[i]
      BY <1>1, <3>1 DEF TypeOK
    <3> QED BY <1>1, <3>1, <3>2, <3>3 DEF Knows, Leaving, key
  <2> QED BY <1>15, <2>1, <2>2 DEF CloseRules
<1>16. CASE CloseState(h) \/ Forget(h) \/ Crash(h)
  BY <1>1, <1>16, ReturnKnows DEF CloseState, Forget, Crash
<1> QED BY <1>3, <1>4, <1>5, <1>6, <1>7, <1>8, <1>9, <1>10, <1>11, <1>12, <1>13, <1>14,
           <1>15, <1>16 DEF Act, Step

LEMMA ApartStep ==
  ASSUME RulesInv, NEW h \in Handle, Act(h)
  PROVE  Apart'
<1>1. TypeOK /\ Apart /\ \A k \in Handle : Knows(k)
  BY DEF RulesInv
<1>2. \A k \in Handle \ {h} : cur'[k] = cur[k]
  BY <1>1, OwnStep
<1>3. cur'[h] \in {cur[h], Nobody} \/ cur'[h] \in Fresh
  BY <1>1 DEF Act, Apply, Close, Forget, Crash, Step, OpenState, ReadIds, ListRules,
         RemoveListed, RemoveTagged, RemoveState, CreateRule, TagRule, CreateState, SetIds,
         RollBack, CloseRules, CloseState, RollBackFrom, Return, TypeOK
<1>4. CASE cur'[h] \in {cur[h], Nobody}
  BY <1>1, <1>2, <1>4 DEF Apart
<1>5. CASE cur'[h] \in Fresh
  <2>1. ASSUME NEW k \in Handle \ {h} PROVE cur[k] # cur'[h]
    <3>1. cur[k] # Nobody => rules[cur[k]] = "untagged"
      BY <1>1 DEF Knows
    <3>2. cur'[h] # Nobody /\ rules[cur'[h]] = "absent"
      BY <1>5, NrptAssumption DEF Fresh
    <3> QED BY <3>1, <3>2
  <2> QED BY <1>1, <1>2, <2>1 DEF Apart
<1> QED BY <1>3, <1>4, <1>5

(* What a step does to the list of its owner. *)
LEMMA OwnListStep ==
  ASSUME TypeOK, NEW h \in Handle, Locals(h), Act(h)
  PROVE  \/ UNCHANGED <<stateKeys, listed>>
         \/ listed' = listed /\ stateKeys' = stateKeys \cup {key(h)}
         \/ /\ stateKeys' = stateKeys \ {key(h)}
            /\ listed' = [listed EXCEPT ![key(h)] = {}]
            /\ pc[h] \in {"remove_state", "close_state"}
         \/ /\ pc[h] = "set_ids" /\ key(h) \in stateKeys /\ stateKeys' = stateKeys
            /\ listed' = [listed EXCEPT ![key(h)] = ids[h]]
BY DEF Act, Apply, Close, Forget, Crash, Step, OpenState, ReadIds, ListRules,
       RemoveListed, RemoveTagged, RemoveState, CreateRule, TagRule, CreateState, SetIds,
       RollBack, CloseRules, CloseState, registry

LEMMA ListsStep ==
  ASSUME OwnersOfTheirOwn, RulesInv, NEW h \in Handle, Act(h)
  PROVE  Lists'
<1>1. TypeOK /\ Locals(h) /\ Knows(h) /\ Lists
  BY DEF RulesInv
<1>2. \A id \in RuleId : Changes(h, id)
  BY <1>1, OwnRules
<1>3. \A o \in Owner : KeyOf[o] \in Key
  BY NrptAssumption
<1>4. pc[h] \in {"remove_state", "close_state", "set_ids"} => key(h) \in Key /\ owner[h] \in Owner
  BY <1>1, NrptAssumption DEF Locals, key
<1>5. ASSUME NEW o \in Owner, NEW id \in listed'[KeyOf[o]] PROVE rules'[id] \in {o, "absent"}
  <2>1. CASE id \in listed[KeyOf[o]]
    <3>1. id \in RuleId /\ rules[id] \in {o, "absent"}
      BY <1>1, <1>3, <2>1 DEF TypeOK, Lists
    <3>2. id \notin Fresh /\ rules[id] # "untagged"
      BY <1>3, <2>1, <3>1, NrptAssumption DEF Fresh
    <3> QED BY <1>2, <3>1, <3>2 DEF Changes
  <2>2. CASE id \notin listed[KeyOf[o]]
    <3>1. /\ pc[h] = "set_ids" /\ KeyOf[o] = key(h) /\ id \in ids[h]
      BY <1>1, <1>3, <1>4, <1>5, <2>2, OwnListStep DEF TypeOK
    <3>2. o = owner[h] /\ rules' = rules
      BY <1>4, <3>1 DEF OwnersOfTheirOwn, key, Act, Step, Apply, Close, Forget, Crash, InCall,
           Steps, registry, OpenState, ReadIds, ListRules, RemoveListed, RemoveTagged, CreateRule,
           TagRule, CreateState, SetIds, RollBack, CloseRules, CloseState, RemoveState
    <3> QED BY <1>1, <3>1, <3>2 DEF Knows
  <2> QED BY <2>1, <2>2
<1>6. ASSUME NEW k \in Key, listed'[k] # {}
      PROVE  k \in stateKeys' /\ \E o \in Owner : k = KeyOf[o]
  <2>1. listed[k] # {} => k \in stateKeys /\ \E o \in Owner : k = KeyOf[o]
    BY <1>1 DEF Lists
  <2>2. CASE k = key(h) /\ pc[h] \in {"remove_state", "close_state", "set_ids"}
    BY <1>1, <1>4, <1>6, <2>1, <2>2, OwnListStep DEF TypeOK, key
  <2>3. CASE ~(k = key(h) /\ pc[h] \in {"remove_state", "close_state", "set_ids"})
    BY <1>1, <1>4, <1>6, <2>1, <2>3, OwnListStep DEF TypeOK
  <2> QED BY <2>2, <2>3
<1> QED BY <1>5, <1>6 DEF Lists

LEMMA RulesInit == Init => RulesInv
<1> SUFFICES ASSUME Init PROVE RulesInv
  OBVIOUS
<1>1. TypeOK /\ \A h \in Handle : Locals(h)
  BY TypeInit
<1>2. \A k \in Key : listed[k] = {}
  BY DEF Init
<1>3. Lists
  BY <1>2, NrptAssumption DEF Lists
<1>4. \A h \in Handle : Knows(h)
  BY DEF Init, Knows
<1>5. Apart
  BY DEF Init, Apart
<1> QED BY <1>1, <1>3, <1>4, <1>5 DEF RulesInv

LEMMA RulesStep ==
  ASSUME OwnersOfTheirOwn, RulesInv, [Next]_vars
  PROVE  RulesInv'
<1>1. TypeOK' /\ \A h \in Handle : Locals(h)'
  BY TypeStep DEF RulesInv
<1>2. ASSUME NEW h \in Handle, Act(h) PROVE RulesInv'
  <2>1. \A k \in Handle \ {h} : Knows(k)'
    BY <1>2, OthersKnow
  <2>2. Knows(h)'
    BY <1>1, <1>2, OwnKnows
  <2>3. Apart' /\ Lists'
    BY <1>2, ApartStep, ListsStep
  <2> QED BY <1>1, <2>1, <2>2, <2>3 DEF RulesInv
<1>3. CASE UNCHANGED vars
  BY <1>3 DEF vars, RulesInv, TypeOK, Locals, Knows, Apart, Lists, key
<1> QED BY <1>2, <1>3 DEF Next, Act

(* Rules, lists and marks belong together: what a slot answers for carries  *)
(* its mark, and so does what stands on its owner's list.                   *)
LEMMA RulesKept == ASSUME OwnersOfTheirOwn PROVE Spec => []RulesInv
BY RulesInit, RulesStep, PTL DEF Spec

(* No call of one owner removes or changes a rule of another, whatever      *)
(* fails and whoever dies in between: what a list names for removal has     *)
(* never been given to anybody else.                                        *)
THEOREM NrptOthersRulesKept == ASSUME OwnersOfTheirOwn PROVE Spec => OthersRulesKept
<1>1. RulesInv /\ [Next]_vars =>
        [\A h \in Handle : Step(h) =>
           \A id \in RuleId :
             rules[id] \in Owner \ {owner[h]} => rules'[id] = rules[id]]_vars
  BY OthersKeptStep
<1> QED BY <1>1, RulesKept, PTL DEF Spec, OthersRulesKept

(* A close that returns has removed the list last, unless the registry      *)
(* failed: none of its rules was gone, whatever other owners' calls did.    *)
THEOREM NrptCloseSucceeds == ASSUME OwnersOfTheirOwn PROVE Spec => CloseSucceeds
<1>1. ASSUME RulesInv, [Next]_vars, NEW h \in Handle,
             Closing(h), pc'[h] = "idle", "close" \notin happened'
      PROVE  pc[h] = "close_state" /\ key(h) \in stateKeys
  <2>1. TypeOK /\ Locals(h) /\ Knows(h)
    BY <1>1 DEF RulesInv
  <2>2. PICK k \in Handle : Act(k)
    BY <1>1, <2>1 DEF Next, Act, Closing, vars
  <2>3. k = h
    BY <1>1, <2>1, <2>2, OwnStep DEF Closing
  <2>4. pc[h] = "close_rules" => \A id \in todo[h] : rules[id] # "absent"
    BY <2>1, NrptAssumption DEF Knows, Locals, TypeOK
  <2>5. pc[h] # "close_rules"
    BY <1>1, <2>1, <2>2, <2>3, <2>4
    DEF Act, Step, Apply, Close, Forget, Crash, Happens, CloseRules, CloseFailsIf, Loop, Goto,
        OpenState, ReadIds, ListRules, RemoveListed, RemoveTagged, CreateRule, TagRule,
        CreateState, SetIds, RollBack, CloseState, RemoveState, Return, TypeOK
  <2> QED BY <1>1, <2>1, <2>5 DEF Closing, Knows
<1>2. RulesInv /\ [Next]_vars =>
        [\A h \in Handle :
           Closing(h) /\ pc'[h] = "idle" /\ "close" \notin happened' =>
             pc[h] = "close_state" /\ key(h) \in stateKeys]_vars
  BY <1>1
<1> QED BY <1>2, RulesKept, PTL DEF Spec, CloseSucceeds

-----------------------------------------------------------------------------
(* A step in which nothing goes wrong but what leaves the list in place.    *)
LEMMA QuietStep ==
  ASSUME TypeOK, NEW h \in Handle, Act(h), Quiet'
  PROVE  /\ Quiet /\ ~Err /\ (Crash(h) => ~Unlisted(h))
         /\ happened \subseteq happened'
         /\ Forget(h) \/ Crash(h) \/ happened' # happened => happened' \cap {"forget", "close"} # {}
BY DEF Quiet, Act, Apply, Close, Forget, Crash, Step, OpenState, ReadIds, ListRules,
       RemoveListed, RemoveTagged, RemoveState, CreateRule, TagRule, CreateState, SetIds,
       RollBack, CloseRules, CloseState, Ok, Err, FailsIf, CloseFailsIf, Happens

(* Every step of a slot keeps its list in order. *)
LEMMA OwnListKept ==
  ASSUME RulesInv, NEW h \in Handle, OwnList(h), Act(h), ~Err, Locals(h)'
  PROVE  OwnList(h)'
<1>1. TypeOK /\ Locals(h) /\ Knows(h) /\ Lists
  BY DEF RulesInv
<1>2. pc[h] \notin {"idle", "dead"} => key(h) \in Key /\ owner[h] \in Owner
  BY <1>1, NrptAssumption DEF Locals, key
<1>3. pc'[h] \in {"idle", "dead"} => OwnList(h)'
  BY DEF OwnList, Writing
<1>4. pc[h] # "roll_back"
  BY DEF OwnList
<1>5. CASE Apply(h)
  BY <1>1, <1>5 DEF Apply, Goto, TypeOK, OwnList, Writing
<1>6. CASE OpenState(h)
  <2>1. UNCHANGED <<listed, owner, todo, rules>> /\ pc'[h] \in {"read_ids", "create_rule"}
        /\ (pc'[h] = "create_rule" => key(h) \notin stateKeys) /\ pc[h] = "open_state"
    BY <1>1, <1>6 DEF OpenState, FailsIf, Goto, registry, TypeOK
  <2>2. key(h) \notin stateKeys => listed[key(h)] = {}
    BY <1>1, <1>2, <2>1 DEF Lists
  <2> QED BY <2>1, <2>2 DEF OwnList, Writing, key
<1>7. CASE ReadIds(h)
  <2>1. /\ UNCHANGED <<listed, owner, rules>>
        /\ \/ pc'[h] = "remove_listed" /\ todo'[h] = listed[key(h)]
           \/ pc'[h] = "list_rules" /\ listed[key(h)] = {}
    BY <1>1, <1>7 DEF ReadIds, FailsIf, Loop, Goto, registry, TypeOK
  <2> QED BY <2>1 DEF OwnList, Writing, key
<1>8. CASE RemoveListed(h)
  <2>1. PICK id \in todo[h] : /\ rules' = [rules EXCEPT ![id] = "absent"]
                              /\ Loop(h, todo[h] \ {id}, "remove_listed", "remove_state")
    BY <1>8 DEF RemoveListed
  <2>2. /\ pc[h] = "remove_listed" /\ UNCHANGED <<listed, owner>>
        /\ \/ pc'[h] = "remove_listed" /\ todo'[h] = todo[h] \ {id}
           \/ pc'[h] = "remove_state" /\ todo[h] \ {id} = {}
    BY <1>1, <1>8, <2>1 DEF RemoveListed, Loop, Goto, TypeOK
  <2>3. \A i \in listed[key(h)] \ (todo[h] \ {id}) : rules'[i] = "absent"
    BY <1>1, <1>2, <2>1, <2>2 DEF OwnList, TypeOK
  <2> QED BY <2>2, <2>3 DEF OwnList, Writing, key
<1>9. CASE ListRules(h) \/ RemoveTagged(h)
  <2>1. /\ UNCHANGED <<listed, owner>> /\ listed[key(h)] = {}
        /\ pc'[h] \in {"remove_tagged", "remove_state"}
    BY <1>1, <1>9
    DEF ListRules, RemoveTagged, registry, OwnList, Loop, Goto, TypeOK
  <2> QED BY <2>1 DEF OwnList, Writing, key
<1>10. CASE RemoveState(h)
  <2>1. /\ pc'[h] = "create_rule" /\ owner' = owner /\ listed'[key(h)] = {}
    BY <1>1, <1>2, <1>10 DEF RemoveState, Goto, TypeOK
  <2> QED BY <2>1 DEF OwnList, Writing, key
<1>11. CASE CreateRule(h) \/ TagRule(h) \/ CreateState(h)
  <2>1. /\ pc[h] \in Writing /\ UNCHANGED <<listed, owner>>
        /\ pc'[h] \in Writing
    BY <1>1, <1>11 DEF CreateRule, TagRule, CreateState, Goto, TypeOK, Writing
  <2> QED BY <2>1 DEF OwnList, Writing, key
<1>12. CASE SetIds(h)
  <2>1. key(h) \in stateKeys
    BY <1>1, <1>12 DEF SetIds, Knows
  <2>2. pc'[h] = "live" /\ UNCHANGED <<owner, ids>> /\ listed'[key(h)] = ids[h]
    BY <1>1, <1>2, <1>12, <2>1 DEF SetIds, FailsIf, Goto, TypeOK
  <2> QED BY <2>2 DEF OwnList, Writing, key
<1>13. CASE RollBack(h)
  BY <1>4, <1>13 DEF RollBack
<1>14. CASE Close(h)
  <2>1. /\ pc[h] = "live" /\ UNCHANGED <<listed, owner, ids, rules>>
        /\ \/ pc'[h] = "close_rules" /\ todo'[h] = ids[h]
           \/ pc'[h] = "close_state" /\ ids[h] = {}
    BY <1>1, <1>14 DEF Close, Loop, Goto, registry, TypeOK
  <2> QED BY <2>1 DEF OwnList, Writing, key
<1>15. CASE CloseRules(h)
  <2>1. SUFFICES ASSUME pc'[h] # "idle" PROVE OwnList(h)'
    BY <1>3
  <2>2. PICK id \in todo[h] : /\ rules' = [rules EXCEPT ![id] = "absent"]
                              /\ Loop(h, todo[h] \ {id}, "close_rules", "close_state")
                              /\ UNCHANGED <<owner, ids>>
    BY <1>1, <1>15, <2>1 DEF CloseRules, Return, Goto, TypeOK
  <2>3. /\ pc[h] = "close_rules" /\ UNCHANGED listed
        /\ \/ pc'[h] = "close_rules" /\ todo'[h] = todo[h] \ {id}
           \/ pc'[h] = "close_state" /\ todo[h] \ {id} = {}
    BY <1>1, <1>15, <2>2 DEF CloseRules, Loop, Goto, TypeOK
  <2>4. \A i \in listed[key(h)] \ (todo[h] \ {id}) : rules'[i] = "absent"
    BY <1>1, <1>2, <2>2, <2>3 DEF OwnList, TypeOK
  <2> QED BY <2>2, <2>3, <2>4 DEF OwnList, Writing, key
<1>16. CASE CloseState(h) \/ Forget(h) \/ Crash(h)
  BY <1>1, <1>3, <1>16 DEF CloseState, Forget, Crash, Return, Goto, TypeOK
<1> QED BY <1>5, <1>6, <1>7, <1>8, <1>9, <1>10, <1>11, <1>12, <1>13, <1>14, <1>15, <1>16
        DEF Act, Step

(* Another slot's step leaves a slot's list, and what is absent of it.      *)
LEMMA OthersLists ==
  ASSUME OwnersOfTheirOwn, RulesInv, NEW h \in Handle, Act(h), NEW k \in Handle \ {h},
         OwnList(k)
  PROVE  OwnList(k)'
<1>1. TypeOK /\ Locals(k) /\ Locals(h) /\ Knows(h)
  BY DEF RulesInv
<1>2. /\ pc'[k] = pc[k] /\ owner'[k] = owner[k] /\ ids'[k] = ids[k] /\ todo'[k] = todo[k]
  BY <1>1, OwnStep
<1>3. CASE pc[k] \in {"idle", "dead"}
  BY <1>2, <1>3 DEF OwnList, Writing
<1>4. CASE pc[k] \notin {"idle", "dead"}
  <2>1. owner[k] \in Owner /\ key(k) \in Key
    BY <1>1, <1>4, NrptAssumption DEF Locals, key
  <2>2. CASE pc[h] \in {"idle", "dead"}
    <3>1. listed' = listed
      BY <1>1, <2>2, OwnListStep
    <3>2. rules' = rules
      BY <2>2 DEF Act, Step, Apply, Close, Forget, Crash, InCall, Steps, registry, OpenState,
         ReadIds, ListRules, RemoveListed, RemoveTagged, CreateRule, TagRule, CreateState,
         SetIds, RollBack, CloseRules, CloseState, RemoveState
    <3> QED BY <1>2, <3>1, <3>2 DEF OwnList, key
  <2>3. CASE pc[h] \notin {"idle", "dead"}
    <3>1. key(k) # key(h)
      BY <1>1, <1>4, <2>3, NrptAssumption DEF OwnersOfTheirOwn, Locals, key
    <3>2. listed'[key(k)] = listed[key(k)]
      BY <1>1, <2>1, <3>1, OwnStep
    <3>3. \A id \in listed[key(k)] : rules[id] = "absent" => rules'[id] = "absent"
      <4> SUFFICES ASSUME NEW id \in listed[key(k)], rules[id] = "absent"
                   PROVE  rules'[id] = "absent"
        OBVIOUS
      <4>1. id \in RuleId /\ id \notin Fresh
        BY <1>1, <2>1 DEF TypeOK, Fresh
      <4> QED BY <1>1, <4>1, OwnRules DEF Changes
    <3> QED BY <1>2, <3>2, <3>3 DEF OwnList, key
  <2> QED BY <2>2, <2>3
<1> QED BY <1>3, <1>4

(* What a slot answers for it goes on answering for, unless it has removed  *)
(* it, or it is on the list that a forgotten handle, a crash or an error of *)
(* close leaves.                                                            *)
LEMMA ClaimsKept ==
  ASSUME RulesInv, NEW h \in Handle, OwnList(h), Act(h), ~Err, Crash(h) => ~Unlisted(h),
         NEW id \in RuleId, id \in ids[h] \cup {cur[h]}
  PROVE  \/ id \in ids'[h] \cup {cur'[h]}
         \/ CloseState(h) /\ rules'[id] = "absent"
         \/ /\ Forget(h) \/ Crash(h) \/ Happens("close")
            /\ pc[h] \notin {"idle", "dead"} /\ id \in listed[key(h)] /\ listed' = listed
<1>1. TypeOK /\ Locals(h) /\ Knows(h) /\ id # Nobody /\ owner[h] \in Owner \cup {Nobody}
  BY NrptAssumption DEF RulesInv, TypeOK
<1>2. CASE UNCHANGED <<ids, cur>>
  BY <1>2
<1>3. CASE CreateRule(h)
  BY <1>1, <1>3 DEF CreateRule, Locals
<1>4. CASE TagRule(h)
  BY <1>1, <1>4 DEF TagRule, TypeOK
<1>5. CASE CreateState(h) \/ SetIds(h)
  BY <1>2, <1>1, <1>5 DEF CreateState, SetIds, FailsIf, Knows
<1>6. CASE RollBack(h)
  BY <1>6 DEF RollBack, OwnList
<1>7. CASE CloseRules(h)
  <2>1. \A i \in todo[h] : rules[i] # "absent"
    BY <1>1, <1>7, NrptAssumption DEF CloseRules, Knows, Locals
  <2>2. id \in listed[key(h)]
    BY <1>1, <1>7 DEF CloseRules, OwnList, Locals
  <2> QED BY <1>2, <1>7, <2>1, <2>2 DEF CloseRules, CloseFailsIf
<1>8. CASE CloseState(h)
  BY <1>1, <1>8 DEF CloseState, OwnList, Locals
<1>9. CASE Forget(h) \/ Crash(h)
  <2>1. pc[h] \in Cleaning \cup {"live", "close_rules", "close_state"}
    BY <1>9 DEF Forget, Crash, Unlisted, InCall, Steps, Cleaning
  <2>2. pc[h] \notin Cleaning
    BY <1>1 DEF Locals, Cleaning
  <2> QED BY <1>1, <1>9, <2>1, <2>2 DEF Forget, Crash, OwnList, Locals, registry
<1> QED BY <1>2, <1>3, <1>4, <1>5, <1>6, <1>7, <1>8, <1>9
        DEF Act, Step, Apply, Close, OpenState, ReadIds, ListRules, RemoveListed, RemoveTagged,
            RemoveState, registry

LEMMA ExplainedStep ==
  ASSUME OwnersOfTheirOwn, RulesInv, Explained, NEW h \in Handle, OwnList(h), Act(h),
         Quiet'
  PROVE  Explained'
<1>1. TypeOK /\ Locals(h) /\ Knows(h) /\ Lists /\ ~Err /\ (Crash(h) => ~Unlisted(h))
  BY QuietStep DEF RulesInv
<1>2. /\ happened \subseteq happened'
      /\ Forget(h) \/ Crash(h) \/ Happens("close") => happened' \cap {"forget", "close"} # {}
  BY <1>1, QuietStep DEF Happens
<1>3. SUFFICES ASSUME NEW id \in RuleId, Unclaimed(id)'
               PROVE  /\ happened' \cap {"forget", "close"} # {}
                      /\ \E k \in Key : id \in listed'[k]
  BY DEF Explained
<1>4. rules'[id] # "absent" /\ \A k \in Handle : id \notin ids'[k] \cup {cur'[k]}
  BY <1>3 DEF Unclaimed
<1>5. rules[id] # "absent"
  BY <1>1, <1>4, OwnRules DEF Changes
<1>6. \A k \in Handle \ {h} : id \notin ids[k] \cup {cur[k]}
  BY <1>1, <1>4, OwnStep
<1>7. CASE id \in ids[h] \cup {cur[h]}
  <2>1. /\ Forget(h) \/ Crash(h) \/ Happens("close")
        /\ pc[h] \notin {"idle", "dead"} /\ id \in listed[key(h)] /\ listed' = listed
    BY <1>1, <1>4, <1>7, ClaimsKept
  <2>2. key(h) \in Key
    BY <1>1, <2>1, NrptAssumption DEF Locals, key
  <2> QED BY <1>2, <2>1, <2>2
<1>8. CASE id \notin ids[h] \cup {cur[h]}
  <2>1. happened \cap {"forget", "close"} # {} /\ \E k \in Key : id \in listed[k]
    BY <1>5, <1>6, <1>8 DEF Explained, Unclaimed
  <2>2. PICK k \in Key : id \in listed[k]
    BY <2>1
  <2>3. CASE k # key(h) \/ listed' = listed
    BY <1>1, <1>2, <2>1, <2>2, <2>3, OwnStep
  <2>4. CASE k = key(h) /\ pc[h] \in {"remove_state", "close_state"}
    <3>1. rules[id] = "absent"
      BY <2>2, <2>4 DEF OwnList
    <3> QED BY <1>5, <3>1
  <2>5. CASE k = key(h) /\ pc[h] = "set_ids"
    BY <2>2, <2>5 DEF OwnList, Writing
  <2> QED BY <1>1, <2>3, <2>4, <2>5, OwnListStep
<1> QED BY <1>7, <1>8

LEMMA TidyInit == Init => TidyInv
<1> SUFFICES ASSUME Init PROVE Explained /\ \A h \in Handle : OwnList(h)
  BY DEF TidyInv
<1>1. Explained
  BY DEF Init, Explained, Unclaimed
<1>2. \A h \in Handle : OwnList(h)
  BY DEF Init, OwnList, Writing
<1> QED BY <1>1, <1>2

LEMMA TidyStep ==
  ASSUME OwnersOfTheirOwn, RulesInv, TidyInv, [Next]_vars
  PROVE  TidyInv'
<1>1. TypeOK' /\ \A h \in Handle : Locals(h)'
  BY TypeStep DEF RulesInv
<1>2. ASSUME NEW h \in Handle, Act(h), Quiet' PROVE Explained' /\ \A k \in Handle : OwnList(k)'
  <2>1. /\ Explained /\ ~Err
        /\ \A k \in Handle : OwnList(k)
    BY <1>2, QuietStep DEF TidyInv, RulesInv
  <2>2. \A k \in Handle \ {h} : OwnList(k)'
    BY <1>2, <2>1, OthersLists
  <2>3. OwnList(h)'
    BY <1>1, <1>2, <2>1, OwnListKept
  <2>4. Explained'
    BY <1>2, <2>1, ExplainedStep
  <2> QED BY <2>2, <2>3, <2>4
<1>3. CASE UNCHANGED vars
  BY <1>3 DEF vars, TidyInv, Quiet, Explained, Unclaimed, OwnList, key
<1> QED BY <1>2, <1>3 DEF Next, Act, TidyInv

LEMMA TidyKept == ASSUME OwnersOfTheirOwn PROVE Spec => [](RulesInv /\ TidyInv)
<1>1. Init => RulesInv /\ TidyInv
  BY RulesInit, TidyInit
<1>2. (RulesInv /\ TidyInv) /\ [Next]_vars => (RulesInv /\ TidyInv)'
  BY RulesStep, TidyStep
<1> QED BY <1>1, <1>2, PTL DEF Spec

(* A rule nobody answers for stands on a list for the next run, unless the  *)
(* registry has failed in an apply or a process has died between its first  *)
(* rule and its list; and what a list names carries the mark of no other    *)
(* owner.                                                                   *)
THEOREM NrptLeftRulesExplained == ASSUME OwnersOfTheirOwn PROVE Spec => []LeftRulesExplained
<1>1. ASSUME RulesInv, TidyInv PROVE LeftRulesExplained
  <2>1. ASSUME NEW id \in RuleId, Unclaimed(id)
        PROVE  \/ happened \cap {"forget", "close"} # {} /\ \E k \in Key : id \in listed[k]
               \/ happened \cap {"io", "crash"} # {}
    BY <1>1, <2>1 DEF TidyInv, Quiet, Explained
  <2>2. ASSUME NEW o \in Owner, NEW p \in Owner, NEW id \in listed[KeyOf[o]], rules[id] = p
        PROVE  p = o
    BY <1>1, <2>2, NrptAssumption DEF RulesInv, Lists
  <2> QED BY <2>1, <2>2 DEF LeftRulesExplained
<1> QED BY <1>1, TidyKept, PTL

(* An apply that succeeds leaves no rule of its owner but its own, when the *)
(* registry has not failed in an apply and no process has died with rules   *)
(* on no list: all that earlier runs of the owner left was on its list, and *)
(* has been removed.                                                        *)
THEOREM NrptForgottenRulesRemoved ==
  ASSUME OwnersOfTheirOwn PROVE Spec => ForgottenRulesRemoved
<1>1. ASSUME RulesInv, TidyInv, [Next]_vars, NEW h \in Handle,
             Returns(h), happened \subseteq {"forget", "close"}
      PROVE  OnlyItsOwn(h)
  <2>1. TypeOK /\ Locals(h) /\ Knows(h) /\ Lists /\ pc[h] = "set_ids" /\ pc'[h] = "live"
    BY <1>1 DEF RulesInv, Returns
  <2>2. PICK k \in Handle : Act(k)
    BY <1>1, <2>1 DEF Next, Act, vars
  <2>3. k = h
    BY <2>1, <2>2, OwnStep
  <2>4. SetIds(h)
    BY <2>1, <2>2, <2>3
    DEF Act, Step, Apply, Close, Forget, Crash, Return, Goto, TypeOK, OpenState, ReadIds,
        ListRules, RemoveListed, RemoveTagged, RemoveState, CreateRule, TagRule, CreateState,
        RollBack, CloseRules, CloseState
  <2>5. rules' = rules /\ UNCHANGED <<ids, cur>>
    BY <2>1, <2>4 DEF SetIds, RollBackFrom, Return, Loop, Goto, TypeOK
  <2>6. Explained /\ OwnList(h)
    BY <1>1 DEF TidyInv, Quiet
  <2>7. SUFFICES ASSUME NEW id \in RuleId, rules[id] = owner[h], id \notin ids[h] PROVE FALSE
    BY <2>5 DEF OnlyItsOwn
  <2>8. owner[h] \in Owner /\ key(h) \in Key
    BY <2>1, NrptAssumption DEF Locals, key
  <2>9. ASSUME NEW j \in Handle \ {h} PROVE id \notin ids[j] \cup {cur[j]}
    <3>1. Locals(j) /\ Knows(j) /\ owner[j] \in Owner \cup {Nobody}
      BY <1>1 DEF RulesInv, TypeOK
    <3>2. id \in ids[j] => owner[j] = owner[h]
      BY <2>7, <2>8, <3>1, NrptAssumption DEF Knows
    <3>3. owner[j] # owner[h]
      BY <2>1, <2>8, <3>1, NrptAssumption DEF OwnersOfTheirOwn, Locals
    <3>4. id # cur[j]
      BY <2>7, <2>8, <3>1, NrptAssumption DEF Knows
    <3> QED BY <3>2, <3>3, <3>4
  <2>10. id # cur[h]
    BY <2>1, NrptAssumption DEF Locals
  <2>11. Unclaimed(id)
    BY <2>7, <2>8, <2>9, <2>10, NrptAssumption DEF Unclaimed
  <2>12. PICK c \in Key : id \in listed[c]
    BY <2>6, <2>11 DEF Explained
  <2>13. PICK o \in Owner : c = KeyOf[o]
    BY <2>1, <2>12 DEF Lists
  <2>14. o = owner[h]
    BY <2>1, <2>7, <2>8, <2>12, <2>13, NrptAssumption DEF Lists
  <2> QED BY <2>1, <2>6, <2>12, <2>13, <2>14 DEF OwnList, Writing, key
<1>2. RulesInv /\ TidyInv /\ [Next]_vars =>
        [\A h \in Handle : Returns(h) /\ happened \subseteq {"forget", "close"} => OnlyItsOwn(h)]_vars
  BY <1>1
<1> QED BY <1>2, TidyKept, PTL DEF Spec, ForgottenRulesRemoved
=============================================================================
