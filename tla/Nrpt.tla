-------------------------------- MODULE Nrpt --------------------------------
(***************************************************************************)
(* The DNS Client NRPT rules of the Windows backend                        *)
(* (src/platform/windows/nrpt.rs): the rules a handle writes below         *)
(* NRPT_BASE, the list of them it keeps below STATE_BASE for the next run, *)
(* and the cleanup by which an apply removes what an earlier run of the    *)
(* same owner left.  One action per registry call.                         *)
(*                                                                         *)
(* The order in which a loop visits the rules of a list is left open.      *)
(***************************************************************************)
EXTENDS Naturals, FiniteSets, Functions

CONSTANTS
  Handle,       \* slots for SetDns values
  Owner,        \* owner marks
  RuleId,       \* GUIDs; one that is used nowhere stands for a new one
  Key,          \* subkeys of STATE_BASE
  KeyOf,        \* KeyOf[o]: the subkey that the name o opens
  OwnersOf,     \* OwnersOf[h]: the marks the program using slot h may pass
  Chunks,       \* how many rules a configuration may need
  Mishaps,      \* which of "io" (the registry fails in apply), "close" (it
                \* fails in close), "crash" (the process dies with rules on
                \* no list) and "forget" (it dies, or forgets its handle, with
                \* its rules on the list) may happen
  Nobody        \* no owner, no rule

ASSUME NrptAssumption ==
  /\ KeyOf \in [Owner -> Key]
  /\ OwnersOf \in [Handle -> SUBSET Owner]
  /\ Chunks \subseteq Nat \ {0}
  /\ Mishaps \subseteq {"io", "close", "crash", "forget"}
  /\ Nobody \notin Owner \cup RuleId
  /\ (Owner \cup {Nobody}) \cap {"absent", "untagged"} = {}

VARIABLES
  rules,      \* rules[id]: "absent", "untagged" or the owner it is tagged with
  stateKeys,  \* the subkeys of STATE_BASE that exist
  listed,     \* listed[k]: RuleIds of subkey k, {} when there is no such value
  pc,         \* pc[h]: the next registry call of the call running in slot h
  owner,      \* owner[h]: the mark of slot h
  ids,        \* ids[h]: rule_ids, the rules the slot has written
  left,       \* left[h]: how many chunks it has still to write
  cur,        \* cur[h]: the rule being written
  todo,       \* todo[h]: what is left of the list a loop goes through
  happened    \* history: which mishaps there were so far

registry == <<rules, stateKeys, listed>>
vars     == <<rules, stateKeys, listed, pc, owner, ids, left, cur, todo, happened>>

Steps == {"open_state", "read_ids", "list_rules", "remove_tagged", "remove_listed",
          "remove_state", "create_rule", "tag_rule", "create_state", "set_ids",
          "roll_back", "close_rules", "close_state"}
Rest  == {"idle", "live", "dead"}

-----------------------------------------------------------------------------
InCall(h) == pc[h] \in Steps

Closing(h) == pc[h] \in {"close_rules", "close_state"}

(* The rules of apply stand on no list yet. *)
Unlisted(h) == pc[h] \in {"create_rule", "tag_rule", "create_state", "set_ids", "roll_back"}

Happens(m) == m \in Mishaps /\ happened' = happened \cup {m}

(* The registry call succeeds or fails. *)
Ok  == UNCHANGED happened
Err == Happens("io")

(* It finds c to be the case, or fails, which is handled alike. *)
FailsIf(c)      == (c /\ Ok) \/ Err
CloseFailsIf(c) == (c /\ Ok) \/ Happens("close")

key(h) == KeyOf[owner[h]]

Goto(h, l) == pc' = [pc EXCEPT ![h] = l]

(* The call returns and leaves the slot without a handle. *)
Return(h, l) ==
  /\ Goto(h, l)
  /\ owner' = [owner EXCEPT ![h] = Nobody]
  /\ ids' = [ids EXCEPT ![h] = {}]
  /\ left' = [left EXCEPT ![h] = 0]
  /\ cur' = [cur EXCEPT ![h] = Nobody]
  /\ todo' = [todo EXCEPT ![h] = {}]

(* Start of a loop over the set s, ended by going on to l. *)
Loop(h, s, body, l) ==
  /\ todo' = [todo EXCEPT ![h] = s]
  /\ Goto(h, IF s = {} THEN l ELSE body)

(* remove_rules(&rule_ids), then the error is returned. *)
RollBackFrom(h) ==
  IF ids[h] = {}
    THEN Return(h, "idle")
    ELSE /\ Loop(h, ids[h], "roll_back", "idle")
         /\ UNCHANGED <<owner, ids, left, cur>>

(* CoCreateGuid returns an identifier that is in use nowhere. *)
Fresh ==
  {id \in RuleId : /\ rules[id] = "absent"
                   /\ \A k \in Key : id \notin listed[k]
                   /\ \A h \in Handle : id \notin ids[h] \cup todo[h]}

(* A bound on the identifiers in use: an apply that needs n rules is called *)
(* only if RuleId has enough fresh ones for it and the calls running.       *)
Room(n) == n + FoldFunction(+, 0, left) <= Cardinality(Fresh)

(* Nothing is left in force but with room for the apply that follows.       *)
Spare == \A n \in Chunks : Room(n)

-----------------------------------------------------------------------------
(* Slips the properties below must notice, one for each action they vary.   *)

(* One chunk too few. *)
ApplyOffByOne(h) ==
  /\ pc[h] \in {"idle", "dead"}
  /\ \E o \in OwnersOf[h] : owner' = [owner EXCEPT ![h] = o]
  /\ \E n \in Chunks : Room(n) /\ left' = [left EXCEPT ![h] = n - 1]
  /\ Goto(h, "open_state")
  /\ UNCHANGED <<registry, ids, cur, todo, happened>>

(* What an earlier run left is not cleaned up. *)
OpenStateSkipped(h) ==
  /\ pc[h] = "open_state" /\ Goto(h, "create_rule")
  /\ UNCHANGED <<registry, owner, ids, left, cur, todo, happened>>

(* Rules are removed whatever their tag. *)
RemoveTaggedOfAnyOwner(h) ==
  /\ pc[h] = "remove_tagged"
  /\ \E id \in todo[h] :
       /\ rules' = [rules EXCEPT ![id] = "absent"]
       /\ Loop(h, todo[h] \ {id}, "remove_tagged", "remove_state")
  /\ UNCHANGED <<stateKeys, listed, owner, ids, left, cur, happened>>

(* The rule is not pushed to rule_ids. *)
TagRuleUnrecorded(h) ==
  /\ pc[h] = "tag_rule"
  /\ rules' = [rules EXCEPT ![cur[h]] = owner[h]]
  /\ cur' = [cur EXCEPT ![h] = Nobody]
  /\ left' = [left EXCEPT ![h] = @ - 1]
  /\ Goto(h, IF left[h] = 1 THEN "create_state" ELSE "create_rule")
  /\ UNCHANGED <<stateKeys, listed, owner, ids, todo, happened>>

(* close leaves the list of rules behind. *)
CloseRulesOnly(h) ==
  /\ pc[h] = "close_rules"
  /\ rules' = [id \in RuleId |-> IF id \in ids[h] THEN "absent" ELSE rules[id]]
  /\ Return(h, "idle")
  /\ UNCHANGED <<stateKeys, listed, happened>>

-----------------------------------------------------------------------------
(* RuleSet::apply(owner, servers, namespaces), and first cleanup_owner. *)
Apply(h) ==
  /\ pc[h] \in {"idle", "dead"}
  /\ \E o \in OwnersOf[h] : owner' = [owner EXCEPT ![h] = o]
  /\ \E n \in Chunks : Room(n) /\ left' = [left EXCEPT ![h] = n]
  /\ Goto(h, "open_state")
  /\ UNCHANGED <<registry, ids, cur, todo, happened>>

(* An error of open(2) counts as "nothing to clean up". *)
OpenState(h) ==
  /\ pc[h] = "open_state"
  /\ \/ key(h) \in stateKeys /\ Ok /\ Goto(h, "read_ids")
     \/ FailsIf(key(h) \notin stateKeys) /\ Goto(h, "create_rule")
  /\ UNCHANGED <<registry, owner, ids, left, cur, todo>>

(* get_multi_string("RuleIds"): without it the rules' tags are searched. *)
ReadIds(h) ==
  /\ pc[h] = "read_ids"
  /\ \/ /\ listed[key(h)] # {} /\ Ok
        /\ Loop(h, listed[key(h)], "remove_listed", "remove_state")
     \/ /\ FailsIf(listed[key(h)] = {})
        /\ Goto(h, "list_rules") /\ UNCHANGED todo
  /\ UNCHANGED <<registry, owner, ids, left, cur>>

(* remove_rules(&rule_ids) removes what is listed, whatever its tag; errors *)
(* are logged.                                                              *)
RemoveListed(h) ==
  /\ pc[h] = "remove_listed"
  /\ \E id \in todo[h] :
       /\ \/ rules' = [rules EXCEPT ![id] = "absent"] /\ Ok
          \/ Err /\ UNCHANGED rules
       /\ Loop(h, todo[h] \ {id}, "remove_listed", "remove_state")
  /\ UNCHANGED <<stateKeys, listed, owner, ids, left, cur>>

(* remove_owner_tagged_rules: base.keys(), a list taken at once. *)
ListRules(h) ==
  /\ pc[h] = "list_rules"
  /\ \/ /\ Loop(h, {id \in RuleId : rules[id] # "absent"}, "remove_tagged", "remove_state")
        /\ Ok
     \/ Err /\ Goto(h, "remove_state") /\ UNCHANGED todo
  /\ UNCHANGED <<registry, owner, ids, left, cur>>

RemoveTagged(h) ==
  /\ pc[h] = "remove_tagged"
  /\ \E id \in todo[h] :
       /\ \/ rules[id] = owner[h] /\ Ok /\ rules' = [rules EXCEPT ![id] = "absent"]
          \/ FailsIf(rules[id] # owner[h]) /\ UNCHANGED rules
       /\ Loop(h, todo[h] \ {id}, "remove_tagged", "remove_state")
  /\ UNCHANGED <<stateKeys, listed, owner, ids, left, cur>>

(* remove_state(owner), whose errors are logged, ends cleanup_owner. *)
RemoveState(h) ==
  /\ pc[h] = "remove_state"
  /\ \/ /\ stateKeys' = stateKeys \ {key(h)}
        /\ listed' = [listed EXCEPT ![key(h)] = {}]
        /\ Ok
     \/ Err /\ UNCHANGED <<stateKeys, listed>>
  /\ Goto(h, "create_rule")
  /\ UNCHANGED <<rules, owner, ids, left, cur, todo>>

(* create_rule_id, whose error returns at once, and the create of           *)
(* write_rule, whose error rolls back.                                      *)
CreateRule(h) ==
  /\ pc[h] = "create_rule"
  /\ \/ /\ \E id \in Fresh : /\ rules' = [rules EXCEPT ![id] = "untagged"]
                             /\ cur' = [cur EXCEPT ![h] = id]
        /\ Goto(h, "tag_rule") /\ Ok
        /\ UNCHANGED <<owner, ids, left, todo>>
     \/ Err /\ Return(h, "idle") /\ UNCHANGED rules
     \/ Err /\ RollBackFrom(h) /\ UNCHANGED rules
  /\ UNCHANGED <<stateKeys, listed>>

(* The values of the rule, the owner's mark being the last; an error leaves *)
(* the rule behind, which is not in rule_ids yet.                           *)
TagRule(h) ==
  /\ pc[h] = "tag_rule"
  /\ \/ /\ rules' = [rules EXCEPT ![cur[h]] = owner[h]]
        /\ ids' = [ids EXCEPT ![h] = @ \cup {cur[h]}]
        /\ cur' = [cur EXCEPT ![h] = Nobody]
        /\ left' = [left EXCEPT ![h] = @ - 1]
        /\ Goto(h, IF left[h] = 1 THEN "create_state" ELSE "create_rule") /\ Ok
        /\ UNCHANGED <<owner, todo>>
     \/ Err /\ RollBackFrom(h) /\ UNCHANGED rules
  /\ UNCHANGED <<stateKeys, listed>>

(* write_state creates or opens the subkey and sets RuleIds. *)
CreateState(h) ==
  /\ pc[h] = "create_state"
  /\ \/ /\ stateKeys' = stateKeys \cup {key(h)}
        /\ Goto(h, "set_ids") /\ Ok
        /\ UNCHANGED <<owner, ids, left, cur, todo>>
     \/ Err /\ RollBackFrom(h) /\ UNCHANGED stateKeys
  /\ UNCHANGED <<rules, listed>>

SetIds(h) ==
  /\ pc[h] = "set_ids"
  /\ \/ /\ key(h) \in stateKeys
        /\ listed' = [listed EXCEPT ![key(h)] = ids[h]]
        /\ Goto(h, "live") /\ Ok
        /\ UNCHANGED <<owner, ids, left, cur, todo>>
     \/ FailsIf(key(h) \notin stateKeys) /\ RollBackFrom(h) /\ UNCHANGED listed
  /\ UNCHANGED <<rules, stateKeys>>

(* remove_rules(&rule_ids) of an apply that failed, errors being logged. *)
RollBack(h) ==
  /\ pc[h] = "roll_back"
  /\ \E id \in todo[h] :
       /\ \/ rules' = [rules EXCEPT ![id] = "absent"] /\ Ok
          \/ Err /\ UNCHANGED rules
       /\ IF todo[h] = {id}
            THEN Return(h, "idle")
            ELSE /\ todo' = [todo EXCEPT ![h] = @ \ {id}]
                 /\ UNCHANGED <<pc, owner, ids, left, cur>>
  /\ UNCHANGED <<stateKeys, listed>>

(* RuleSet::close: remove_rules_checked stops at the first error, and a     *)
(* rule that is no longer there is one.                                     *)
Close(h) ==
  /\ pc[h] = "live"
  /\ Loop(h, ids[h], "close_rules", "close_state")
  /\ UNCHANGED <<registry, owner, ids, left, cur, happened>>

CloseRules(h) ==
  /\ pc[h] = "close_rules"
  /\ \E id \in todo[h] :
       \/ /\ rules[id] # "absent"
          /\ rules' = [rules EXCEPT ![id] = "absent"]
          /\ Loop(h, todo[h] \ {id}, "close_rules", "close_state") /\ Ok
          /\ UNCHANGED <<owner, ids, left, cur>>
       \/ CloseFailsIf(rules[id] = "absent") /\ Return(h, "idle") /\ UNCHANGED rules
  /\ UNCHANGED <<stateKeys, listed>>

(* remove_state_checked(&owner) *)
CloseState(h) ==
  /\ pc[h] = "close_state"
  /\ \/ /\ key(h) \in stateKeys
        /\ stateKeys' = stateKeys \ {key(h)}
        /\ listed' = [listed EXCEPT ![key(h)] = {}]
        /\ Ok
     \/ CloseFailsIf(key(h) \notin stateKeys) /\ UNCHANGED <<stateKeys, listed>>
  /\ Return(h, "idle")
  /\ UNCHANGED rules

-----------------------------------------------------------------------------
(* mem::forget, or a process that exits without dropping its handle. *)
Forget(h) ==
  /\ Happens("forget")
  /\ pc[h] = "live"
  /\ Spare
  /\ Return(h, "idle")
  /\ UNCHANGED registry

(* The process dies inside apply or close. *)
Crash(h) ==
  /\ Happens(IF Unlisted(h) THEN "crash" ELSE "forget")
  /\ InCall(h)
  /\ Spare
  /\ Return(h, "dead")
  /\ UNCHANGED registry

-----------------------------------------------------------------------------
Init ==
  /\ rules = [id \in RuleId |-> "absent"]
  /\ stateKeys = {}
  /\ listed = [k \in Key |-> {}]
  /\ pc = [h \in Handle |-> "idle"]
  /\ owner = [h \in Handle |-> Nobody]
  /\ ids = [h \in Handle |-> {}]
  /\ left = [h \in Handle |-> 0]
  /\ cur = [h \in Handle |-> Nobody]
  /\ todo = [h \in Handle |-> {}]
  /\ happened = {}

(* The registry calls of the call running in slot h. *)
Step(h) ==
  \/ OpenState(h) \/ ReadIds(h) \/ RemoveListed(h) \/ ListRules(h) \/ RemoveTagged(h)
  \/ RemoveState(h) \/ CreateRule(h) \/ TagRule(h) \/ CreateState(h) \/ SetIds(h)
  \/ RollBack(h) \/ CloseRules(h) \/ CloseState(h)

Next == \E h \in Handle : Apply(h) \/ Close(h) \/ Step(h) \/ Forget(h) \/ Crash(h)

Spec == Init /\ [][Next]_vars

-----------------------------------------------------------------------------
(* The shape of the registry and of the calls' local variables. *)
TypeOK ==
  /\ rules \in [RuleId -> {"absent", "untagged"} \cup Owner]
  /\ stateKeys \subseteq Key
  /\ listed \in [Key -> SUBSET RuleId]
  /\ pc \in [Handle -> Steps \cup Rest]
  /\ owner \in [Handle -> Owner \cup {Nobody}]
  /\ ids \in [Handle -> SUBSET RuleId]
  /\ left \in [Handle -> Nat]
  /\ cur \in [Handle -> RuleId \cup {Nobody}]
  /\ todo \in [Handle -> SUBSET RuleId]
  /\ happened \subseteq Mishaps

(* No handle and no running call answers for the rule. *)
Unclaimed(id) == rules[id] # "absent" /\ \A h \in Handle : id \notin ids[h] \cup {cur[h]}

(* The list is what the next run has: a rule nobody answers for any more    *)
(* stands on one, unless the registry has failed in an apply before, or a   *)
(* process has died between its first rule and its list (nrpt.rs:42, :43,   *)
(* :52 and :136).  A process that dies in cleanup_owner or in close, and a  *)
(* close that stops at the first error, leave it there.  What a list names  *)
(* for removal carries the mark of no other owner.                          *)
LeftRulesExplained ==
  /\ \A id \in RuleId : Unclaimed(id) =>
       \/ happened \cap {"forget", "close"} # {} /\ \E k \in Key : id \in listed[k]
       \/ happened \cap {"io", "crash"} # {}
  /\ \A o, p \in Owner : \A id \in listed[KeyOf[o]] : rules[id] = p => p = o

(* "back ends clean up old state by owner" (README.md:54): no call of one   *)
(* owner removes or changes a rule of another.                              *)
OthersRulesKept ==
  [][\A h \in Handle : Step(h) =>
       \A id \in RuleId :
         rules[id] \in Owner \ {owner[h]} => rules'[id] = rules[id]]_vars

(* close returns no error unless the registry does in a close, whatever     *)
(* other owners' calls do and whatever errors and crashes have left.        *)
CloseSucceeds ==
  [][\A h \in Handle :
       Closing(h) /\ pc'[h] = "idle" /\ "close" \notin happened' =>
         pc[h] = "close_state" /\ key(h) \in stateKeys]_vars

(* The call of apply that returns a handle. *)
Returns(h) == pc[h] = "set_ids" /\ pc'[h] = "live"

(* The rules in force under the mark of slot h are those of its handle. *)
OnlyItsOwn(h) == \A id \in RuleId : rules'[id] = owner[h] => id \in ids'[h]

(* "back ends clean up old state by owner" (README.md:54): an apply that    *)
(* succeeds has removed all rules of the handles its program forgot, and    *)
(* what a close that failed or a process that died in close or in           *)
(* cleanup_owner has left, while another owner's calls come and go.         *)
ForgottenRulesRemoved ==
  [][\A h \in Handle :
       Returns(h) /\ happened \subseteq {"forget", "close"} => OnlyItsOwn(h)]_vars

=============================================================================
