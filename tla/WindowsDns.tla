----------------------------- MODULE WindowsDns -----------------------------
(***************************************************************************)
(* The Windows back end as a whole (src/platform/windows/mod.rs): the name *)
(* servers of one interface (interface.rs), saved in memory and set family *)
(* by family, and the NRPT rules, of which only "installed or not" is kept *)
(* here; Nrpt models them.  One action per registry or API call.           *)
(***************************************************************************)
EXTENDS Naturals, Sequences

CONSTANTS
  Handle,       \* slots for SetDns values, also the name servers each one sets
  WantedBy,     \* WantedBy[h]: families of Config.servers, {} without a device
  UserValue,    \* values of NameServer before the first apply
  NoValue,      \* there is no value NameServer
  Nested,       \* are calls serial, and handles closed in reverse order?
  Faults        \* which calls may fail: "open", "misread", "set", "nrpt",
                \* "restore" and "remove"

Family == {"ipv4", "ipv6"}

ASSUME WindowsAssumption ==
  /\ WantedBy \in [Handle -> SUBSET SUBSET Family]
  /\ NoValue \in UserValue
  /\ Handle \cap UserValue = {}
  /\ Nested \in BOOLEAN
  /\ Faults \subseteq {"open", "misread", "set", "nrpt", "restore", "remove"}

VARIABLES
  nameServer,  \* [Family -> NameServer value of the interface]
  rules,       \* rules[h]: are the NRPT rules of slot h installed?
  pc,          \* pc[h]: the next call made by the call running in slot h
  want,        \* want[h]: the families slot h has servers for
  todo,        \* todo[h]: families its loop has still to handle
  snapshots,   \* snapshots[h]: what was read of the families
  closing,     \* closing[h]: is the call a close?
  failed,      \* failed[h]: will it return, or did it return, an error?
  stack,       \* history: the handles, in the order of their apply
  before,      \* history: before[h], nameServer when apply was called
  user,        \* history: nameServer before the first apply
  happened     \* history: which of "misread", "restore", "remove" failed so far

vars == <<nameServer, rules, pc, want, todo, snapshots, closing, failed,
          stack, before, user, happened>>

Steps == {"snapshot", "set", "nrpt", "restore", "close_nrpt"}
Rest  == {"idle", "live"}
Value == UserValue \cup Handle

NoSnapshot == [f \in Family |-> NoValue]

-----------------------------------------------------------------------------
InCall(h) == pc[h] \in Steps

MayCall == Nested => \A k \in Handle : ~InCall(k)

Happens(m) == happened' = happened \cup {m}

Goto(h, l) == pc' = [pc EXCEPT ![h] = l]

(* IPv4 comes before IPv6 in every loop. *)
First(s) == IF "ipv4" \in s THEN "ipv4" ELSE "ipv6"

(* h stands on s once at most. *)
Without(s, h) ==
  IF \E i \in DOMAIN s : s[i] = h
    THEN LET i == CHOOSE i \in DOMAIN s : s[i] = h
         IN SubSeq(s, 1, i - 1) \o SubSeq(s, i + 1, Len(s))
    ELSE s

(* The families are handled one by one, and then the call goes on to l. *)
Advance(h, l, next) ==
  LET rest == todo[h] \ {First(todo[h])}
  IN IF rest = {}
       THEN Goto(h, l) /\ todo' = [todo EXCEPT ![h] = next]
       ELSE todo' = [todo EXCEPT ![h] = rest] /\ UNCHANGED pc

(* The call returns and leaves the slot without a handle. *)
Return(h) ==
  /\ Goto(h, "idle")
  /\ want' = [want EXCEPT ![h] = {}]
  /\ todo' = [todo EXCEPT ![h] = {}]
  /\ snapshots' = [snapshots EXCEPT ![h] = NoSnapshot]
  /\ closing' = [closing EXCEPT ![h] = FALSE]
  /\ before' = [before EXCEPT ![h] = NoSnapshot]

(* InterfaceSnapshots::restore, after which the call returns. *)
StartRestore(h) ==
  IF want[h] = {}
    THEN Return(h)
    ELSE /\ Goto(h, "restore")
         /\ todo' = [todo EXCEPT ![h] = want[h]]
         /\ UNCHANGED <<want, snapshots, closing, before>>

(* One family is restored; the next one follows, or the call returns. *)
EndRestoreOf(h) ==
  IF todo[h] = {First(todo[h])}
    THEN Return(h)
    ELSE /\ todo' = [todo EXCEPT ![h] = @ \ {First(@)}]
         /\ UNCHANGED <<pc, want, snapshots, closing, before>>

-----------------------------------------------------------------------------
(* Slips the properties below must notice, one for each action they vary.   *)

(* The first family that fails is not taken back. *)
SetFamilyWithoutUndo(h) ==
  /\ pc[h] = "set"
  /\ LET f == First(todo[h])
     IN \/ /\ nameServer' = [nameServer EXCEPT ![f] = h]
           /\ Advance(h, "nrpt", {})
           /\ UNCHANGED <<want, snapshots, closing, failed, before>>
        \/ /\ "set" \in Faults
           /\ failed' = [failed EXCEPT ![h] = TRUE]
           /\ Return(h)
           /\ UNCHANGED nameServer
  /\ UNCHANGED <<rules, stack, user, happened>>

(* The loop over the families that are set is given those still to be read. *)
ReadSnapshotForNone(h) ==
  /\ pc[h] = "snapshot"
  /\ snapshots' = [snapshots EXCEPT ![h][First(todo[h])] = nameServer[First(todo[h])]]
  /\ Advance(h, "set", {})
  /\ UNCHANGED <<nameServer, rules, want, closing, failed, stack, before, user, happened>>

(* An error of restore is logged and not returned. *)
RestoreFamilySilently(h) ==
  /\ pc[h] = "restore"
  /\ LET f == First(todo[h])
     IN \/ nameServer' = [nameServer EXCEPT ![f] = snapshots[h][f]]
        \/ "restore" \in Faults /\ UNCHANGED nameServer
  /\ EndRestoreOf(h)
  /\ UNCHANGED <<rules, failed, stack, user, happened>>

(* The interface's result is returned instead of that of the rules. *)
CloseRulesUnchecked(h) ==
  /\ pc[h] = "close_nrpt"
  /\ \/ rules' = [rules EXCEPT ![h] = FALSE]
     \/ "nrpt" \in Faults /\ UNCHANGED rules
  /\ StartRestore(h)
  /\ UNCHANGED <<nameServer, failed, stack, user, happened>>

-----------------------------------------------------------------------------
(* SetDns::apply; without a device, or for a split configuration, or where  *)
(* SetInterfaceDnsSettings is missing, the interface is left alone.         *)
Apply(h) ==
  /\ pc[h] = "idle"
  /\ MayCall
  /\ \E w \in WantedBy[h] :
       /\ want' = [want EXCEPT ![h] = w]
       /\ todo' = [todo EXCEPT ![h] = w]
       /\ Goto(h, IF w = {} THEN "nrpt" ELSE "snapshot")
  /\ failed' = [failed EXCEPT ![h] = FALSE]
  /\ before' = [before EXCEPT ![h] = nameServer]
  /\ UNCHANGED <<nameServer, rules, snapshots, closing, stack, user, happened>>

(* read_nameserver: any error of get_string counts as "no value"; an error  *)
(* of open, or of what comes before it (library, alias), ends apply.        *)
ReadSnapshot(h) ==
  /\ pc[h] = "snapshot"
  /\ LET f == First(todo[h])
     IN \/ /\ \/ /\ snapshots' = [snapshots EXCEPT ![h][f] = nameServer[f]]
                 /\ UNCHANGED happened
              \/ /\ "misread" \in Faults
                 /\ snapshots' = [snapshots EXCEPT ![h][f] = NoValue]
                 /\ Happens("misread")
           /\ Advance(h, "set", want[h])
           /\ UNCHANGED <<want, closing, failed, before>>
        \/ /\ "open" \in Faults
           /\ failed' = [failed EXCEPT ![h] = TRUE]
           /\ Return(h)
           /\ UNCHANGED happened
  /\ UNCHANGED <<nameServer, rules, stack, user>>

(* set_dns_family; the first error restores what was read and is returned.  *)
SetFamily(h) ==
  /\ pc[h] = "set"
  /\ LET f == First(todo[h])
     IN \/ /\ nameServer' = [nameServer EXCEPT ![f] = h]
           /\ Advance(h, "nrpt", {})
           /\ UNCHANGED <<want, snapshots, closing, failed, before>>
        \/ /\ "set" \in Faults
           /\ failed' = [failed EXCEPT ![h] = TRUE]
           /\ StartRestore(h)
           /\ UNCHANGED nameServer
  /\ UNCHANGED <<rules, stack, user, happened>>

(* RuleSet::apply; its error restores the interface and is returned. *)
ApplyRules(h) ==
  /\ pc[h] = "nrpt"
  /\ \/ /\ rules' = [rules EXCEPT ![h] = TRUE]
        /\ stack' = Append(stack, h)
        /\ Goto(h, "live")
        /\ UNCHANGED <<want, todo, snapshots, closing, failed, before>>
     \/ /\ "nrpt" \in Faults
        /\ failed' = [failed EXCEPT ![h] = TRUE]
        /\ StartRestore(h)
        /\ UNCHANGED <<rules, stack>>
  /\ UNCHANGED <<nameServer, user, happened>>

(* restore_nameserver: set_string, or remove_value, whose error is logged.  *)
(* An error for IPv4 leaves IPv6 as it is.                                  *)
RestoreFamily(h) ==
  /\ pc[h] = "restore"
  /\ LET f == First(todo[h])
     IN \/ /\ \/ /\ nameServer' = [nameServer EXCEPT ![f] = snapshots[h][f]]
                 /\ UNCHANGED happened
              \/ /\ "remove" \in Faults /\ snapshots[h][f] = NoValue
                 /\ Happens("remove")
                 /\ UNCHANGED nameServer
           /\ EndRestoreOf(h)
           /\ UNCHANGED failed
        \/ /\ "restore" \in Faults /\ Happens("restore")
           /\ failed' = [failed EXCEPT ![h] = TRUE]
           /\ Return(h)
           /\ UNCHANGED nameServer
  /\ UNCHANGED <<rules, stack, user>>

(* SetDns::close, or the drop of the handle. *)
Close(h) ==
  /\ pc[h] = "live"
  /\ MayCall
  /\ Nested => stack[Len(stack)] = h
  /\ closing' = [closing EXCEPT ![h] = TRUE]
  /\ stack' = Without(stack, h)
  /\ Goto(h, "close_nrpt")
  /\ UNCHANGED <<nameServer, rules, want, todo, snapshots, failed, before, user, happened>>

(* RuleSet::close; the interface is restored whatever it returns. *)
CloseRules(h) ==
  /\ pc[h] = "close_nrpt"
  /\ \/ rules' = [rules EXCEPT ![h] = FALSE] /\ UNCHANGED failed
     \/ "nrpt" \in Faults /\ failed' = [failed EXCEPT ![h] = TRUE] /\ UNCHANGED rules
  /\ StartRestore(h)
  /\ UNCHANGED <<nameServer, stack, user, happened>>

-----------------------------------------------------------------------------
Init ==
  /\ nameServer \in [Family -> UserValue]
  /\ user = nameServer
  /\ rules = [h \in Handle |-> FALSE]
  /\ pc = [h \in Handle |-> "idle"]
  /\ want = [h \in Handle |-> {}]
  /\ todo = [h \in Handle |-> {}]
  /\ snapshots = [h \in Handle |-> NoSnapshot]
  /\ closing = [h \in Handle |-> FALSE]
  /\ failed = [h \in Handle |-> FALSE]
  /\ stack = <<>>
  /\ before = [h \in Handle |-> NoSnapshot]
  /\ happened = {}

Next ==
  \E h \in Handle :
    \/ Apply(h) \/ ReadSnapshot(h) \/ SetFamily(h) \/ ApplyRules(h)
    \/ RestoreFamily(h) \/ Close(h) \/ CloseRules(h)

Spec == Init /\ [][Next]_vars

-----------------------------------------------------------------------------
(* The shape of the state. *)
Shape ==
  /\ nameServer \in [Family -> Value]
  /\ rules \in [Handle -> BOOLEAN]
  /\ pc \in [Handle -> Steps \cup Rest]
  /\ want \in [Handle -> SUBSET Family]
  /\ todo \in [Handle -> SUBSET Family]
  /\ snapshots \in [Handle -> [Family -> Value]]
  /\ closing \in [Handle -> BOOLEAN]
  /\ failed \in [Handle -> BOOLEAN]
  /\ stack \in Seq(Handle)
  /\ before \in [Handle -> [Family -> Value]]
  /\ user \in [Family -> UserValue]
  /\ happened \subseteq {"misread", "restore", "remove"}

(* What is to be done in a loop is one of the families of the handle. *)
InLoop(h) ==
  /\ todo[h] \subseteq want[h]
  /\ pc[h] \in {"snapshot", "set", "restore"} => todo[h] # {}

(* Families and snapshots stay within their values, and a loop has a family *)
(* in turn, which is one of those the handle has servers for.               *)
TypeOK == Shape /\ \A h \in Handle : InLoop(h)

(* While no call is running, each family of the interface is as the latest  *)
(* live handle that has servers for it wants it, and as the user had it     *)
(* when there is none: also after an apply that failed half-way.  It takes  *)
(* nested handles, and restores that do not fail.                           *)
TopmostInForce ==
  happened = {} /\ (\A h \in Handle : ~InCall(h)) =>
    \A f \in Family :
      LET above == {i \in DOMAIN stack : f \in want[stack[i]]}
      IN IF above = {}
           THEN nameServer[f] = user[f]
           ELSE \E i \in above : /\ \A j \in above : j <= i
                                 /\ nameServer[f] = stack[i]

(* A close of slot h that reports success. *)
ClosesOk(h) == closing[h] /\ InCall(h) /\ pc'[h] = "idle" /\ ~failed'[h]

(* A close that reports success has removed the rules and put back the name *)
(* servers from before apply, whatever failed in this and earlier calls, as *)
(* long as handles are nested and no error of reading was taken for "no     *)
(* value" (interface.rs:293).  The error of removing a value, which is only *)
(* logged (:304), leaves the handle's servers where there was no value, but *)
(* never instead of the user's.                                             *)
NestedCloseRestores ==
  [][\A h \in Handle :
       ClosesOk(h) /\ "misread" \notin happened' =>
         /\ ~rules'[h]
         /\ \A f \in want[h] : \/ nameServer'[f] = before[h][f]
                               \/ before[h][f] = NoValue /\ "remove" \in happened']_vars

(* Rules stay behind only after a call that returned an error, whatever     *)
(* else went wrong in it: the interface's result does not hide theirs.      *)
LeftRulesAreReported == \A h \in Handle : rules[h] /\ pc[h] = "idle" => failed[h]
=============================================================================
