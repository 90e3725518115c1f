----------------------------- MODULE MacGlobal -----------------------------
(***************************************************************************)
(* The macOS back end as a whole: a configuration without domains replaces *)
(* the DNS servers of one network service in the SystemConfiguration       *)
(* preferences (src/platform/macos/global.rs), one with domains goes to    *)
(* /etc/resolver (mod.rs), which MacResolver models and which is here only *)
(* "installed or not".  Both flush the DNS cache at the end (state.rs).    *)
(* One action per call that reads or changes the preferences.              *)
(*                                                                         *)
(* A preferences session is a copy of all preferences, made when a call    *)
(* first looks at them.  configd refuses the lock to a session that is     *)
(* older than the preferences on disk.                                     *)
(***************************************************************************)
EXTENDS Naturals, Sequences

CONSTANTS
  Handle,       \* slots for SetDns values, also the servers each one sets
  Service,      \* network services
  InterfaceOf,  \* InterfaceOf[s]: the BSD name of the interface of service s
  DeviceOf,     \* DeviceOf[h]: values of Config.device the slot may pass
  Tunnel,       \* the names that start with "utun"
  UserDns,      \* DNS entries somebody else gives a service
  NoDns,        \* the service has no DNS entry
  NoKeys,       \* the entry has no key beside ServerAddresses
  Gone,         \* there is no such service
  NoDevice,     \* Config.device is None
  NoService,    \* no service
  Nobody,       \* no session holds the lock
  Nested,       \* are the handles of one service closed in reverse order?
  ErrorsEnd,    \* a bound: do errors and vanished handles end with the first
                \* one that leaves something behind?
  Faults,       \* which calls may fail: "find", "lock", "set", "commit", "apply",
                \* "unlock", "flush", "resolver"; "vanish" if a
                \* handle may be forgotten or its process die
  Editable,     \* services whose entry other programs change
  Edits         \* what they may do: "dns", "remove", "primary"

(* An entry that is there: its server addresses and its other keys.        *)
Dns == [servers : Handle \cup {d.servers : d \in UserDns \ {NoDns}},
        others  : {NoKeys} \cup {d.others : d \in UserDns \ {NoDns}}]

ASSUME MacGlobalAssumption ==
  /\ UserDns \subseteq {NoDns} \cup Dns /\ NoDns \notin Dns
  /\ \A s, t \in Service : InterfaceOf[s] = InterfaceOf[t] => s = t
  /\ Faults \subseteq {"find", "lock", "set", "commit", "apply", "unlock", "flush", "resolver",
                 "vanish"}
  /\ Editable \subseteq Service
  /\ Edits \subseteq {"dns", "remove", "primary"}
  /\ Nested \in BOOLEAN /\ ErrorsEnd \in BOOLEAN
  /\ Nobody \notin Handle /\ NoService \notin Service

VARIABLES
  stored,     \* stored[s]: the DNS entry of service s in the preferences on disk
  running,    \* running[s]: the one in force
  primary,    \* the primary service in the dynamic store
  cached,     \* may the DNS cache hold answers from before the last change?
  lock,       \* who holds the preferences lock
  stale,      \* the slots whose session is older than stored
  pc,         \* pc[h]: the next call made by the call running in slot h
  split,      \* split[h]: is the handle of slot h one of /etc/resolver?
  session,    \* session[h]: the copy of the preferences it works on
  service,    \* service[h]: service_id
  original,   \* original[h]: original_dns
  closing,    \* closing[h]: is the call a close?
  failed,     \* failed[h]: will the call return an error?
  stack,      \* history: the slots whose entry is committed, in that order
  before,     \* history: before[h], the entry that the commit of apply replaced
  user,       \* history: user[s], the entry without any handle
  edited,     \* history: services that others changed under a handle
  happened    \* history: "left" and "flush", see Fail and Flush

prefs  == <<stored, running, primary, cached>>
locals == <<split, session, service, original, closing, failed>>
hist   == <<stack, before, user, edited, happened>>
vars   == <<prefs, lock, stale, pc, locals, hist>>

Steps == {"lock", "set", "commit", "apply", "unlock", "flush"}
Rest  == {"idle", "live"}

NoSession == [s \in Service |-> NoDns]

-----------------------------------------------------------------------------
InCall(h) == pc[h] \in Steps

Goto(h, l) == pc' = [pc EXCEPT ![h] = l]

MayFail(f) == f \in Faults /\ (ErrorsEnd => "left" \notin happened)

Happens(m) == happened' = happened \cup {m}

Committed(h) == \E i \in DOMAIN stack : stack[i] = h

On(s) == {i \in DOMAIN stack : service[stack[i]] = s}

Without(h) ==
  IF Committed(h)
    THEN LET i == CHOOSE i \in DOMAIN stack : stack[i] = h
         IN  SubSeq(stack, 1, i - 1) \o SubSeq(stack, i + 1, Len(stack))
    ELSE stack

Topmost(h) == \E i \in On(service[h]) : stack[i] = h /\ \A j \in On(service[h]) : j <= i

(* The call returns without a handle; its session is released, and the lock *)
(* with it.                                                                 *)
Return(h) ==
  /\ Goto(h, "idle")
  /\ lock' = IF lock = h THEN Nobody ELSE lock
  /\ stale' = stale \ {h}
  /\ split' = [split EXCEPT ![h] = FALSE]
  /\ session' = [session EXCEPT ![h] = NoSession]
  /\ service' = [service EXCEPT ![h] = NoService]
  /\ original' = [original EXCEPT ![h] = NoDns]
  /\ closing' = [closing EXCEPT ![h] = FALSE]
  /\ failed' = [failed EXCEPT ![h] = FALSE]
  /\ before' = [before EXCEPT ![h] = NoDns]
  /\ stack' = Without(h)

(* It has changed nothing yet. *)
Untouched(h) ==
  /\ ~Committed(h) /\ ~closing[h]
  /\ pc[h] \in {"lock", "set", "commit"} \/ failed[h]

(* It returns an error or ends with its process.  That it leaves something  *)
(* is recorded: its own entry, an entry not in force, or old answers.       *)
Fail(h) ==
  /\ Return(h)
  /\ IF Untouched(h) THEN UNCHANGED happened ELSE Happens("left")

(* A commit makes every session that waits for the lock an old one. *)
Outdate == stale' = {k \in Handle : pc[k] = "lock"}

(* Slip: the entry is made anew, with nothing but the servers. *)
DnsWithServersOnly(dns, h) == [servers |-> h, others |-> NoKeys]

(* dns_with_servers: the other keys of the original entry are kept. *)
DnsWithServers(dns, h) ==
  [servers |-> h, others |-> IF dns = NoDns THEN NoKeys ELSE dns.others]

(* What the call sets: its servers, or what apply found. *)
Wanted(h) == IF closing[h] THEN original[h] ELSE DnsWithServers(original[h], h)

(* service_by_interface: no service is found that was removed. *)
ServiceByInterface(d) == {s \in Service : stored[s] # Gone /\ InterfaceOf[s] = d}

(* primary_service_id and service_by_id *)
PrimaryService == {s \in Service : s = primary /\ stored[s] # Gone}

(* target_service: the service of the device; the primary one without a     *)
(* device, or for a tunnel that has no service.                             *)
TargetService(d) ==
  IF d \in Tunnel \cup {NoDevice} /\ ServiceByInterface(d) = {}
    THEN PrimaryService
    ELSE ServiceByInterface(d)

-----------------------------------------------------------------------------
(* Slips the properties below must notice, one for each action they vary.   *)

(* close looks for its service again instead of by service_id. *)
CloseGlobalAtTarget(h) ==
  /\ pc[h] = "live" /\ ~split[h]
  /\ Nested => Topmost(h)
  /\ \E s \in PrimaryService : service' = [service EXCEPT ![h] = s]
  /\ session' = [session EXCEPT ![h] = stored]
  /\ closing' = [closing EXCEPT ![h] = TRUE]
  /\ Goto(h, "lock")
  /\ UNCHANGED <<prefs, lock, stale, split, original, failed, hist>>

(* An old session is read anew, and the original entry is not. *)
LockAndSynchronize(h) ==
  /\ pc[h] = "lock" /\ lock = Nobody
  /\ lock' = h
  /\ session' = [session EXCEPT ![h] = stored]
  /\ stale' = stale \ {h}
  /\ Goto(h, "set")
  /\ UNCHANGED <<prefs, split, service, original, closing, failed, hist>>

(* SCPreferencesLock does not wait, and its answer is not looked at. *)
LockWithoutWait(h) ==
  /\ pc[h] = "lock"
  /\ lock' = IF lock = Nobody THEN h ELSE lock
  /\ Goto(h, "set")
  /\ UNCHANGED <<prefs, stale, locals, hist>>

(* Only apply flushes the cache. *)
FlushInApply(h) ==
  /\ pc[h] = "flush"
  /\ IF closing[h]
       THEN Return(h) /\ UNCHANGED cached
       ELSE /\ cached' = FALSE
            /\ Goto(h, "live")
            /\ session' = [session EXCEPT ![h] = NoSession]
            /\ UNCHANGED <<lock, stale, split, service, original, closing, failed, stack, before>>
  /\ UNCHANGED <<stored, running, primary, user, edited, happened>>

-----------------------------------------------------------------------------
(* SetDns::apply of global.rs up to the lock: a session is opened, the      *)
(* service found in it and its entry read.  An apply that finds none        *)
(* changes nothing.                                                         *)
ApplyGlobal(h) ==
  /\ pc[h] = "idle"
  /\ \E d \in DeviceOf[h] : \E s \in TargetService(d) :
       /\ service' = [service EXCEPT ![h] = s]
       /\ original' = [original EXCEPT ![h] = stored[s]]
  /\ session' = [session EXCEPT ![h] = stored]
  /\ Goto(h, "lock")
  /\ UNCHANGED <<prefs, lock, stale, split, closing, failed, hist>>

(* SCPreferencesLock waits for the lock, and refuses it to an old session.  *)
Lock(h) ==
  /\ pc[h] = "lock" /\ lock = Nobody
  /\ \/ /\ h \notin stale
        /\ lock' = h
        /\ Goto(h, "set")
        /\ UNCHANGED <<stale, locals, stack, before, happened>>
     \/ (h \in stale \/ MayFail("lock")) /\ Fail(h)
  /\ UNCHANGED <<prefs, user, edited>>

(* set_protocol_configuration changes the session only. *)
Set(h) ==
  /\ pc[h] = "set"
  /\ \/ /\ session' = [session EXCEPT ![h][service[h]] = Wanted(h)]
        /\ Goto(h, "commit")
        /\ UNCHANGED failed
     \/ /\ MayFail("set")
        /\ failed' = [failed EXCEPT ![h] = TRUE]
        /\ Goto(h, "unlock")
        /\ UNCHANGED session
  /\ UNCHANGED <<prefs, lock, stale, split, service, original, closing, hist>>

(* SCPreferencesCommitChanges writes the session to disk. *)
Commit(h) ==
  /\ pc[h] = "commit"
  /\ \/ /\ stored' = session[h]
        /\ Outdate
        /\ IF closing[h]
             THEN stack' = Without(h) /\ UNCHANGED before
             ELSE /\ stack' = Append(stack, h)
                  /\ before' = [before EXCEPT ![h] = stored[service[h]]]
        /\ Goto(h, "apply")
        /\ UNCHANGED failed
     \/ /\ MayFail("commit")
        /\ failed' = [failed EXCEPT ![h] = TRUE]
        /\ Goto(h, "unlock")
        /\ UNCHANGED <<stored, stale, stack, before>>
  /\ UNCHANGED <<running, primary, cached, lock, split, session, service, original, closing,
                 user, edited, happened>>

(* SCPreferencesApplyChanges puts in force what is on disk. *)
ApplyChanges(h) ==
  /\ pc[h] = "apply"
  /\ \/ /\ running' = stored
        /\ cached' = TRUE
        /\ UNCHANGED <<failed, happened>>
     \/ /\ MayFail("apply")
        /\ failed' = [failed EXCEPT ![h] = TRUE]
        /\ Happens("left")
        /\ UNCHANGED <<running, cached>>
  /\ Goto(h, "unlock")
  /\ UNCHANGED <<stored, primary, lock, stale, split, session, service, original, closing,
                 stack, before, user, edited>>

(* The lock is given back whatever went wrong under it, and the first error *)
(* is returned.                                                             *)
Unlock(h) ==
  /\ pc[h] = "unlock"
  /\ \/ /\ ~failed[h]
        /\ lock' = Nobody
        /\ Goto(h, "flush")
        /\ UNCHANGED <<stale, locals, stack, before, happened>>
     \/ failed[h] /\ Fail(h)
     \/ MayFail("unlock") /\ Fail(h)
  /\ UNCHANGED <<prefs, user, edited>>

(* refresh_interface and flush_dns_cache end a call that succeeded; their   *)
(* errors are logged.                                                       *)
Flush(h) ==
  /\ pc[h] = "flush"
  /\ \/ cached' = FALSE /\ UNCHANGED happened
     \/ MayFail("flush") /\ Happens("flush") /\ UNCHANGED cached
  /\ IF closing[h]
       THEN Return(h)
       ELSE /\ Goto(h, "live")
            /\ session' = [session EXCEPT ![h] = NoSession]
            /\ UNCHANGED <<lock, stale, split, service, original, closing, failed, stack, before>>
  /\ UNCHANGED <<stored, running, primary, user, edited>>

(* SetDns::close of global.rs up to the lock, in a session of its own. *)
CloseGlobal(h) ==
  /\ pc[h] = "live" /\ ~split[h]
  /\ Nested => Topmost(h)
  /\ \/ /\ stored[service[h]] # Gone
        /\ session' = [session EXCEPT ![h] = stored]
        /\ closing' = [closing EXCEPT ![h] = TRUE]
        /\ Goto(h, "lock")
        /\ UNCHANGED <<lock, stale, split, service, original, failed, stack, before, happened>>
     \/ (stored[service[h]] = Gone \/ MayFail("find")) /\ Fail(h)
  /\ UNCHANGED <<prefs, user, edited>>

(* apply and close of a configuration with domains, as one step up to the   *)
(* flush; an error may leave some of its files.                             *)
ApplyResolver(h) ==
  /\ pc[h] = "idle"
  /\ \/ /\ split' = [split EXCEPT ![h] = TRUE]
        /\ Goto(h, "flush")
        /\ cached' = TRUE
        /\ UNCHANGED happened
     \/ /\ MayFail("resolver")
        /\ Happens("left")
        /\ UNCHANGED <<split, pc, cached>>
  /\ UNCHANGED <<stored, running, primary, lock, stale, session, service, original, closing,
                 failed, stack, before, user, edited>>

CloseResolver(h) ==
  /\ pc[h] = "live" /\ split[h]
  /\ \/ /\ closing' = [closing EXCEPT ![h] = TRUE]
        /\ Goto(h, "flush")
        /\ cached' = TRUE
        /\ UNCHANGED <<lock, stale, split, session, service, original, failed, stack, before, happened>>
     \/ MayFail("resolver") /\ Fail(h) /\ UNCHANGED cached
  /\ UNCHANGED <<stored, running, primary, user, edited>>

-----------------------------------------------------------------------------
(* mem::forget, or the death of the process; configd frees its lock. *)
Vanish(h) ==
  /\ pc[h] # "idle"
  /\ MayFail("vanish")
  /\ Fail(h)
  /\ UNCHANGED <<prefs, user, edited>>

(* Another program commits and applies an entry of a service, adds or       *)
(* removes the service.                                                     *)
ExternalCommit ==
  /\ lock = Nobody
  /\ \E s \in Editable :
       \E d \in (IF "dns" \in Edits THEN UserDns ELSE {}) \cup
                (IF "remove" \in Edits THEN {Gone} ELSE {}) :
         /\ stored' = [stored EXCEPT ![s] = d]
         /\ running' = stored'
         /\ IF On(s) = {}
              THEN user' = [user EXCEPT ![s] = d] /\ UNCHANGED edited
              ELSE edited' = edited \cup {s} /\ UNCHANGED user
  /\ Outdate
  /\ UNCHANGED <<primary, cached, lock, pc, locals, stack, before, happened>>

PrimaryChanges ==
  /\ "primary" \in Edits
  /\ primary' \in Service
  /\ UNCHANGED <<stored, running, cached, lock, stale, pc, locals, hist>>

-----------------------------------------------------------------------------
Init ==
  /\ stored \in [Service -> UserDns]
  /\ running = stored
  /\ user = stored
  /\ primary \in Service
  /\ cached = FALSE
  /\ lock = Nobody
  /\ stale = {}
  /\ pc = [h \in Handle |-> "idle"]
  /\ split = [h \in Handle |-> FALSE]
  /\ session = [h \in Handle |-> NoSession]
  /\ service = [h \in Handle |-> NoService]
  /\ original = [h \in Handle |-> NoDns]
  /\ closing = [h \in Handle |-> FALSE]
  /\ failed = [h \in Handle |-> FALSE]
  /\ stack = <<>>
  /\ before = [h \in Handle |-> NoDns]
  /\ edited = {}
  /\ happened = {}

Next ==
  \/ \E h \in Handle :
       \/ ApplyGlobal(h) \/ Lock(h) \/ Set(h) \/ Commit(h) \/ ApplyChanges(h)
       \/ Unlock(h) \/ Flush(h) \/ CloseGlobal(h)
       \/ ApplyResolver(h) \/ CloseResolver(h) \/ Vanish(h)
  \/ ExternalCommit \/ PrimaryChanges

Spec == Init /\ [][Next]_vars

-----------------------------------------------------------------------------
Entry == {NoDns} \cup Dns

(* The shape of the state; exactly the calls between their lock and their   *)
(* unlock hold the lock, whatever fails between them.                       *)
TypeOK ==
  /\ stored \in [Service -> Entry \cup {Gone}]
  /\ running \in [Service -> Entry \cup {Gone}]
  /\ user \in [Service -> UserDns \cup {Gone}]
  /\ primary \in Service
  /\ pc \in [Handle -> Steps \cup Rest]
  /\ \A h \in Handle : lock = h <=> pc[h] \in {"set", "commit", "apply", "unlock"}
  /\ stale \subseteq {h \in Handle : pc[h] = "lock"}
  /\ session \in [Handle -> [Service -> Entry \cup {Gone}]]
  /\ service \in [Handle -> Service \cup {NoService}]
  /\ original \in [Handle -> Entry]
  /\ before \in [Handle -> Entry]
  /\ stack \in Seq({h \in Handle : ~split[h] /\ service[h] # NoService})
  /\ edited \subseteq Service
  /\ happened \subseteq {"left", "flush"}

(* "The DNS configuration stays active while this value is alive"           *)
(* (src/lib.rs:12): the entry of a service on disk, and unless ApplyChanges *)
(* is still to come the one in force, has the servers of the topmost handle *)
(* there and the user's other keys, and is the user's when there is none.   *)
(* Calls overlap in any way and fail at any point; others may commit what   *)
(* they like to services without a handle.  It holds until a call that      *)
(* could not take its own change back returned an error.                    *)
TopmostInForce ==
  happened \subseteq {"flush"} =>
    \A s \in Service \ edited :
      /\ IF On(s) = {}
           THEN stored[s] = user[s]
           ELSE \E i \in On(s) : /\ \A j \in On(s) : j <= i
                                 /\ stored[s] = DnsWithServers(user[s], stack[i])
      /\ (\A h \in Handle : pc[h] # "apply") => running[s] = stored[s]

(* No answer from before a change outlives the call that made it, be it of  *)
(* a service's servers or of /etc/resolver.                                 *)
AnswersAreFresh ==
  happened = {} /\ (\A h \in Handle : ~InCall(h)) => ~cached

(* apply reads the entry before it holds the lock, and writes all of the    *)
(* preferences back: a commit still changes no other service and none of    *)
(* the keys others have set meanwhile.                                      *)
OthersCommitsKept ==
  [][\A h \in Handle :
       pc[h] = "commit" /\ stored' # stored =>
         /\ \A s \in Service \ {service[h]} : stored'[s] = stored[s]
         /\ ~closing[h] /\ stored[service[h]] # NoDns =>
              stored'[service[h]].others = stored[service[h]].others]_vars

(* "restore" of close: what it commits is the very entry that the commit of *)
(* its apply replaced, to the service it was taken from, although the entry *)
(* was read at another time and the primary service may be another one now. *)
CloseRestores ==
  [][\A h \in Handle :
       closing[h] /\ pc[h] = "commit" /\ pc'[h] = "apply" =>
         stored'[service[h]] = before[h]]_vars
=============================================================================
