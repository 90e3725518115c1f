------------------------------ MODULE LinuxDns ------------------------------
(***************************************************************************)
(* The Linux back end as a whole: which of its two ways a configuration    *)
(* takes (src/platform/linux/mod.rs), and the one by D-Bus, which sets the *)
(* DNS of one link with systemd-resolved (resolved.rs).  The other way,    *)
(* /etc/resolv.conf, is here only "installed by a slot or not"; ResolvConf *)
(* models it.  One action per D-Bus call.                                  *)
(***************************************************************************)
EXTENDS FiniteSets, Naturals

CONSTANTS
  Handle,       \* slots for SetDns values
  Link,         \* network interfaces
  TargetsOf,    \* TargetsOf[h]: values of Config.device the slot may pass
  NoDevice,     \* Config.device is None
  Unset,        \* the state of a link RevertLink goes back to
  Other         \* a setting somebody else made

ASSUME LinuxAssumption ==
  /\ TargetsOf \in [Handle -> SUBSET (Link \cup {NoDevice})]
  /\ NoDevice \notin Link
  /\ Unset # Other /\ {Unset, Other} \cap Handle = {}

(* What SetLinkDNS, SetLinkDomains and SetLinkDefaultRoute set of a link.   *)
Setting == {"dns", "domains", "route"}

VARIABLES
  resolved,   \* does systemd-resolved own its name on the bus?
  managed,    \* is /etc/resolv.conf managed by systemd-resolved?
  link,       \* link[l][s]: the slot that made the setting, Unset or Other
  conf,       \* the slots whose configuration went to /etc/resolv.conf
  pc,         \* pc[h]: the next D-Bus call of the call running in slot h
  device,     \* device[h]: Config.device of slot h
  split,      \* split[h]: has slot h domains?
  result      \* result[h]: how the last call of slot h ended

vars == <<resolved, managed, link, conf, pc, device, split, result>>

Steps == {"select", "set_dns", "set_domains", "set_route", "flush",
          "revert", "flush_reverted"}
Rest  == {"idle", "live"}
NoLink == [s \in Setting |-> Unset]

-----------------------------------------------------------------------------
InCall(h) == pc[h] \in Steps

Goto(h, l) == pc' = [pc EXCEPT ![h] = l]

Return(h, r) ==
  /\ Goto(h, "idle")
  /\ result' = [result EXCEPT ![h] = r]
  /\ device' = [device EXCEPT ![h] = NoDevice]
  /\ split' = [split EXCEPT ![h] = FALSE]

Set(h, s) == link' = [link EXCEPT ![device[h]][s] = h]

(* A D-Bus call may fail, and does when nobody answers. *)
Answered == resolved

(* One call of the sequence in resolved.rs; the first error is returned,    *)
(* and what was set stays set.                                              *)
Call(h, here, s, next) ==
  /\ pc[h] = here
  /\ \/ Answered /\ Set(h, s) /\ Goto(h, next) /\ UNCHANGED <<device, split, result>>
     \/ Return(h, "error") /\ UNCHANGED link
  /\ UNCHANGED <<resolved, managed, conf>>

-----------------------------------------------------------------------------
(* Slips the properties below must notice, one for each action they vary.   *)

(* An error of RevertLink is taken for "nothing to revert". *)
RevertUnchecked(h) ==
  /\ pc[h] = "revert"
  /\ \/ Answered /\ link' = [link EXCEPT ![device[h]] = NoLink]
     \/ UNCHANGED link
  /\ Goto(h, "flush_reverted")
  /\ UNCHANGED <<resolved, managed, conf, device, split, result>>

(* The default route is left as it is. *)
SetRouteSkipped(h) ==
  /\ pc[h] = "set_route"
  /\ Goto(h, "flush")
  /\ UNCHANGED <<resolved, managed, link, conf, device, split, result>>

-----------------------------------------------------------------------------
Apply(h) ==
  /\ pc[h] = "idle"
  /\ \E d \in TargetsOf[h] : device' = [device EXCEPT ![h] = d]
  /\ \E b \in BOOLEAN : split' = [split EXCEPT ![h] = b]
  /\ result' = [result EXCEPT ![h] = "none"]
  /\ Goto(h, "select")
  /\ UNCHANGED <<resolved, managed, link, conf>>

(* The choice of SetDns::apply, on what Manager::connect and                *)
(* is_managed_by_resolved say now.  The way by resolv.conf may be refused   *)
(* or fail, for one because another handle is in force there.               *)
ToResolved(h) ==
  /\ resolved /\ device[h] # NoDevice
  /\ Goto(h, "set_dns")
  /\ UNCHANGED <<conf, device, split, result>>

ToResolvConf(h) ==
  /\ ~split[h] /\ ~(resolved /\ device[h] # NoDevice) /\ ~managed
  /\ conf' = conf \cup {h}
  /\ Goto(h, "live")
  /\ UNCHANGED <<device, split, result>>

Refuse(h) ==
  /\ ~(resolved /\ device[h] # NoDevice)
  /\ Return(h, "error")
  /\ UNCHANGED conf

Select(h) ==
  /\ pc[h] = "select"
  /\ ToResolved(h) \/ ToResolvConf(h) \/ Refuse(h)
  /\ UNCHANGED <<resolved, managed, link>>

SetLinkDNS(h)     == Call(h, "set_dns", "dns", "set_domains")
SetLinkDomains(h) == Call(h, "set_domains", "domains", "set_route")
SetLinkDefaultRoute(h) == Call(h, "set_route", "route", "flush")

(* FlushCaches of apply: its error is returned, and the link keeps the      *)
(* settings although there is no handle.                                    *)
Flush(h) ==
  /\ pc[h] = "flush"
  /\ \/ Answered /\ Goto(h, "live") /\ UNCHANGED <<device, split, result>>
     \/ Return(h, "error")
  /\ UNCHANGED <<resolved, managed, link, conf>>

(* SetDns::close, or the drop of the handle. *)
Close(h) ==
  /\ pc[h] = "live"
  /\ IF h \in conf
       THEN Return(h, "ok") /\ conf' = conf \ {h}
       ELSE Goto(h, "revert") /\ UNCHANGED <<conf, device, split, result>>
  /\ UNCHANGED <<resolved, managed, link>>

RevertLink(h) ==
  /\ pc[h] = "revert"
  /\ \/ /\ Answered
        /\ link' = [link EXCEPT ![device[h]] = NoLink]
        /\ Goto(h, "flush_reverted")
        /\ UNCHANGED <<device, split, result>>
     \/ Return(h, "error") /\ UNCHANGED link
  /\ UNCHANGED <<resolved, managed, conf>>

FlushReverted(h) ==
  /\ pc[h] = "flush_reverted"
  /\ \/ Answered /\ Return(h, "ok")
     \/ Return(h, "error")
  /\ UNCHANGED <<resolved, managed, link, conf>>

(* systemd-resolved is started or stopped, and takes over resolv.conf or    *)
(* gives it up; the settings of the links survive its restarts.             *)
Environment ==
  /\ resolved' \in BOOLEAN /\ managed' \in BOOLEAN
  /\ UNCHANGED <<link, conf, pc, device, split, result>>

-----------------------------------------------------------------------------
Init ==
  /\ resolved \in BOOLEAN /\ managed \in BOOLEAN
  /\ link \in [Link -> {[s \in Setting |-> v] : v \in {Unset, Other}}]
  /\ conf = {}
  /\ pc = [h \in Handle |-> "idle"]
  /\ device = [h \in Handle |-> NoDevice]
  /\ split = [h \in Handle |-> FALSE]
  /\ result = [h \in Handle |-> "none"]

Next ==
  \/ \E h \in Handle :
       \/ Apply(h) \/ Select(h) \/ SetLinkDNS(h) \/ SetLinkDomains(h)
       \/ SetLinkDefaultRoute(h) \/ Flush(h)
       \/ Close(h) \/ RevertLink(h) \/ FlushReverted(h)
  \/ Environment

Spec == Init /\ [][Next]_vars

-----------------------------------------------------------------------------
(* "The DNS configuration stays active while this value is alive"           *)
(* (src/lib.rs:12): while slot h has a handle of a link, servers, domains   *)
(* and default route of that link are all its own, also when calls of other *)
(* slots fail half-way; and a handle of resolv.conf, where domains cannot   *)
(* be expressed, has none.                                                  *)
LiveInForce ==
  \A h \in Handle : pc[h] = "live" =>
    IF h \in conf THEN ~split[h]
                  ELSE \A s \in Setting : link[device[h]][s] = h

(* A close that reports success has taken all settings of its link back,    *)
(* also those an earlier apply left there when it failed.                   *)
CloseOkReverts ==
  [][\A h \in Handle :
       pc[h] \in {"revert", "flush_reverted"} /\ pc'[h] = "idle" /\ result'[h] = "ok"
         => link'[device[h]] = NoLink]_vars
=============================================================================
