--------------------------- MODULE LinuxDnsProofs ---------------------------
(***************************************************************************)
(* Theorems about LinuxDns, for any number of slots and links: programs    *)
(* that name links of their own keep them.                                 *)
(***************************************************************************)
EXTENDS LinuxDns, TLAPS

(* No two slots name the same link; many may name none. *)
LinksOfTheirOwn ==
  \A h, k \in Handle : h # k => TargetsOf[h] \cap TargetsOf[k] \subseteq {NoDevice}

(* The steps of a slot that works on a link, or has a handle of one. *)
OnLink(h) ==
  \/ pc[h] \in {"set_dns", "set_domains", "set_route", "flush", "revert", "flush_reverted"}
  \/ pc[h] = "live" /\ h \notin conf

(* The settings slot h has made when its call is at pc[h]. *)
Made(h) ==
  {s \in Setting : \/ s = "dns" /\ pc[h] \in {"set_domains", "set_route", "flush"}
                   \/ s = "domains" /\ pc[h] \in {"set_route", "flush"}
                   \/ s = "route" /\ pc[h] = "flush"
                   \/ pc[h] = "live" /\ h \notin conf}

Typed ==
  /\ link \in [Link -> [Setting -> Handle \cup {Unset, Other}]]
  /\ conf \subseteq Handle
  /\ pc \in [Handle -> Steps \cup Rest]
  /\ device \in [Handle -> Link \cup {NoDevice}]
  /\ split \in [Handle -> BOOLEAN]
  /\ result \in [Handle -> {"none", "ok", "error"}]

(* What slot h knows of its link and of its way. *)
Knows(h) ==
  /\ OnLink(h) => device[h] \in TargetsOf[h] \ {NoDevice}
  /\ pc[h] = "select" => device[h] \in TargetsOf[h]
  /\ \A s \in Made(h) : link[device[h]][s] = h
  /\ pc[h] = "flush_reverted" => link[device[h]] = NoLink
  /\ h \in conf => pc[h] = "live" /\ ~split[h]

LinkInv == Typed /\ \A h \in Handle : Knows(h)

(* A slot that works on a link works on one of its own. *)
LEMMA Apart ==
  ASSUME LinksOfTheirOwn, LinkInv, NEW h \in Handle, NEW k \in Handle, h # k,
         OnLink(h), OnLink(k)
  PROVE  /\ device[h] \in Link /\ device[k] \in Link
         /\ device[h] # device[k]
<1>1. device[h] \in TargetsOf[h] \ {NoDevice} /\ device[k] \in TargetsOf[k] \ {NoDevice}
  BY DEF LinkInv, Knows
<1> QED BY <1>1 DEF LinksOfTheirOwn, LinkInv, Typed

(* A step of slot h disturbs no other one, if the links it changes are not  *)
(* theirs: its own is all there is to show.                                 *)
LEMMA Frame ==
  ASSUME LinkInv, NEW h \in Handle, Typed', Knows(h)',
         \A k \in Handle \ {h} :
           /\ pc'[k] = pc[k] /\ device'[k] = device[k] /\ split'[k] = split[k]
           /\ k \in conf' <=> k \in conf
           /\ OnLink(k) => link'[device[k]] = link[device[k]]
  PROVE  LinkInv'
<1>1. ASSUME NEW k \in Handle \ {h} PROVE Knows(k)'
  <2>1. Knows(k)
    BY DEF LinkInv
  <2>2. OnLink(k)' = OnLink(k) /\ Made(k)' = Made(k)
    BY DEF OnLink, Made
  <2>3. Made(k) # {} \/ pc[k] = "flush_reverted" => OnLink(k)
    BY DEF Made, OnLink
  <2> QED BY <2>1, <2>2, <2>3 DEF Knows
<1> QED BY <1>1 DEF LinkInv

(* A call that returns without a handle knows nothing any more. *)
LEMMA ReturnKeeps ==
  ASSUME LinkInv, NEW h \in Handle, NEW r \in {"ok", "error"}, Return(h, r),
         conf' \in {conf, conf \ {h}}, h \notin conf',
         link' \in [Link -> [Setting -> Handle \cup {Unset, Other}]],
         \A k \in Handle \ {h} : OnLink(k) => link'[device[k]] = link[device[k]]
  PROVE  LinkInv'
<1>1. Typed'
  BY DEF Typed, LinkInv, Return, Goto, Rest
<1>2. Knows(h)'
  BY DEF Knows, OnLink, Made, Return, Goto, LinkInv, Typed
<1> QED BY <1>1, <1>2, Frame DEF Return, Goto, LinkInv, Typed

(* One of the calls that set a link's DNS. *)
LEMMA CallKeeps ==
  ASSUME LinksOfTheirOwn, LinkInv, NEW h \in Handle, NEW s \in Setting,
         NEW here \in {"set_dns", "set_domains", "set_route"},
         NEW next \in {"set_domains", "set_route", "flush"},
         Call(h, here, s, next),
         here = "set_dns" => s = "dns" /\ next = "set_domains",
         here = "set_domains" => s = "domains" /\ next = "set_route",
         here = "set_route" => s = "route" /\ next = "flush"
  PROVE  LinkInv'
<1>1. OnLink(h) /\ h \notin conf /\ Knows(h) /\ device[h] \in Link
  BY DEF Call, OnLink, LinkInv, Knows, Typed
<1>2. CASE Return(h, "error") /\ UNCHANGED link
  BY <1>1, <1>2, ReturnKeeps DEF Call, LinkInv, Typed
<1>3. CASE Set(h, s) /\ Goto(h, next) /\ UNCHANGED <<device, split, result>>
  <2>1. link' = [link EXCEPT ![device[h]][s] = h] /\ conf' = conf
    BY <1>3 DEF Set, Call
  <2>2. Typed'
    BY <1>1, <1>3, <2>1 DEF Goto, LinkInv, Typed, Steps
  <2>3. Knows(h)'
    <3>1. /\ pc'[h] = next /\ device'[h] = device[h] /\ h \notin conf' /\ pc[h] = here
          /\ link'[device[h]][s] = h
          /\ \A t \in Setting \ {s} : link'[device[h]][t] = link[device[h]][t]
      BY <1>1, <1>3, <2>1 DEF Goto, LinkInv, Typed, Call
    <3>2. Made(h)' \subseteq Made(h) \cup {s}
      BY <1>1, <3>1 DEF Made, Setting
    <3>3. Made(h)' \subseteq Setting
      BY DEF Made, Setting
    <3>4. \A t \in Made(h)' : link'[device'[h]][t] = h
      BY <1>1, <3>1, <3>2, <3>3 DEF Knows
    <3> QED BY <1>1, <3>1, <3>4 DEF Knows, OnLink
  <2>4. \A k \in Handle \ {h} : OnLink(k) => link'[device[k]] = link[device[k]]
    BY <1>1, <2>1, Apart DEF LinkInv, Typed
  <2> QED BY <1>3, <2>1, <2>2, <2>3, <2>4, Frame DEF Goto, LinkInv, Typed
<1> QED BY <1>2, <1>3 DEF Call

LEMMA LinkInit == Init => LinkInv
<1> SUFFICES ASSUME Init PROVE LinkInv
  OBVIOUS
<1>1. link \in [Link -> [Setting -> Handle \cup {Unset, Other}]]
  BY DEF Init
<1>2. Typed
  BY <1>1 DEF Init, Typed, Rest
<1>3. \A h \in Handle : Knows(h)
  BY DEF Init, Knows, OnLink, Made
<1> QED BY <1>2, <1>3 DEF LinkInv

(* Every step keeps what each slot knows of its link. *)
LEMMA LinkStep == ASSUME LinksOfTheirOwn PROVE LinkInv /\ [Next]_vars => LinkInv'
<1> SUFFICES ASSUME LinkInv, [Next]_vars PROVE LinkInv'
  OBVIOUS
<1> USE LinuxAssumption
<1>1. ASSUME NEW h \in Handle, Apply(h) PROVE LinkInv'
  <2>1. PICK d \in TargetsOf[h], b \in BOOLEAN :
           device' = [device EXCEPT ![h] = d] /\ split' = [split EXCEPT ![h] = b]
    BY <1>1 DEF Apply
  <2>2. pc' = [pc EXCEPT ![h] = "select"] /\ link' = link /\ conf' = conf
    BY <1>1 DEF Apply, Goto
  <2>3. Typed'
    BY <1>1, <2>1, <2>2 DEF Apply, LinkInv, Typed, Steps
  <2>4. Knows(h)'
    BY <1>1, <2>1, <2>2 DEF LinkInv, Typed, Knows, OnLink, Made, Apply
  <2> QED BY <2>1, <2>2, <2>3, <2>4, Frame DEF LinkInv, Typed
<1>2. ASSUME NEW h \in Handle, Select(h) PROVE LinkInv'
  <2>1. link' = link /\ pc[h] = "select" /\ h \notin conf /\ Knows(h)
    BY <1>2 DEF Select, LinkInv, Knows
  <2>2. CASE ToResolved(h)
    <3>1. Typed'
      BY <2>1, <2>2 DEF ToResolved, Goto, LinkInv, Typed, Steps
    <3>2. Knows(h)'
      BY <2>1, <2>2 DEF ToResolved, Goto, LinkInv, Typed, Knows, OnLink, Made
    <3> QED BY <2>1, <2>2, <3>1, <3>2, Frame DEF ToResolved, Goto, LinkInv, Typed
  <2>3. CASE ToResolvConf(h)
    <3>1. Typed'
      BY <2>1, <2>3 DEF ToResolvConf, Goto, LinkInv, Typed, Rest
    <3>2. Knows(h)'
      BY <2>1, <2>3 DEF ToResolvConf, Goto, LinkInv, Typed, Knows, OnLink, Made
    <3> QED BY <2>1, <2>3, <3>1, <3>2, Frame DEF ToResolvConf, Goto, LinkInv, Typed
  <2>4. CASE Refuse(h)
    BY <2>1, <2>4, ReturnKeeps DEF Refuse, LinkInv, Typed
  <2> QED BY <1>2, <2>2, <2>3, <2>4 DEF Select
<1>3. ASSUME NEW h \in Handle, SetLinkDNS(h) PROVE LinkInv'
  BY <1>3, CallKeeps DEF SetLinkDNS, Setting
<1>4. ASSUME NEW h \in Handle, SetLinkDomains(h) PROVE LinkInv'
  BY <1>4, CallKeeps DEF SetLinkDomains, Setting
<1>5. ASSUME NEW h \in Handle, SetLinkDefaultRoute(h) PROVE LinkInv'
  BY <1>5, CallKeeps DEF SetLinkDefaultRoute, Setting
<1>6. ASSUME NEW h \in Handle, Flush(h) PROVE LinkInv'
  <2>1. link' = link /\ conf' = conf /\ pc[h] = "flush" /\ h \notin conf /\ Knows(h)
    BY <1>6 DEF Flush, LinkInv, Knows
  <2>2. CASE Return(h, "error")
    BY <2>1, <2>2, ReturnKeeps DEF LinkInv, Typed
  <2>3. CASE Goto(h, "live") /\ UNCHANGED <<device, split, result>>
    <3>1. Typed'
      BY <2>1, <2>3 DEF Goto, LinkInv, Typed, Rest
    <3>2. pc'[h] = "live" /\ h \notin conf' /\ device'[h] = device[h]
      BY <2>1, <2>3 DEF Goto, LinkInv, Typed
    <3>3. OnLink(h)
      BY <2>1 DEF OnLink
    <3>4. \A s \in Made(h)' : s \in Made(h)
      BY <2>1 DEF Made, Setting
    <3>5. Knows(h)'
      BY <2>1, <3>2, <3>3, <3>4 DEF Knows
    <3> QED BY <2>1, <2>3, <3>1, <3>5, Frame DEF Goto, LinkInv, Typed
  <2> QED BY <1>6, <2>2, <2>3 DEF Flush
<1>7. ASSUME NEW h \in Handle, Close(h) PROVE LinkInv'
  <2>1. link' = link /\ pc[h] = "live" /\ Knows(h)
    BY <1>7 DEF Close, LinkInv, Knows
  <2>2. CASE h \in conf
    BY <1>7, <2>1, <2>2, ReturnKeeps DEF Close, LinkInv, Typed
  <2>3. CASE h \notin conf
    <3>1. Typed'
      BY <1>7, <2>1, <2>3 DEF Close, Goto, LinkInv, Typed, Steps
    <3>2. Knows(h)'
      BY <1>7, <2>1, <2>3 DEF Close, Goto, LinkInv, Typed, Knows, OnLink, Made
    <3> QED BY <1>7, <2>1, <2>3, <3>1, <3>2, Frame DEF Close, Goto, LinkInv, Typed
  <2> QED BY <2>2, <2>3
<1>8. ASSUME NEW h \in Handle, RevertLink(h) PROVE LinkInv'
  <2>1. /\ conf' = conf /\ pc[h] = "revert" /\ h \notin conf /\ Knows(h)
        /\ OnLink(h) /\ device[h] \in Link
    BY <1>8 DEF RevertLink, LinkInv, Knows, OnLink, Typed
  <2>2. CASE Return(h, "error") /\ UNCHANGED link
    BY <2>1, <2>2, ReturnKeeps DEF LinkInv, Typed
  <2>3. CASE /\ link' = [link EXCEPT ![device[h]] = NoLink]
             /\ Goto(h, "flush_reverted") /\ UNCHANGED <<device, split, result>>
    <3>1. NoLink \in [Setting -> Handle \cup {Unset, Other}]
      BY DEF NoLink
    <3>2. Typed'
      BY <2>1, <2>3, <3>1 DEF Goto, LinkInv, Typed, Steps
    <3>3. Knows(h)'
      BY <2>1, <2>3 DEF Goto, LinkInv, Typed, Knows, OnLink, Made
    <3>4. \A k \in Handle \ {h} : OnLink(k) => link'[device[k]] = link[device[k]]
      BY <2>1, <2>3, Apart DEF LinkInv, Typed
    <3> QED BY <2>1, <2>3, <3>2, <3>3, <3>4, Frame DEF Goto, LinkInv, Typed
  <2> QED BY <1>8, <2>2, <2>3 DEF RevertLink
<1>9. ASSUME NEW h \in Handle, FlushReverted(h) PROVE LinkInv'
  <2>1. PICK r \in {"ok", "error"} : Return(h, r)
    BY <1>9 DEF FlushReverted
  <2>2. link' = link /\ conf' = conf /\ h \notin conf
    BY <1>9 DEF FlushReverted, LinkInv, Knows
  <2> QED BY <2>1, <2>2, ReturnKeeps DEF LinkInv, Typed
<1>10. CASE UNCHANGED <<link, conf, pc, device, split, result>>
  <2>1. \A h \in Handle : Knows(h)' = Knows(h)
    BY <1>10 DEF Knows, OnLink, Made
  <2> QED BY <1>10, <2>1 DEF LinkInv, Typed
<1> QED BY <1>1, <1>2, <1>3, <1>4, <1>5, <1>6, <1>7, <1>8, <1>9, <1>10
        DEF Next, Environment, vars

(* What each slot knows of its link is true at every step, whatever D-Bus   *)
(* calls fail and however systemd-resolved comes and goes.                  *)
THEOREM LinksKept == ASSUME LinksOfTheirOwn PROVE Spec => []LinkInv
BY LinkInit, LinkStep, PTL DEF Spec

(* A live handle of a link has its servers, its domains and its default     *)
(* route in force there, and one of resolv.conf has no domains.             *)
THEOREM LinkLiveInForce == ASSUME LinksOfTheirOwn PROVE Spec => []LiveInForce
<1>1. LinkInv => LiveInForce
  BY DEF LinkInv, Knows, LiveInForce, Made
<1> QED BY <1>1, LinksKept, PTL

(* A close that reports success has reverted its link, which no other slot  *)
(* has set again between RevertLink and the end of the close.               *)
THEOREM LinkCloseOkReverts == ASSUME LinksOfTheirOwn PROVE Spec => CloseOkReverts
<1>1. LinkInv /\ [Next]_vars =>
        [\A h \in Handle :
           pc[h] \in {"revert", "flush_reverted"} /\ pc'[h] = "idle" /\ result'[h] = "ok"
             => link'[device[h]] = NoLink]_vars
  <2> SUFFICES ASSUME LinkInv, Next, NEW h \in Handle,
                      pc[h] \in {"revert", "flush_reverted"}, pc'[h] = "idle",
                      result'[h] = "ok"
               PROVE  link'[device[h]] = NoLink
    BY DEF vars
  <2>1. ~Environment /\ \A k \in Handle \ {h} : \A l : ~Goto(k, l)
    BY DEF Environment, Goto, LinkInv, Typed
  <2>2. RevertLink(h) \/ FlushReverted(h)
    <3>1. PICK k \in Handle :
            \/ Apply(k) \/ Select(k) \/ SetLinkDNS(k) \/ SetLinkDomains(k)
            \/ SetLinkDefaultRoute(k) \/ Flush(k)
            \/ Close(k) \/ RevertLink(k) \/ FlushReverted(k)
      BY <2>1 DEF Next
    <3>2. k = h
      BY <2>1, <3>1
      DEF Return, Apply, Select, ToResolved, ToResolvConf, Refuse, SetLinkDNS,
          SetLinkDomains, SetLinkDefaultRoute, Call, Flush, Close, RevertLink, FlushReverted
    <3> QED BY <3>1, <3>2
        DEF Apply, Select, SetLinkDNS, SetLinkDomains, SetLinkDefaultRoute, Call, Flush, Close
  <2>3. CASE RevertLink(h)
    BY <2>3 DEF RevertLink, Goto, Return, LinkInv, Typed
  <2>4. CASE FlushReverted(h)
    BY <2>4 DEF FlushReverted, LinkInv, Knows
  <2> QED BY <2>2, <2>3, <2>4
<1> QED BY <1>1, LinksKept, PTL DEF Spec, CloseOkReverts
=============================================================================
