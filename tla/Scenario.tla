------------------------------ MODULE Scenario ------------------------------
(***************************************************************************)
(* The integration test (test-runner/src/main.rs, scenario.rs): it starts  *)
(* the DNS server of TestDns, applies a configuration that points to it,   *)
(* looks names up through the system's resolver until they resolve as they *)
(* should, closes the handle, and looks again.  The back end under test    *)
(* may do anything: send any names to the server, fail, or restore nothing *)
(* and say nothing.                                                        *)
(*                                                                         *)
(* The plan has one name of each kind: "overlay" and "forward" lie in the  *)
(* domains of a split configuration, "outside" does not, and "static" is   *)
(* one that exists.                                                        *)
(***************************************************************************)
EXTENDS TestDns

CONSTANTS
  Modes,        \* values of ScenarioOptions.mode: "global", "split"
  Tuns,         \* values of ScenarioOptions.tun
  ParentLists,  \* what select_parent_dns may find
  Attempts,     \* DNS_POLL_ATTEMPTS
  Sends         \* how often the system's resolver sends a query

ASSUME ScenarioAssumption ==
  /\ Name = {"overlay", "forward", "outside", "static"} /\ Overlay = {"overlay"}
  /\ Modes \subseteq {"global", "split"}
  /\ Tuns \subseteq BOOLEAN
  /\ ParentLists \subseteq Seq(Address)
  /\ Attempts \in Nat \ {0} /\ Sends \in Nat \ {0}

VARIABLES
  mode, tun,   \* the options
  target,      \* the names the back end has configured to go to the server
  routes,      \* those that the system's resolver sends there by now
  tunUp,       \* does the TUN device exist?
  pc,          \* where run is
  case,        \* the case of the plan that is looked at
  try,         \* attempt + 1 of wait_for_system_dns
  sends,       \* how often the query was sent
  answer,      \* what the lookup gave: "unasked", "pending", "overlay",
               \* "addresses", "nothing", or "failed"
  passed,      \* passed[p]: the attempt that passed in phase p, 0 for none
  applied,     \* history: target after SetDns::apply
  hindered,    \* history: attempts with a lookup that timed out, or for which
               \* the resolver had not yet taken up the configuration
  exit         \* the exit code, "none" while the test runs

runner == <<mode, tun, target, routes, tunUp, pc, case, try, sends, answer,
            passed, applied, hindered, exit>>
vars   == <<runner, server>>

Phases == {"assert", "verify"}

(* The plan; run_restore_assertions looks at the overlay names only. *)
Cases(p) == IF p = "assert" THEN <<"overlay", "forward", "outside", "static">>
                            ELSE <<"overlay">>

(* The names a correct back end sends to the server. *)
Expected == IF mode = "global" THEN Name ELSE Name \ {"outside"}

-----------------------------------------------------------------------------
name    == Cases(pc)[case]
attempt == <<pc, try>>

(* The packets of one lookup; a resolver takes no response to another one. *)
Query == [name |-> name, attempt |-> attempt, from |-> "resolver"]

(* What a name resolves to where nobody overlays it. *)
Genuine(n) == IF n = "static" THEN "addresses" ELSE "nothing"

Answered == answer \notin {"unasked", "pending"}

(* Slip: a name outside the domains is to be seen in every mode. *)
RouteUsesTestDnsAlways(n) == n = "forward" \/ n = "outside"

RouteUsesTestDns(n) == n = "forward" \/ (n = "outside" /\ mode = "global")

(* Slip: the server need not have been asked for the name. *)
CountedOrNot(byName) == TRUE

(* expect_overlay_counter, expect_forward_counter; expect_no_name_counter *)
Counted(byName) == name \in seen \cap byName

Uncounted == name \notin seen

(* assert_case *)
CasePasses ==
  CASE name = "overlay" -> answer = "overlay" /\ Counted(overlaid)
    [] name \in {"forward", "outside"} ->
         IF RouteUsesTestDns(name) THEN Counted(forwarded) ELSE Uncounted
    [] name = "static" -> answer \in {"overlay", "addresses"}

(* expect_not_overlay: that the lookup fails is as good. *)
NotOverlay == answer # "overlay"

Passes == IF pc = "assert" THEN CasePasses ELSE NotOverlay

(* The test ends, and drops its server. *)
Exit(e) ==
  /\ exit' = e
  /\ pc' = "done" /\ case' = 1 /\ try' = 1 /\ sends' = 0 /\ answer' = "unasked"
  /\ serving' = FALSE
  /\ UNCHANGED <<parents, socket, cur, at, waiting, asked, reply, counters>>

(* The next lookup is of case c, in attempt t of phase p. *)
Look(p, c, t) ==
  /\ pc' = p /\ case' = c /\ try' = t
  /\ sends' = 0
  /\ answer' = "unasked"

(* The query is sent, and lost where the server is out of reach. *)
Send ==
  /\ sends' = sends + 1
  /\ IF tun => tunUp THEN Arrives(Query) ELSE UNCHANGED socket

Answer(a) ==
  /\ answer' = a
  /\ hindered' = hindered \cup (IF a = "failed" \/ routes # target THEN {attempt} ELSE {})

(* Slip: attempts are not counted. *)
TryAgainForever ==
  /\ pc \in Phases /\ Answered /\ ~Passes
  /\ Look(pc, 1, try)
  /\ UNCHANGED <<mode, tun, target, routes, tunUp, passed, applied, hindered, exit, server>>

-----------------------------------------------------------------------------
(* env_guard, select_parent_dns, create_tun_if_requested and the binding of *)
(* the server's socket may each end the test.                               *)
Refuse ==
  /\ pc = "start"
  /\ Exit("unsupported")
  /\ UNCHANGED <<mode, tun, target, routes, tunUp, passed, applied, hindered>>

Start ==
  /\ pc = "start" /\ ValidParents(parents)
  /\ tunUp' = tun
  /\ serving' = TRUE
  /\ pc' = "apply"
  /\ UNCHANGED <<mode, tun, target, routes, case, try, sends, answer, passed, applied,
                 hindered, exit, parents, socket, cur, at, waiting, asked, reply, counters>>

(* SetDns::apply: the names that are to go to the server may be any. *)
Apply ==
  /\ pc = "apply"
  /\ target' \in SUBSET Name
  /\ applied' = target'
  /\ Look("assert", 1, 1)
  /\ UNCHANGED <<mode, tun, routes, tunUp, passed, hindered, exit, server>>

ApplyFails ==
  /\ pc = "apply"
  /\ Exit("unsupported")
  /\ UNCHANGED <<mode, tun, target, routes, tunUp, passed, applied, hindered>>

(* The system's resolver takes up the configuration, sooner or later. *)
Settle ==
  /\ exit = "none" /\ routes # target
  /\ routes' = target
  /\ hindered' = hindered \cup (IF answer = "pending" THEN {attempt} ELSE {})
  /\ UNCHANGED <<mode, tun, target, tunUp, pc, case, try, sends, answer, passed, applied,
                 exit, server>>

-----------------------------------------------------------------------------
(* resolve_system_ips, of a name that the resolver sends to the server. *)
AskServer ==
  /\ pc \in Phases /\ answer = "unasked" /\ name \in routes
  /\ answer' = "pending"
  /\ Send
  /\ UNCHANGED <<mode, tun, target, routes, tunUp, pc, case, try, passed, applied, hindered,
                 exit, serving, parents, cur, at, waiting, asked, reply, counters>>

AskAgain ==
  /\ answer = "pending" /\ sends < Sends
  /\ Send
  /\ UNCHANGED <<mode, tun, target, routes, tunUp, pc, case, try, answer, passed, applied,
                 hindered, exit, serving, parents, cur, at, waiting, asked, reply, counters>>

(* The response to the lookup. *)
Deliver ==
  /\ answer = "pending" /\ reply # Nothing /\ reply.query = Query
  /\ Answer(IF reply.answers.name \in Overlay THEN "overlay" ELSE Genuine(reply.answers.name))
  /\ UNCHANGED <<mode, tun, target, routes, tunUp, pc, case, try, sends, passed, applied, exit,
                 server>>

(* A name that goes to the other servers of the system. *)
AskOthers ==
  /\ pc \in Phases /\ answer = "unasked" /\ name \notin routes
  /\ \E a \in {Genuine(name), "failed"} : Answer(a)
  /\ UNCHANGED <<mode, tun, target, routes, tunUp, pc, case, try, sends, passed, applied, exit,
                 server>>

(* The resolver gives up. *)
LookupTimesOut ==
  /\ answer = "pending"
  /\ Answer("failed")
  /\ UNCHANGED <<mode, tun, target, routes, tunUp, pc, case, try, sends, passed, applied, exit,
                 server>>

-----------------------------------------------------------------------------
NextCase ==
  /\ pc \in Phases /\ Answered /\ Passes
  /\ case < Len(Cases(pc))
  /\ Look(pc, case + 1, try)
  /\ UNCHANGED <<mode, tun, target, routes, tunUp, passed, applied, hindered, exit, server>>

(* The next attempt, from the first case on; counters are never reset. *)
TryAgain ==
  /\ pc \in Phases /\ Answered /\ ~Passes
  /\ try < Attempts
  /\ Look(pc, 1, try + 1)
  /\ UNCHANGED <<mode, tun, target, routes, tunUp, passed, applied, hindered, exit, server>>

(* wait_for_system_dns returns: with the first attempt that passes all the  *)
(* cases, or with the error of the last one.                                *)
PhaseOver == Answered /\ IF Passes THEN case = Len(Cases(pc)) ELSE try = Attempts

Result == [passed EXCEPT ![pc] = IF Passes THEN try ELSE 0]

Asserted ==
  /\ pc = "assert" /\ PhaseOver
  /\ passed' = Result
  /\ Look("close", 1, 1)
  /\ UNCHANGED <<mode, tun, target, routes, tunUp, applied, hindered, exit, server>>

(* handle.close() reports success, whether or not it has restored anything; *)
(* the TUN device is dropped before the restoration is looked at.           *)
Close ==
  /\ pc = "close"
  /\ target' \in {{}, target}
  /\ tunUp' = FALSE
  /\ Look("verify", 1, 1)
  /\ UNCHANGED <<mode, tun, routes, passed, applied, hindered, exit, server>>

CloseFails ==
  /\ pc = "close"
  /\ Exit("restore_failed")
  /\ UNCHANGED <<mode, tun, target, routes, tunUp, passed, applied, hindered>>

(* merge_assertions, and exit_code of main *)
Finish ==
  /\ pc = "verify" /\ PhaseOver
  /\ passed' = Result
  /\ Exit(IF \A p \in Phases : passed'[p] # 0 THEN "pass" ELSE "assertion_failed")
  /\ UNCHANGED <<mode, tun, target, routes, tunUp, applied, hindered>>

-----------------------------------------------------------------------------
Init ==
  /\ ServerInit
  /\ mode \in Modes /\ tun \in Tuns /\ parents \in ParentLists
  /\ target = {} /\ routes = {} /\ applied = {}
  /\ tunUp = FALSE
  /\ pc = "start" /\ case = 1 /\ try = 1 /\ sends = 0 /\ answer = "unasked"
  /\ passed = [p \in Phases |-> 0]
  /\ hindered = {}
  /\ exit = "none"

(* The steps of the test, which a lookup ends by a timeout at the latest. *)
RunnerStep ==
  \/ Refuse \/ Start \/ Apply \/ ApplyFails
  \/ AskServer \/ Deliver \/ AskOthers \/ LookupTimesOut
  \/ NextCase \/ TryAgain \/ Asserted \/ Close \/ CloseFails \/ Finish

Next ==
  \/ RunnerStep \/ AskAgain \/ Settle
  \/ ServerStep /\ UNCHANGED runner

Spec == Init /\ [][Next]_vars

(* The test's own thread is scheduled, and getaddrinfo returns. *)
FairSpec == Spec /\ WF_vars(RunnerStep)
-----------------------------------------------------------------------------
Queries == [name : Name, attempt : Phases \X (1..Attempts), from : Address \cup {"resolver"}]

(* The runner is in one of its places, and the loop in forward_query has a  *)
(* parent in turn, or is past the last one.                                 *)
TypeOK ==
  /\ mode \in Modes /\ tun \in Tuns /\ parents \in ParentLists
  /\ target \subseteq Name /\ routes \subseteq Name /\ applied \subseteq Name
  /\ tunUp => tun
  /\ pc \in Phases \cup {"start", "apply", "close", "done"}
  /\ case \in 1..4 /\ try \in 1..Attempts /\ sends \in 0..Sends
  /\ answer \in {"unasked", "pending", "overlay", "addresses", "nothing", "failed"}
  /\ passed \in [Phases -> 0..Attempts]
  /\ hindered \subseteq Phases \X (1..Attempts)
  /\ exit \in {"none", "pass", "assertion_failed", "unsupported", "restore_failed"}
  /\ Len(socket) <= Room /\ \A i \in DOMAIN socket : socket[i] \in Queries
  /\ cur \in Queries \cup {Nothing}
  /\ at \in 0..(Len(parents) + 1) /\ (waiting => at \in DOMAIN parents)
  /\ \A a \in asked : a.query \in Queries /\ a.parent \in DOMAIN parents
  /\ seen \subseteq Name /\ overlaid \subseteq seen \cap Overlay
  /\ forwarded \subseteq seen \ Overlay

Unhindered(p) == <<p, passed[p]>> \notin hindered

(* "pass" (run, merge_assertions): the overlay and the forwarded names went *)
(* to the server, in global mode the outside name as well; and where no     *)
(* lookup of the attempts that passed timed out, in split mode the outside  *)
(* name did not, and the overlay name no longer does after close.           *)
PassIsEarned ==
  exit = "pass" =>
    /\ {"overlay", "forward"} \subseteq applied
    /\ mode = "global" => "outside" \in applied
    /\ mode = "split" /\ Unhindered("assert") => "outside" \notin applied
    /\ Unhindered("verify") => "overlay" \notin routes

(* "assertion_failed": the back end sent the wrong names, or went on after  *)
(* close; or the last attempt of a phase was hindered.  What an earlier     *)
(* attempt left in the counters, in the socket and in the loop fails none.  *)
NoFalseAlarm ==
  exit = "assertion_failed" =>
    \/ applied # Expected
    \/ "overlay" \in target
    \/ \E p \in Phases : passed[p] = 0 /\ <<p, Attempts>> \in hindered

(* DNS_POLL_ATTEMPTS bounds the test: whatever the back end, the resolver   *)
(* and the parents do, it ends with an exit code.                           *)
RunEnds == <>(exit # "none")
=============================================================================
