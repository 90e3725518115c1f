--------------------------- MODULE ScenarioProofs ---------------------------
(***************************************************************************)
(* Theorems about the integration test and its DNS server, for any number  *)
(* of attempts, of packets and of parents, and any back end under test.    *)
(***************************************************************************)
EXTENDS Scenario, TLAPS

RunnerTypes ==
  /\ mode \in Modes /\ tun \in Tuns
  /\ target \subseteq Name /\ routes \subseteq Name /\ applied \subseteq Name
  /\ tunUp \in BOOLEAN /\ (tunUp => tun)
  /\ pc \in Phases \cup {"start", "apply", "close", "done"}
  /\ case \in 1..4 /\ try \in 1..Attempts /\ sends \in 0..Sends
  /\ answer \in {"unasked", "pending", "overlay", "addresses", "nothing", "failed"}
  /\ passed \in [Phases -> 0..Attempts]
  /\ hindered \subseteq Phases \X (1..Attempts)
  /\ exit \in {"none", "pass", "assertion_failed", "unsupported", "restore_failed"}

(* What belongs to each place of the runner. *)
Places ==
  /\ exit = "none" <=> pc # "done"
  /\ pc \in {"start", "apply"} => applied = {}
  /\ target \subseteq applied /\ routes \subseteq applied
  /\ pc \in {"assert", "close"} => target = applied
  /\ answer # "unasked" => pc \in Phases
  /\ answer = "unasked" => sends = 0
  /\ answer = "pending" => name \in applied
  /\ pc # "assert" => case = 1

(* A query of the resolver, or one that a parent hands back, for a name that *)
(* the back end has configured.                                             *)
Own(q) == /\ q \in Queries /\ q.name \in applied
          /\ q.from = "resolver" \/ q.from \in Unnoticed

(* The server has answered a query for name n and has counted it.           *)
Handled(n) == n \in seen /\ (IF n \in Overlay THEN n \in overlaid ELSE n \in forwarded)

Serves ==
  /\ parents \in ParentLists /\ (serving => ValidParents(parents))
  /\ socket \in Seq(Queries) /\ Len(socket) <= Room
  /\ \A i \in DOMAIN socket : Own(socket[i])
  /\ cur # Nothing => Own(cur) /\ cur.name \in seen
  /\ at \in 0..(Len(parents) + 1) /\ (waiting => at \in DOMAIN parents)
  /\ at # 0 => cur # Nothing /\ cur.name \notin Overlay /\ cur.name \in forwarded
  /\ \A a \in asked : Own(a.query) /\ a.parent \in DOMAIN parents
  /\ reply # Nothing => reply.answers = reply.query /\ Handled(reply.query.name)
  /\ seen \subseteq applied
  /\ overlaid \subseteq seen \cap Overlay /\ forwarded \subseteq seen \ Overlay

(* The answer of a lookup tells where its name goes, in an attempt that     *)
(* nothing hindered, and one that goes to the server was handled there.     *)
Tells ==
  pc \in Phases /\ attempt \notin hindered =>
    /\ answer = "pending" => name \in routes
    /\ Answered =>
         /\ routes = target
         /\ answer = IF name \in routes \cap Overlay THEN "overlay" ELSE Genuine(name)
         /\ name \in routes => Handled(name)

(* What the cases of an attempt that have passed have shown. *)
Shown(c, unhindered) ==
  /\ c > 1 => "overlay" \in seen
  /\ c > 2 => "forward" \in seen
  /\ c > 3 => /\ mode = "global" => "outside" \in seen
              /\ mode = "split" /\ unhindered => "outside" \notin applied

(* What the phases that are over have shown.                                *)
Asserts ==
  /\ passed["assert"] # 0 => Shown(4, Unhindered("assert"))
  /\ passed["assert"] = 0 /\ applied = Expected => <<"assert", Attempts>> \in hindered

Verifies ==
  /\ exit = "pass" =>
       /\ passed["assert"] # 0
       /\ Unhindered("verify") => "overlay" \notin routes
  /\ exit = "assertion_failed" =>
       \/ passed["assert"] = 0
       \/ "overlay" \in target
       \/ passed["verify"] = 0 /\ <<"verify", Attempts>> \in hindered

Learns ==
  /\ pc = "assert" => Shown(case, attempt \notin hindered)
  /\ pc \in {"close", "verify"} \/ exit \in {"pass", "assertion_failed"} => Asserts
  /\ Verifies

TestInv == RunnerTypes /\ Places /\ Serves /\ Tells /\ Learns

-----------------------------------------------------------------------------
(* A packet that arrives, or finds the socket full. *)
LEMMA ServesArrival ==
  ASSUME Serves, applied' = applied, NEW q, Own(q), Arrives(q) \/ UNCHANGED socket,
         UNCHANGED <<serving, parents, cur, at, waiting, asked, reply, counters>>
  PROVE  Serves'
<1>1. socket' = socket \/ (socket' = Append(socket, q) /\ Len(socket) < Room)
  BY DEF Arrives
<1>2. q \in Queries
  BY DEF Own
<1>3. socket' \in Seq(Queries) /\ Len(socket') <= Room
  BY <1>1, <1>2, TestDnsAssumption DEF Serves
<1>4. ASSUME NEW i \in DOMAIN socket' PROVE Own(socket'[i])
  <2>1. socket'[i] = q \/ (i \in DOMAIN socket /\ socket'[i] = socket[i])
    BY <1>1, <1>2, <1>4 DEF Serves
  <2> QED BY <2>1 DEF Serves
<1> QED BY <1>3, <1>4 DEF Serves, Own, Unnoticed, Handled, counters

(* A step of the server keeps what it knows of queries, and counts up.      *)
LEMMA ServerKeeps ==
  ASSUME Serves, ServerStep, applied' = applied
  PROVE  /\ Serves'
         /\ seen \subseteq seen' /\ overlaid \subseteq overlaid' /\ forwarded \subseteq forwarded'
<1>p. parents \in Seq(Address) /\ Len(parents) \in Nat /\ DOMAIN parents = 1..Len(parents)
  BY ScenarioAssumption DEF Serves
<1>q. parents' = parents => Unnoticed' = Unnoticed
  BY DEF Unnoticed
<1> USE <1>q DEF Own, Handled, counters
<1>1. CASE Receive
  <2>1. /\ socket # <<>> /\ socket \in Seq(Queries)
        /\ cur' = Head(socket) /\ socket' = Tail(socket) /\ cur = Nothing
        /\ seen' = seen \cup {Head(socket).name}
        /\ UNCHANGED <<serving, parents, at, waiting, asked, reply, overlaid, forwarded>>
    BY <1>1 DEF Receive, Serves
  <2>2. Own(Head(socket))
    BY <2>1 DEF Serves
  <2>3. /\ socket' \in Seq(Queries) /\ Len(socket') <= Room
        /\ \A i \in DOMAIN socket' : Own(socket'[i])
    <3>1. Len(socket') = Len(socket) - 1 /\ \A i \in DOMAIN socket' : socket'[i] = socket[i + 1]
      BY <2>1
    <3>2. \A i \in DOMAIN socket' : i + 1 \in DOMAIN socket
      BY <2>1, <3>1
    <3> QED BY <2>1, <3>1, <3>2, TestDnsAssumption DEF Serves
  <2>4. at = 0
    BY <2>1 DEF Serves
  <2>5. seen' \subseteq applied /\ overlaid \subseteq seen' \cap Overlay
    BY <2>1, <2>2 DEF Serves
  <2> QED BY <2>1, <2>2, <2>3, <2>4, <2>5 DEF Serves
<1>2. CASE AnswerOverlay
  <2>1. /\ cur # Nothing /\ cur.name \in Overlay
        /\ overlaid' = overlaid \cup {cur.name}
        /\ reply'.query = cur /\ reply'.answers = cur
        /\ cur' = Nothing /\ at' = 0 /\ waiting' = FALSE
        /\ UNCHANGED <<serving, parents, socket, asked, seen, forwarded>>
    BY <1>2 DEF AnswerOverlay, Done
  <2> QED BY <2>1, <1>p DEF Serves
<1>3. CASE Forward
  <2>1. /\ cur # Nothing /\ cur.name \notin Overlay /\ cur.name \in seen
        /\ forwarded' = forwarded \cup {cur.name} /\ at' = 1 /\ at = 0
        /\ UNCHANGED <<serving, parents, socket, cur, waiting, asked, reply, seen, overlaid>>
    BY <1>3 DEF Forward, Serves
  <2> QED BY <2>1, <1>p DEF Serves
<1>4. CASE AskParent
  <2>1. /\ at \in DOMAIN parents /\ cur # Nothing /\ Own(cur)
        /\ UNCHANGED <<serving, parents, socket, cur, reply, counters>>
    BY <1>4, <1>p DEF AskParent, Serves
  <2>2. CASE waiting' = TRUE /\ asked' = asked \cup {Question} /\ UNCHANGED at
    <3>1. Question.query = cur /\ Question.parent = at
      BY DEF Question
    <3> QED BY <2>1, <2>2, <3>1 DEF Serves
  <2>3. CASE at' = at + 1 /\ UNCHANGED <<waiting, asked>>
    BY <1>4, <1>p, <2>1, <2>3 DEF AskParent, Serves
  <2> QED BY <1>4, <2>2, <2>3 DEF AskParent
<1>5. CASE Timeout
  <2>1. /\ at \in DOMAIN parents /\ at' = at + 1 /\ cur # Nothing /\ Own(cur)
        /\ waiting' = FALSE /\ asked' \subseteq asked \cup {Question}
        /\ UNCHANGED <<serving, parents, socket, cur, reply, counters>>
    BY <1>5, <1>p DEF Timeout, Serves
  <2>2. Question.query = cur /\ Question.parent = at
    BY DEF Question
  <2> QED BY <1>p, <2>1, <2>2 DEF Serves
<1>6. CASE GiveUp
  BY <1>6, <1>p DEF GiveUp, Done, Serves
<1>7. CASE ParentAnswers
  <2>1. PICK a \in asked :
          /\ asked' = asked \ {a}
          /\ IF Awaits(a)
               THEN reply' = [query |-> cur, answers |-> a.query] /\ Done
               ELSE UNCHANGED <<reply, cur, at, waiting>>
    BY <1>7 DEF ParentAnswers
  <2>2. UNCHANGED <<serving, parents, socket, counters>>
    BY <1>7 DEF ParentAnswers
  <2>3. CASE Awaits(a)
    <3>1. a.query = cur /\ waiting
      BY <2>3 DEF Awaits, Question
    <3>2. at \in DOMAIN parents /\ at # 0
      BY <1>p, <3>1 DEF Serves
    <3>3. reply' = [query |-> cur, answers |-> a.query]
      BY <2>1, <2>3
    <3>4. reply'.query = cur /\ reply'.answers = cur
      BY <3>1, <3>3
    <3>5. Handled(cur.name)
      BY <3>2 DEF Serves
    <3> QED BY <1>p, <2>1, <2>2, <2>3, <3>4, <3>5 DEF Serves, Done
  <2>4. CASE ~Awaits(a)
    BY <2>1, <2>2, <2>4 DEF Serves
  <2> QED BY <2>3, <2>4
<1>8. CASE Echo
  <2>1. PICK a \in asked :
          /\ parents[a.parent] \in LeadsBack
          /\ Arrives([a.query EXCEPT !.from = parents[a.parent]])
    BY <1>8 DEF Echo
  <2>2. serving /\ UNCHANGED <<serving, parents, cur, at, waiting, asked, reply, counters>>
    BY <1>8 DEF Echo
  <2> DEFINE e == [a.query EXCEPT !.from = parents[a.parent]]
  <2>3. Own(a.query) /\ a.parent \in DOMAIN parents
    BY DEF Serves
  <2>4. parents[a.parent] \in Unnoticed /\ parents[a.parent] \in Address
    BY <1>p, <2>1, <2>2, <2>3 DEF Serves, ValidParents, Unnoticed
  <2>5. e \in Queries /\ e.name = a.query.name /\ e.from = parents[a.parent]
    BY <2>3, <2>4 DEF Queries
  <2>6. Own(e)
    BY <2>3, <2>4, <2>5
  <2> HIDE DEF e
  <2> QED BY <2>1, <2>2, <2>6, ServesArrival DEF e
<1> QED BY <1>1, <1>2, <1>3, <1>4, <1>5, <1>6, <1>7, <1>8 DEF ServerStep, LoopStep

(* The runner learns from counters that only grow.                          *)
LEMMA ServerStepInv == TestInv /\ ServerStep /\ UNCHANGED runner => TestInv'
<1> SUFFICES ASSUME TestInv, ServerStep, UNCHANGED runner PROVE TestInv'
  OBVIOUS
<1>1. /\ Serves'
      /\ seen \subseteq seen' /\ overlaid \subseteq overlaid' /\ forwarded \subseteq forwarded'
  BY ServerKeeps DEF TestInv, runner
<1>2. RunnerTypes' /\ Places'
  BY DEF TestInv, RunnerTypes, Places, runner, name, Cases
<1>3. name' = name /\ attempt' = attempt /\ Answered' = Answered /\ Expected' = Expected
  BY DEF runner, name, attempt, Answered, Expected, Cases
<1>4. Tells'
  BY <1>1, <1>3 DEF TestInv, Tells, Handled, runner, Genuine
<1>5. Learns'
  BY <1>1, <1>3 DEF TestInv, Learns, Asserts, Verifies, Shown, Unhindered, runner
<1> QED BY <1>1, <1>2, <1>4, <1>5 DEF TestInv

(* Initially nothing was configured and nobody has asked.                   *)
LEMMA TestInit == Init => TestInv
<1> SUFFICES ASSUME Init PROVE TestInv
  OBVIOUS
<1>1. RunnerTypes
  <2>1. 1 \in 1..4 /\ 1 \in 1..Attempts /\ 0 \in 0..Sends /\ 0 \in 0..Attempts
    BY ScenarioAssumption
  <2>2. passed \in [Phases -> 0..Attempts]
    BY <2>1 DEF Init
  <2>3. tunUp \in BOOLEAN /\ ~tunUp
    BY DEF Init
  <2> QED BY <2>1, <2>2, <2>3 DEF Init, RunnerTypes
<1>2. Places
  BY DEF Init, Places
<1>3. parents \in Seq(Address) /\ Len(parents) \in Nat
  BY ScenarioAssumption DEF Init
<1>4. Serves
  BY <1>3, TestDnsAssumption DEF Init, ServerInit, Serves, Own
<1>5. Tells /\ Learns
  BY DEF Init, Tells, Learns, Verifies, Phases
<1> QED BY <1>1, <1>2, <1>4, <1>5 DEF TestInv

-----------------------------------------------------------------------------
(* The case that is looked at. *)
LEMMA NameIs ==
  ASSUME RunnerTypes, Places, pc \in Phases
  PROVE  /\ name \in Name /\ attempt \in Phases \X (1..Attempts)
         /\ name = (IF case = 1 THEN "overlay" ELSE IF case = 2 THEN "forward"
                    ELSE IF case = 3 THEN "outside" ELSE "static")
         /\ pc = "assert" => Len(Cases(pc)) = 4
         /\ pc = "verify" => Len(Cases(pc)) = 1 /\ case = 1
<1>1. pc = "assert" \/ pc = "verify"
  BY DEF Phases
<1>2. name = IF case = 1 THEN "overlay" ELSE IF case = 2 THEN "forward"
             ELSE IF case = 3 THEN "outside" ELSE "static"
  BY <1>1 DEF RunnerTypes, Places, name, Cases
<1>3. attempt \in Phases \X (1..Attempts)
  BY DEF attempt, RunnerTypes
<1>4. name \in Name
  BY <1>2, ScenarioAssumption
<1> QED BY <1>2, <1>3, <1>4 DEF Cases, Places

(* The server between two of its own steps. *)
LEMMA ServesSame ==
  ASSUME Serves, applied \subseteq applied', serving' => ValidParents(parents),
         UNCHANGED <<parents, socket, cur, at, waiting, asked, reply, counters>>
  PROVE  Serves'
BY DEF Serves, Own, Unnoticed, Handled, counters

LEMMA QueryOwn ==
  ASSUME RunnerTypes, Places, pc \in Phases, name \in applied
  PROVE  Own(Query)
BY NameIs DEF Own, Query, Queries

(* The runner leaves what earlier phases have shown. *)
LEMMA ShownKept ==
  ASSUME Asserts, hindered \subseteq hindered', UNCHANGED <<mode, passed, applied, seen>>
  PROVE  Asserts'
BY DEF Asserts, Shown, Unhindered, Expected

(* An attempt that nothing hindered passes all its cases if the back end    *)
(* has configured what it should.                                           *)
LEMMA GoodPasses ==
  ASSUME TestInv, pc = "assert", Answered, attempt \notin hindered, applied = Expected
  PROVE  CasePasses
<1>1. /\ routes = applied
      /\ answer = IF name \in routes \cap Overlay THEN "overlay" ELSE Genuine(name)
      /\ name \in routes => Handled(name)
  BY DEF TestInv, Tells, Phases, Places
<1>2. /\ name \in Name /\ seen \subseteq applied
      /\ applied = IF mode = "global" THEN Name ELSE Name \ {"outside"}
  BY NameIs DEF TestInv, Expected, Phases, Serves
<1>3. Overlay = {"overlay"} /\ Name = {"overlay", "forward", "outside", "static"}
  BY ScenarioAssumption
<1>4. CASE name = "overlay"
  BY <1>1, <1>2, <1>3, <1>4 DEF CasePasses, Counted, Handled
<1>5. CASE name = "forward"
  BY <1>1, <1>2, <1>3, <1>5 DEF CasePasses, Counted, Handled, RouteUsesTestDns
<1>6. CASE name = "outside"
  BY <1>1, <1>2, <1>3, <1>6 DEF CasePasses, Counted, Uncounted, Handled, RouteUsesTestDns
<1>7. CASE name = "static"
  BY <1>1, <1>2, <1>3, <1>7 DEF CasePasses, Genuine
<1> QED BY <1>2, <1>3, <1>4, <1>5, <1>6, <1>7

(* The test ends without a verdict. *)
LEMMA ExitInv ==
  ASSUME TestInv, NEW e \in {"unsupported", "restore_failed"}, Exit(e),
         UNCHANGED <<mode, tun, target, routes, passed, applied, hindered>>,
         tunUp' = tunUp
  PROVE  TestInv'
<1>1. /\ exit' = e /\ pc' = "done" /\ case' = 1 /\ try' = 1 /\ sends' = 0
      /\ answer' = "unasked" /\ serving' = FALSE
      /\ UNCHANGED <<parents, socket, cur, at, waiting, asked, reply, counters>>
  BY DEF Exit
<1>2. RunnerTypes'
  BY <1>1, ScenarioAssumption DEF TestInv, RunnerTypes
<1>3. Places'
  BY <1>1 DEF TestInv, Places
<1>4. Serves'
  BY <1>1, ServesSame DEF TestInv
<1>5. Tells' /\ Learns'
  BY <1>1 DEF Tells, Learns, Verifies, Phases
<1> QED BY <1>2, <1>3, <1>4, <1>5 DEF TestInv

(* The lookups: the answer to one, in an attempt that nothing hindered.     *)
LEMMA AnswerInv ==
  ASSUME TestInv, pc \in Phases, answer \in {"unasked", "pending"},
         NEW a \in {"overlay", "addresses", "nothing", "failed"}, Answer(a),
         attempt \notin hindered /\ a # "failed" =>
           /\ a = IF name \in routes \cap Overlay THEN "overlay" ELSE Genuine(name)
           /\ name \in routes => Handled(name),
         UNCHANGED <<mode, tun, target, routes, tunUp, pc, case, try, sends, passed, applied, exit,
                 server>>
  PROVE  TestInv'
<1>1. /\ answer' = a
      /\ hindered' = hindered \cup (IF a = "failed" \/ routes # target THEN {attempt} ELSE {})
  BY DEF Answer
<1>2. name' = name /\ attempt' = attempt
  BY DEF name, attempt
<1>3. attempt \in Phases \X (1..Attempts)
  BY NameIs DEF TestInv
<1>4. hindered' \subseteq Phases \X (1..Attempts)
  BY <1>1, <1>3 DEF TestInv, RunnerTypes
<1>5. RunnerTypes'
  BY <1>1, <1>4 DEF TestInv, RunnerTypes
<1>6. Places'
  BY <1>1 DEF TestInv, Places
<1>7. Serves'
  BY ServesSame DEF TestInv, Serves, server, counters
<1>8. Tells'
  BY <1>1, <1>2 DEF Tells, Answered, Handled, server, counters, Genuine
<1>9. Learns'
  <2>1. exit' = "none"
    BY DEF TestInv, Places, Phases
  <2>2. pc = "assert" => Shown(case, attempt \notin hindered)'
    <3>1. attempt' \notin hindered' => attempt \notin hindered
      BY <1>1, <1>2
    <3> QED BY <3>1 DEF TestInv, Learns, Shown, server, counters
  <2>3. pc \in {"close", "verify"} => Asserts'
    <3>1. hindered \subseteq hindered'
      BY <1>1
    <3> QED BY <3>1, ShownKept DEF TestInv, Learns, server, counters
  <2> QED BY <2>1, <2>2, <2>3 DEF Learns, Verifies
<1> QED BY <1>5, <1>6, <1>7, <1>8, <1>9 DEF TestInv

LEMMA LookupStep ==
  ASSUME TestInv, AskServer \/ AskAgain \/ Deliver \/ AskOthers \/ LookupTimesOut
  PROVE  TestInv'
<1>t. RunnerTypes /\ Places /\ Serves
  BY DEF TestInv
<1>n. pc \in Phases => name \in Name /\ Genuine(name) \in {"addresses", "nothing"}
  BY <1>t, NameIs DEF Genuine
<1>1. ASSUME AskServer \/ AskAgain PROVE TestInv'
  <2>1. /\ pc \in Phases /\ name \in applied /\ answer \in {"unasked", "pending"}
        /\ answer = "unasked" => name \in routes
        /\ sends' = sends + 1 /\ sends' \in 0..Sends /\ answer' = "pending" /\ Send
        /\ UNCHANGED <<mode, tun, target, routes, tunUp, pc, case, try, passed, applied,
                       hindered, exit, serving, parents, cur, at, waiting, asked, reply, counters>>
    <3>1. Sends \in Nat /\ Sends >= 1 /\ sends \in 0..Sends /\ routes \subseteq applied
      BY <1>t, ScenarioAssumption DEF RunnerTypes, Places
    <3>2. CASE AskServer
      <4>1. pc \in Phases /\ answer = "unasked" /\ name \in routes /\ sends = 0
        BY <1>t, <3>2 DEF AskServer, Places
      <4> QED BY <3>1, <3>2, <4>1 DEF AskServer, Send
    <3>3. CASE AskAgain
      <4>1. pc \in Phases /\ answer = "pending" /\ name \in applied /\ sends < Sends
        BY <1>t, <3>3 DEF AskAgain, Places
      <4> QED BY <3>1, <3>3, <4>1 DEF AskAgain, Send
    <3> QED BY <1>1, <3>2, <3>3
  <2>2. Serves'
    BY <1>t, <2>1, QueryOwn, ServesArrival DEF Send
  <2>3. name' = name /\ attempt' = attempt
    BY <2>1 DEF name, attempt
  <2>4. RunnerTypes' /\ Places'
    BY <1>t, <2>1, <2>3 DEF RunnerTypes, Places
  <2>5. Tells'
    BY <2>1, <2>3 DEF TestInv, Tells, Answered
  <2>6. Learns'
    BY <2>1, <2>3 DEF TestInv, Learns, Asserts, Verifies, Shown, Unhindered, Expected, counters
  <2> QED BY <2>2, <2>4, <2>5, <2>6 DEF TestInv
<1>2. CASE Deliver
  <2> DEFINE a == IF reply.answers.name \in Overlay THEN "overlay" ELSE Genuine(reply.answers.name)
  <2>1. /\ answer = "pending" /\ pc \in Phases /\ reply # Nothing /\ reply.query = Query
        /\ reply.answers = reply.query
    BY <1>2, <1>t DEF Deliver, Places, Serves
  <2>2. reply.answers.name = name /\ Handled(name)
    BY <1>t, <2>1 DEF Query, Serves
  <2>3. a = IF name \in Overlay THEN "overlay" ELSE Genuine(name)
    BY <2>2
  <2>4. Answer(a) /\ UNCHANGED <<mode, tun, target, routes, tunUp, pc, case, try, sends, passed,
                                 applied, exit, server>>
    BY <1>2 DEF Deliver
  <2> HIDE DEF a
  <2>5. attempt \notin hindered => name \in routes
    BY <2>1 DEF TestInv, Tells
  <2>6. a \in {"overlay", "addresses", "nothing", "failed"}
    BY <1>n, <2>1, <2>3
  <2>7. attempt \notin hindered /\ a # "failed" =>
           /\ a = IF name \in routes \cap Overlay THEN "overlay" ELSE Genuine(name)
           /\ name \in routes => Handled(name)
    BY <2>2, <2>3, <2>5
  <2> QED BY <2>1, <2>4, <2>6, <2>7, AnswerInv
<1>3. CASE AskOthers
  <2>1. /\ pc \in Phases /\ answer = "unasked" /\ name \notin routes
        /\ UNCHANGED <<mode, tun, target, routes, tunUp, pc, case, try, sends, passed,
                       applied, exit, server>>
    BY <1>3 DEF AskOthers
  <2>2. PICK a \in {Genuine(name), "failed"} : Answer(a)
    BY <1>3 DEF AskOthers
  <2>3. a \in {"overlay", "addresses", "nothing", "failed"}
    BY <1>n, <2>1
  <2>4. attempt \notin hindered /\ a # "failed" =>
           /\ a = IF name \in routes \cap Overlay THEN "overlay" ELSE Genuine(name)
           /\ name \in routes => Handled(name)
    BY <2>1
  <2> QED BY <2>1, <2>2, <2>3, <2>4, AnswerInv
<1>4. CASE LookupTimesOut
  BY <1>4, <1>t, AnswerInv DEF LookupTimesOut, Places
<1> QED BY <1>1, <1>2, <1>3, <1>4

(* The next lookup: nothing is known of it yet. *)
LEMMA UnaskedTells == ASSUME answer' = "unasked" PROVE Tells'
BY DEF Tells, Answered

(* The cases before the one in turn have passed. *)
LEMMA CaseShows ==
  ASSUME TestInv, pc = "assert", Answered, Passes
  PROVE  /\ case < 4 => Shown(case + 1, attempt \notin hindered)
         /\ Shown(case, attempt \notin hindered)
<1>1. Shown(case, attempt \notin hindered) /\ case \in 1..4
  BY DEF TestInv, Learns, RunnerTypes
<1>2. /\ name = (IF case = 1 THEN "overlay" ELSE IF case = 2 THEN "forward"
                 ELSE IF case = 3 THEN "outside" ELSE "static")
      /\ name \in Name
  BY NameIs DEF TestInv, Phases
<1>3. CasePasses
  BY DEF Passes
<1>4. CASE case = 1
  <2>1. "overlay" \in seen
    BY <1>2, <1>3, <1>4 DEF CasePasses, Counted
  <2> QED BY <1>1, <1>4, <2>1 DEF Shown
<1>5. CASE case = 2
  <2>1. "forward" \in seen
    BY <1>2, <1>3, <1>5 DEF CasePasses, Counted, RouteUsesTestDns
  <2> QED BY <1>1, <1>5, <2>1 DEF Shown
<1>6. CASE case = 3
  <2>1. mode = "global" => "outside" \in seen
    BY <1>2, <1>3, <1>6 DEF CasePasses, Counted, RouteUsesTestDns
  <2>2. mode = "split" => "outside" \notin seen
    BY <1>2, <1>3, <1>6 DEF CasePasses, Uncounted, RouteUsesTestDns
  <2>3. attempt \notin hindered /\ "outside" \in applied => "outside" \in seen
    BY <1>2, <1>6 DEF TestInv, Tells, Places, Phases, Handled
  <2> QED BY <1>1, <1>6, <2>1, <2>2, <2>3 DEF Shown
<1>7. CASE case = 4
  BY <1>1, <1>7
<1> QED BY <1>1, <1>4, <1>5, <1>6, <1>7

LEMMA StartStep == TestInv /\ Start => TestInv'
<1> SUFFICES ASSUME TestInv, Start PROVE TestInv'
  OBVIOUS
<1>1. /\ pc = "start" /\ pc' = "apply" /\ serving' = TRUE /\ ValidParents(parents) /\ tunUp' = tun
      /\ UNCHANGED <<mode, tun, target, routes, case, try, sends, answer, passed, applied,
                     hindered, exit, parents, socket, cur, at, waiting, asked, reply, counters>>
  BY DEF Start
<1>2. tun \in BOOLEAN
  BY ScenarioAssumption DEF TestInv, RunnerTypes
<1>3. RunnerTypes'
  BY <1>1, <1>2 DEF TestInv, RunnerTypes
<1>4. Places'
  BY <1>1 DEF TestInv, Places, Phases
<1>5. Serves'
  BY <1>1, ServesSame DEF TestInv
<1>6. Tells' /\ Learns'
  BY <1>1 DEF TestInv, Tells, Learns, Verifies, Places, Phases
<1> QED BY <1>3, <1>4, <1>5, <1>6 DEF TestInv

LEMMA ApplyStep == TestInv /\ Apply => TestInv'
<1> SUFFICES ASSUME TestInv, Apply PROVE TestInv'
  OBVIOUS
<1>1. /\ pc = "apply" /\ target' \in SUBSET Name /\ applied' = target'
      /\ pc' = "assert" /\ case' = 1 /\ try' = 1 /\ sends' = 0 /\ answer' = "unasked"
      /\ UNCHANGED <<mode, tun, routes, tunUp, passed, hindered, exit, server>>
  BY DEF Apply, Look
<1>2. RunnerTypes'
  BY <1>1, ScenarioAssumption DEF TestInv, RunnerTypes, Phases
<1>3. applied = {} /\ routes = {} /\ exit = "none"
  BY <1>1 DEF TestInv, Places
<1>4. Places'
  BY <1>1, <1>3 DEF Places, Phases
<1>5. Serves'
  BY <1>1, <1>3, ServesSame DEF TestInv, Serves, server
<1>6. Tells' /\ Learns'
  BY <1>1, <1>3, UnaskedTells DEF Learns, Verifies, Shown
<1> QED BY <1>2, <1>4, <1>5, <1>6 DEF TestInv

LEMMA SettleStep == TestInv /\ Settle => TestInv'
<1> SUFFICES ASSUME TestInv, Settle PROVE TestInv'
  OBVIOUS
<1>1. /\ exit = "none" /\ routes # target /\ routes' = target
      /\ hindered' = hindered \cup (IF answer = "pending" THEN {attempt} ELSE {})
      /\ UNCHANGED <<mode, tun, target, tunUp, pc, case, try, sends, answer, passed, applied,
                     exit, server>>
  BY DEF Settle
<1>2. name' = name /\ attempt' = attempt /\ Answered' = Answered
  BY <1>1 DEF name, attempt, Answered
<1>3. hindered' \subseteq Phases \X (1..Attempts)
  <2>1. answer = "pending" => attempt \in Phases \X (1..Attempts)
    BY NameIs DEF TestInv, Places
  <2> QED BY <1>1, <2>1 DEF TestInv, RunnerTypes
<1>4. RunnerTypes'
  BY <1>1, <1>3 DEF TestInv, RunnerTypes
<1>5. Places'
  BY <1>1, <1>2 DEF TestInv, Places
<1>6. Serves'
  BY <1>1, ServesSame DEF TestInv, Serves, server
<1>7. Tells'
  BY <1>1, <1>2 DEF TestInv, Tells, Answered
<1>8. pc = "assert" => Shown(case, attempt \notin hindered)'
  <2>1. attempt' \notin hindered' => attempt \notin hindered
    BY <1>1, <1>2
  <2> QED BY <1>1, <2>1 DEF TestInv, Learns, Shown, server, counters
<1>9. pc \in {"close", "verify"} => Asserts'
  <2>1. hindered \subseteq hindered'
    BY <1>1
  <2> QED BY <1>1, <2>1, ShownKept DEF TestInv, Learns, server, counters
<1>10. Learns'
  BY <1>1, <1>8, <1>9 DEF Learns, Verifies
<1> QED BY <1>4, <1>5, <1>6, <1>7, <1>10 DEF TestInv

LEMMA NextCaseStep == TestInv /\ NextCase => TestInv'
<1> SUFFICES ASSUME TestInv, NextCase PROVE TestInv'
  OBVIOUS
<1>1. /\ pc \in Phases /\ Answered /\ Passes /\ case < Len(Cases(pc))
      /\ pc' = pc /\ case' = case + 1 /\ try' = try /\ sends' = 0 /\ answer' = "unasked"
      /\ UNCHANGED <<mode, tun, target, routes, tunUp, passed, applied, hindered, exit, server>>
  BY DEF NextCase, Look
<1>2. pc = "assert" /\ case \in 1..3
  <2>1. pc = "assert" \/ pc = "verify"
    BY <1>1 DEF Phases
  <2>2. case \in 1..4
    BY DEF TestInv, RunnerTypes
  <2>5. /\ pc = "assert" => Len(Cases(pc)) = 4
        /\ pc = "verify" => Len(Cases(pc)) = 1 /\ case = 1
    BY <1>1, NameIs DEF TestInv
  <2>3. pc # "verify"
    <3> SUFFICES ASSUME pc = "verify" PROVE FALSE
      OBVIOUS
    <3> DEFINE n == Len(Cases(pc))
    <3>1. n = 1 /\ case = 1
      BY <2>5
    <3>2. case < n
      BY <1>1
    <3> HIDE DEF n
    <3> QED BY <3>1, <3>2
  <2>4. case < 4
    BY <1>1, <2>1, <2>3, <2>5
  <2> QED BY <2>1, <2>2, <2>3, <2>4
<1>3. RunnerTypes'
  BY <1>1, <1>2, ScenarioAssumption DEF TestInv, RunnerTypes
<1>4. Places'
  BY <1>1, <1>2 DEF TestInv, Places
<1>5. Serves'
  BY <1>1, ServesSame DEF TestInv, Serves, server
<1>6. Shown(case, attempt \notin hindered)'
  <2>1. Shown(case + 1, attempt \notin hindered)
    BY <1>1, <1>2, CaseShows
  <2>2. attempt' = attempt
    BY <1>1 DEF attempt
  <2> QED BY <1>1, <2>1, <2>2 DEF Shown, server, counters
<1>7. Learns'
  BY <1>1, <1>2, <1>6 DEF TestInv, Places, Learns, Verifies
<1> QED BY <1>1, <1>3, <1>4, <1>5, <1>7, UnaskedTells DEF TestInv

LEMMA TryAgainStep == TestInv /\ TryAgain => TestInv'
<1> SUFFICES ASSUME TestInv, TryAgain PROVE TestInv'
  OBVIOUS
<1>1. /\ pc \in Phases /\ try < Attempts
      /\ pc' = pc /\ case' = 1 /\ try' = try + 1 /\ sends' = 0 /\ answer' = "unasked"
      /\ UNCHANGED <<mode, tun, target, routes, tunUp, passed, applied, hindered, exit, server>>
  BY DEF TryAgain, Look
<1>2. RunnerTypes'
  BY <1>1, ScenarioAssumption DEF TestInv, RunnerTypes
<1>3. Places'
  BY <1>1 DEF TestInv, Places
<1>4. Serves'
  BY <1>1, ServesSame DEF TestInv, Serves, server
<1>5. exit = "none"
  BY <1>1 DEF TestInv, Places, Phases
<1>6. Learns'
  BY <1>1, <1>5, ShownKept DEF TestInv, Learns, Verifies, Shown, server, counters
<1> QED BY <1>1, <1>2, <1>3, <1>4, <1>6, UnaskedTells DEF TestInv

(* The first phase is over: a passing attempt has shown all four cases, and *)
(* where none passed the last one was hindered or the back end was wrong.   *)
LEMMA AssertedStep == TestInv /\ Asserted => TestInv'
<1> SUFFICES ASSUME TestInv, Asserted PROVE TestInv'
  OBVIOUS
<1>1. /\ pc = "assert" /\ Answered /\ (IF Passes THEN case = Len(Cases(pc)) ELSE try = Attempts)
      /\ passed' = [passed EXCEPT ![pc] = IF Passes THEN try ELSE 0]
      /\ pc' = "close" /\ case' = 1 /\ try' = 1 /\ sends' = 0 /\ answer' = "unasked"
      /\ UNCHANGED <<mode, tun, target, routes, tunUp, applied, hindered, exit, server>>
  BY DEF Asserted, PhaseOver, Result, Look
<1>2. try \in 1..Attempts /\ Attempts \in Nat \ {0} /\ passed \in [Phases -> 0..Attempts]
  BY ScenarioAssumption DEF TestInv, RunnerTypes
<1>3. passed' \in [Phases -> 0..Attempts] /\ passed'["assert"] = IF Passes THEN try ELSE 0
  BY <1>1, <1>2 DEF Phases
<1>0. exit = "none" /\ exit' = "none"
  BY <1>1 DEF TestInv, Places, server
<1>4. RunnerTypes'
  BY <1>1, <1>2, <1>3, ScenarioAssumption DEF TestInv, RunnerTypes
<1>5. Places'
  BY <1>1 DEF TestInv, Places
<1>6. Serves'
  BY <1>1, ServesSame DEF TestInv, Serves, server
<1>7. ASSUME Passes PROVE Learns'
  <2>0. Len(Cases(pc)) = 4
    BY <1>1, NameIs DEF TestInv, Phases
  <2>5. case = Len(Cases(pc))
    BY <1>1, <1>7
  <2>1. case = 4 /\ passed'["assert"] = try /\ try # 0
    BY <1>2, <1>3, <1>7, <2>0, <2>5
  <2>2. Shown(4, attempt \notin hindered)
    BY <1>1, <1>7, <2>1, CaseShows
  <2>3. Unhindered("assert")' => attempt \notin hindered
    BY <1>1, <2>1 DEF Unhindered, attempt
  <2>4. Asserts'
    BY <1>1, <2>1, <2>2, <2>3 DEF Asserts, Shown, server, counters
  <2> QED BY <1>0, <1>1, <2>4 DEF Learns, Verifies
<1>8. ASSUME ~Passes PROVE Learns'
  <2>1. passed'["assert"] = 0 /\ attempt = <<"assert", Attempts>>
    BY <1>1, <1>3, <1>8 DEF attempt
  <2>2. applied = Expected => attempt \in hindered
    BY <1>1, <1>8, GoodPasses DEF Passes
  <2>3. Asserts'
    BY <1>1, <2>1, <2>2 DEF Asserts, Expected
  <2> QED BY <1>0, <1>1, <2>3 DEF Learns, Verifies
<1> QED BY <1>1, <1>4, <1>5, <1>6, <1>7, <1>8, UnaskedTells DEF TestInv

LEMMA CloseStep == TestInv /\ Close => TestInv'
<1> SUFFICES ASSUME TestInv, Close PROVE TestInv'
  OBVIOUS
<1>1. /\ pc = "close" /\ target' \in {{}, target} /\ tunUp' = FALSE
      /\ pc' = "verify" /\ case' = 1 /\ try' = 1 /\ sends' = 0 /\ answer' = "unasked"
      /\ UNCHANGED <<mode, tun, routes, passed, applied, hindered, exit, server>>
  BY DEF Close, Look
<1>2. RunnerTypes'
  <2>1. target' \subseteq Name /\ tunUp' \in BOOLEAN /\ ~tunUp'
    BY <1>1 DEF TestInv, RunnerTypes
  <2>2. 1 \in 1..4 /\ 1 \in 1..Attempts /\ 0 \in 0..Sends
    BY ScenarioAssumption
  <2> QED BY <1>1, <2>1, <2>2 DEF TestInv, RunnerTypes, Phases
<1>3. Places'
  BY <1>1 DEF TestInv, Places, Phases
<1>4. Serves'
  BY <1>1, ServesSame DEF TestInv, Serves, server
<1>5. exit = "none"
  BY <1>1 DEF TestInv, Places
<1>6. Learns'
  BY <1>1, <1>5, ShownKept DEF TestInv, Learns, Verifies, server, counters
<1> QED BY <1>1, <1>2, <1>3, <1>4, <1>6, UnaskedTells DEF TestInv

(* The second phase is over: a passing attempt that nothing hindered has    *)
(* not gone to the server, and a failing one has.                           *)
LEMMA FinishStep == TestInv /\ Finish => TestInv'
<1> SUFFICES ASSUME TestInv, Finish PROVE TestInv'
  OBVIOUS
<1>1. /\ pc = "verify" /\ Answered /\ (~Passes => try = Attempts)
      /\ passed' = [passed EXCEPT ![pc] = IF Passes THEN try ELSE 0]
      /\ exit' = IF \A p \in Phases : passed'[p] # 0 THEN "pass" ELSE "assertion_failed"
      /\ pc' = "done" /\ case' = 1 /\ try' = 1 /\ sends' = 0 /\ answer' = "unasked"
      /\ serving' = FALSE
      /\ UNCHANGED <<mode, tun, target, routes, tunUp, applied, hindered,
                     parents, socket, cur, at, waiting, asked, reply, counters>>
  BY DEF Finish, PhaseOver, Result, Exit
<1>2. try \in 1..Attempts /\ Attempts \in Nat \ {0} /\ passed \in [Phases -> 0..Attempts]
  BY ScenarioAssumption DEF TestInv, RunnerTypes
<1>3. /\ passed' \in [Phases -> 0..Attempts] /\ passed'["assert"] = passed["assert"]
      /\ passed'["verify"] = IF Passes THEN try ELSE 0
  BY <1>1, <1>2 DEF Phases
<1>4. exit' = IF passed'["assert"] # 0 /\ passed'["verify"] # 0 THEN "pass" ELSE "assertion_failed"
  BY <1>1 DEF Phases
<1>5. RunnerTypes'
  BY <1>1, <1>2, <1>3, <1>4, ScenarioAssumption DEF TestInv, RunnerTypes
<1>6. Places'
  BY <1>1, <1>4 DEF TestInv, Places
<1>7. Serves'
  BY <1>1, ServesSame DEF TestInv
<1>8. Asserts'
  <2>1. Asserts
    BY <1>1 DEF TestInv, Learns
  <2> QED BY <1>1, <1>3, <2>1 DEF Asserts, Shown, Unhindered, Expected, counters
<1>9. name = "overlay" /\ Overlay = {"overlay"} /\ Genuine(name) # "overlay"
  BY <1>1, NameIs, ScenarioAssumption DEF TestInv, Places, Phases, Genuine
<1>10. attempt \notin hindered =>
         routes = target /\ (answer = "overlay" <=> "overlay" \in routes)
  BY <1>1, <1>9 DEF TestInv, Tells, Phases
<1>11. Passes <=> answer # "overlay"
  BY <1>1 DEF Passes, NotOverlay
<1>12. ASSUME Passes PROVE Learns'
  <2>1. passed'["verify"] = try /\ try # 0
    BY <1>2, <1>3, <1>12
  <2>2. Unhindered("verify")' => attempt \notin hindered
    BY <1>1, <2>1 DEF Unhindered, attempt
  <2>3. CASE passed'["assert"] # 0
    <3>1. exit' = "pass"
      BY <1>4, <2>1, <2>3
    <3>2. Unhindered("verify")' => "overlay" \notin routes'
      BY <1>1, <1>10, <1>11, <1>12, <2>2
    <3> QED BY <1>1, <1>8, <2>3, <3>1, <3>2 DEF Learns, Verifies
  <2>4. CASE passed'["assert"] = 0
    <3>1. exit' = "assertion_failed"
      BY <1>4, <2>4
    <3> QED BY <1>1, <1>8, <2>4, <3>1 DEF Learns, Verifies
  <2> QED BY <2>3, <2>4
<1>13. ASSUME ~Passes PROVE Learns'
  <2>1. passed'["verify"] = 0 /\ attempt = <<"verify", Attempts>>
    BY <1>1, <1>3, <1>13 DEF attempt
  <2>2. exit' = "assertion_failed"
    BY <1>4, <2>1
  <2>3. "overlay" \in target' \/ <<"verify", Attempts>> \in hindered'
    BY <1>1, <1>10, <1>11, <1>13, <2>1
  <2> QED BY <1>1, <1>8, <2>1, <2>2, <2>3 DEF Learns, Verifies
<1> QED BY <1>1, <1>5, <1>6, <1>7, <1>12, <1>13, UnaskedTells DEF TestInv

LEMMA TestStep == TestInv /\ [Next]_vars => TestInv'
<1> SUFFICES ASSUME TestInv, [Next]_vars PROVE TestInv'
  OBVIOUS
<1>1. CASE Refuse \/ ApplyFails \/ CloseFails
  BY <1>1, ExitInv DEF Refuse, ApplyFails, CloseFails
<1>2. CASE AskServer \/ AskAgain \/ Deliver \/ AskOthers \/ LookupTimesOut
  BY <1>2, LookupStep
<1>3. CASE Start \/ Apply \/ Settle
  BY <1>3, StartStep, ApplyStep, SettleStep
<1>4. CASE NextCase \/ TryAgain \/ Asserted \/ Close \/ Finish
  BY <1>4, NextCaseStep, TryAgainStep, AssertedStep, CloseStep, FinishStep
<1>5. CASE ServerStep /\ UNCHANGED runner
  BY <1>5, ServerStepInv
<1>6. CASE UNCHANGED vars
  <2>1. UNCHANGED runner /\ UNCHANGED server
    BY <1>6 DEF vars
  <2>2. name' = name /\ attempt' = attempt /\ Answered' = Answered /\ Expected' = Expected
    BY <2>1 DEF runner, name, attempt, Answered, Expected, Cases
  <2>3. RunnerTypes' /\ Places'
    BY <2>1, <2>2 DEF TestInv, RunnerTypes, Places, runner
  <2>4. Serves'
    BY <2>1, ServesSame DEF TestInv, Serves, server, runner
  <2>5. Tells'
    BY <2>1, <2>2 DEF TestInv, Tells, Handled, runner, server, counters
  <2>6. Learns'
    BY <2>1, <2>2 DEF TestInv, Learns, Asserts, Verifies, Shown, Unhindered, runner, server, counters
  <2> QED BY <2>3, <2>4, <2>5, <2>6 DEF TestInv
<1> QED BY <1>1, <1>2, <1>3, <1>4, <1>5, <1>6 DEF Next, RunnerStep

LEMMA TestKept == Spec => []TestInv
BY TestInit, TestStep, PTL DEF Spec

-----------------------------------------------------------------------------
(* The runner is in one of its places with a lookup of its own, the server  *)
(* has a parent in turn, and its counters tell overlay from forwarded.      *)
THEOREM ScenarioTypeCorrect == Spec => []TypeOK
<1>1. TestInv => TypeOK
  <2> SUFFICES ASSUME TestInv PROVE TypeOK
    OBVIOUS
  <2>1. /\ Len(socket) <= Room /\ \A i \in DOMAIN socket : socket[i] \in Queries
        /\ cur \in Queries \cup {Nothing} /\ parents \in ParentLists
        /\ at \in 0..(Len(parents) + 1) /\ (waiting => at \in DOMAIN parents)
        /\ \A a \in asked : a.query \in Queries /\ a.parent \in DOMAIN parents
    BY DEF TestInv, Serves, Own
  <2>2. /\ seen \subseteq Name /\ overlaid \subseteq seen \cap Overlay
        /\ forwarded \subseteq seen \ Overlay
    BY DEF TestInv, Serves, RunnerTypes
  <2> QED BY <2>1, <2>2 DEF TestInv, RunnerTypes, TypeOK
<1> QED BY <1>1, TestKept, PTL

(* A response answers the query it is sent for, however many questions to   *)
(* parents are open, given up or answered late.                             *)
THEOREM ServerAnswersMatch == Spec => []AnswersMatch
<1>1. TestInv => AnswersMatch
  BY DEF TestInv, Serves, AnswersMatch
<1> QED BY <1>1, TestKept, PTL

(* Of the parents that validate_parent_dns has accepted, only a server other *)
(* than this one and the stubs hands a question back: where no parent is    *)
(* such a forwarder, every query the server takes is the resolver's.        *)
THEOREM ServerEchoIsUnnoticed == Spec => []EchoIsUnnoticed
<1>1. TestInv => EchoIsUnnoticed
  BY DEF TestInv, Serves, Own, EchoIsUnnoticed
<1> QED BY <1>1, TestKept, PTL

(* A test that passes has seen the back end send the right names to the     *)
(* server and, unless a lookup timed out, take them back at close.          *)
THEOREM ScenarioPassIsEarned == Spec => []PassIsEarned
<1>1. TestInv => PassIsEarned
  <2> SUFFICES ASSUME TestInv, exit = "pass" PROVE PassIsEarned
    BY DEF PassIsEarned
  <2>1. Shown(4, Unhindered("assert")) /\ (Unhindered("verify") => "overlay" \notin routes)
    BY DEF TestInv, Learns, Verifies, Asserts
  <2>2. seen \subseteq applied
    BY DEF TestInv, Serves
  <2> QED BY <2>1, <2>2 DEF PassIsEarned, Shown
<1> QED BY <1>1, TestKept, PTL

(* A test that fails an assertion has met a back end that was wrong, or a   *)
(* last attempt that was hindered; no earlier attempt is to blame.          *)
THEOREM ScenarioNoFalseAlarm == Spec => []NoFalseAlarm
<1>1. TestInv => NoFalseAlarm
  <2> SUFFICES ASSUME TestInv, exit = "assertion_failed", applied = Expected,
                      "overlay" \notin target
               PROVE  \E p \in Phases : passed[p] = 0 /\ <<p, Attempts>> \in hindered
    BY DEF NoFalseAlarm
  <2> QED BY DEF TestInv, Learns, Verifies, Asserts, Phases
<1> QED BY <1>1, TestKept, PTL
=============================================================================
