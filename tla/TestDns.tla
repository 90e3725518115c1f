------------------------------- MODULE TestDns -------------------------------
(***************************************************************************)
(* The DNS server of the integration test (test-runner/src/test_dns.rs):   *)
(* one loop that takes a query from its socket, counts it, and answers it  *)
(* itself or asks the parents one after the other, each on a socket of its *)
(* own and with a timeout.  Everything else waits in the socket meanwhile. *)
(*                                                                         *)
(* Counters are kept as "zero or not", which is all the test asks of them. *)
(***************************************************************************)
EXTENDS Naturals, Sequences, FiniteSets

CONSTANTS
  Name,         \* the names that are looked up
  Overlay,      \* overlay_names
  Address,      \* addresses a parent may have
  LeadsBack,    \* those whose server may hand a question to this one
  Stub,         \* SYSTEMD_RESOLVED_STUBS
  Self,         \* the address the server listens on
  Room,         \* a bound: how many packets the socket holds
  Late,         \* a bound: how many questions that were given up are answered
  Nothing       \* no query, no reply

ASSUME TestDnsAssumption ==
  /\ Overlay \subseteq Name
  /\ {Self} \cup Stub \subseteq LeadsBack /\ LeadsBack \subseteq Address
  /\ "resolver" \notin Address
  /\ Room \in Nat \ {0} /\ Late \in Nat \ {0}

VARIABLES
  serving,    \* is the task of run_dns_loop alive?
  parents,    \* parent_dns
  socket,     \* queries that have arrived, in that order
  cur,        \* the query in handle_query
  at,         \* the parent in turn, 0 before forward_query
  waiting,    \* is the loop in the timeout of forward_query?
  asked,      \* questions to parents that may still be answered
  reply,      \* the last response sent: to which query, answering which
  seen,       \* names with a counter in by_name
  overlaid,   \* names with a counter in overlay_by_name
  forwarded   \* names with a counter in forwarded_by_name

counters == <<seen, overlaid, forwarded>>
server   == <<serving, parents, socket, cur, at, waiting, asked, reply, counters>>

-----------------------------------------------------------------------------
Question == [query |-> cur, parent |-> at]

(* What the socket cannot hold is lost. *)
Arrives(q) == socket' = IF Len(socket) < Room THEN Append(socket, q) ELSE socket

(* handle_query is over; the loop turns to the next packet. *)
Done == cur' = Nothing /\ at' = 0 /\ waiting' = FALSE

(* Slip: one socket for all questions, whose answers may come late. *)
AwaitsAny(a) == waiting

(* The socket on which the question a was sent is still open. *)
Awaits(a) == waiting /\ a = Question

(* Slip: the stub of systemd-resolved is a parent like any other. *)
ValidParentsButSelf(p) == p # <<>> /\ \A i \in DOMAIN p : p[i] # Self

(* validate_parent_dns *)
ValidParents(p) == p # <<>> /\ \A i \in DOMAIN p : p[i] # Self /\ p[i] \notin Stub

(* Slip: after a parent that is silent, the next one is skipped. *)
TimeoutSkipsOne ==
  /\ serving /\ waiting
  /\ waiting' = FALSE
  /\ at' = at + 2
  /\ UNCHANGED <<serving, parents, socket, cur, asked, reply, counters>>

-----------------------------------------------------------------------------
(* recv_from, and increment_query_counters of handle_query *)
Receive ==
  /\ serving /\ cur = Nothing /\ socket # <<>>
  /\ cur' = Head(socket)
  /\ socket' = Tail(socket)
  /\ seen' = seen \cup {Head(socket).name}
  /\ UNCHANGED <<serving, parents, at, waiting, asked, reply, overlaid, forwarded>>

(* The overlay answer, counted before it is sent. *)
AnswerOverlay ==
  /\ serving /\ cur # Nothing /\ cur.name \in Overlay
  /\ overlaid' = overlaid \cup {cur.name}
  /\ reply' = [query |-> cur, answers |-> cur]
  /\ Done
  /\ UNCHANGED <<serving, parents, socket, asked, seen, forwarded>>

(* increment_forwarded_counter *)
Forward ==
  /\ serving /\ cur # Nothing /\ cur.name \notin Overlay /\ at = 0
  /\ forwarded' = forwarded \cup {cur.name}
  /\ at' = 1
  /\ UNCHANGED <<serving, parents, socket, cur, waiting, asked, reply, seen, overlaid>>

(* One turn of the loop in forward_query: bind and send, an error of which  *)
(* skips the parent.                                                        *)
AskParent ==
  /\ serving /\ at \in DOMAIN parents /\ ~waiting
  /\ \/ /\ waiting' = TRUE
        /\ asked' = asked \cup {Question}
        /\ UNCHANGED at
     \/ at' = at + 1 /\ UNCHANGED <<waiting, asked>>
  /\ UNCHANGED <<serving, parents, socket, cur, reply, counters>>

(* FORWARD_TIMEOUT.  The parent may still answer; of the questions given up *)
(* before, some are never answered (all but Late are not).                  *)
Timeout ==
  /\ serving /\ waiting
  /\ waiting' = FALSE
  /\ at' = at + 1
  /\ \E late \in SUBSET (asked \ {Question}) :
       Cardinality(late) < Late /\ asked' = late \cup {Question}
  /\ UNCHANGED <<serving, parents, socket, cur, reply, counters>>

(* No parent has answered, and the query stays without a response. *)
GiveUp ==
  /\ serving /\ at = Len(parents) + 1
  /\ Done
  /\ UNCHANGED <<serving, parents, socket, asked, reply, counters>>

(* A parent answers: the first answer on the open socket is the response to *)
(* the query, one on a socket that was closed is lost.                      *)
ParentAnswers ==
  /\ serving
  /\ \E a \in asked :
       /\ asked' = asked \ {a}
       /\ IF Awaits(a)
            THEN reply' = [query |-> cur, answers |-> a.query] /\ Done
            ELSE UNCHANGED <<reply, cur, at, waiting>>
  /\ UNCHANGED <<serving, parents, socket, counters>>

(* A parent hands a question to this very server, where it arrives as one   *)
(* more query.  It may do so again, and may still answer.                   *)
Echo ==
  /\ serving
  /\ \E a \in asked :
       /\ parents[a.parent] \in LeadsBack
       /\ Arrives([a.query EXCEPT !.from = parents[a.parent]])
  /\ UNCHANGED <<serving, parents, cur, at, waiting, asked, reply, counters>>

ServerInit ==
  /\ serving = FALSE
  /\ socket = <<>>
  /\ cur = Nothing /\ at = 0 /\ waiting = FALSE
  /\ asked = {}
  /\ reply = Nothing
  /\ seen = {} /\ overlaid = {} /\ forwarded = {}

(* The steps the loop takes without help from outside. *)
LoopStep == Receive \/ AnswerOverlay \/ Forward \/ AskParent \/ Timeout \/ GiveUp

ServerStep == LoopStep \/ ParentAnswers \/ Echo

-----------------------------------------------------------------------------
(* A response answers the very query it is sent for, however late parents   *)
(* answer and in whatever order.                                            *)
AnswersMatch == reply # Nothing => reply.answers = reply.query

(* The parents that lead back and that validate_parent_dns cannot tell.     *)
Unnoticed == {parents[i] : i \in DOMAIN parents} \cap (LeadsBack \ (Stub \cup {Self}))

(* validate_parent_dns: the server takes no question of its own for a query *)
(* by way of its address or of the stubs, however parents answer, but only  *)
(* by way of another server that follows the system's DNS.                  *)
EchoIsUnnoticed ==
  \A q \in {socket[i] : i \in DOMAIN socket} \cup ({cur} \ {Nothing}) :
    q.from = "resolver" \/ q.from \in Unnoticed
=============================================================================
