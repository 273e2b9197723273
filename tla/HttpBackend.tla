------------------------------ MODULE HttpBackend ------------------------------
(***************************************************************************)
(* One HTTP backend (backend.go, type httpBackend).                        *)
(*                                                                         *)
(* A request is one exchange: post sends it with the session id in force,  *)
(* waits for the status and the headers, adopts the session id they carry, *)
(* and reads the body, a JSON text or an event stream.  There is neither a *)
(* connection to lose nor a retry, and no time limit but the context's.    *)
(*                                                                         *)
(* The server may keep sessions, be redeployed and forget them, answer     *)
(* with any status, hold a body open, break it off, and execute a request  *)
(* whose exchange is over.  It is taken to send no request of its own on   *)
(* the stream of an answer: under the id of the proxy's request            *)
(* decodeBackendResponse would take it for the answer.                     *)
(*                                                                         *)
(* Atomicity: each critical section of sessM is one step; the check of the *)
(* session id and its adoption are two.                                    *)
(***************************************************************************)
EXTENDS Naturals, FiniteSets

CONSTANTS
  Callers,       \* requests made of the backend
  Initializers,  \* Initialize, by Aggregate; the others ListTools or CallTool
  Bounded,       \* those whose context has a deadline: CallTool
  MaxRedeploys   \* bound: how often the server is redeployed

ASSUME CallersAssumption ==
  /\ Initializers \subseteq Callers
  /\ Bounded \subseteq Callers \ Initializers
  /\ MaxRedeploys \in Nat

VARIABLES
  session,    \* b.sessionID, 0 for ""
  pc,         \* pc[t]: where caller t stands
  carried,    \* carried[t]: the session id in the header of its request
  expired,    \* the callers whose context is done
  result,     \* result[t]: how t's request ended
  at,         \* at[t]: what became of the request on the way to the server
  reply,      \* reply[t]: the status and kind of body that came back
  granted,    \* granted[t]: the session id in the headers of the reply
  answered,   \* the callers whose answer has been sent in full
  body,       \* body[t]: how the body of the reply stands
  stateful,   \* the server keeps sessions
  live,       \* the session ids that it knows
  issued,     \* number of session ids it ever gave out
  redeploys,  \* number of times the server was redeployed
  executed    \* executed[t]: the tries of t that the server has executed

callerVars   == <<pc, carried, expired, result>>
exchangeVars == <<at, reply, granted, answered, body>>
serverVars   == <<stateful, live, issued, redeploys, executed>>
vars         == <<session, callerVars, exchangeVars, serverVars>>

Results(t) ==
  IF t \in Initializers THEN {"none", "ready", "unavailable"}
  ELSE {"none", "answered", "gaveUp", "lost"}

HttpTypeOK ==
  /\ session \in 0..issued
  /\ pc \in [Callers -> {"idle", "headers", "adopt", "body", "notify", "returned"}]
  /\ carried \in [Callers -> 0..issued]
  /\ expired \in SUBSET Callers
  /\ result \in [Callers -> UNION {Results(t) : t \in Callers}]
  /\ \A t \in Callers : result[t] \in Results(t)
  /\ at \in [Callers -> {"client", "travels", "served", "refused"}]
  /\ reply \in [Callers -> {"none", "json", "sse", "failure"}]
  /\ granted \in [Callers -> 0..issued]
  /\ answered \in SUBSET Callers
  /\ body \in [Callers -> {"open", "ended", "broken"}]
  /\ stateful \in BOOLEAN
  /\ issued \in Nat
  /\ live \in SUBSET (1..issued)
  /\ redeploys \in 0..MaxRedeploys
  /\ executed \in [Callers -> SUBSET {1}]

Init ==
  /\ session = 0
  /\ pc = [t \in Callers |-> "idle"]
  /\ carried = [t \in Callers |-> 0]
  /\ expired = {}
  /\ result = [t \in Callers |-> "none"]
  /\ at = [t \in Callers |-> "client"]
  /\ reply = [t \in Callers |-> "none"]
  /\ granted = [t \in Callers |-> 0]
  /\ answered = {}
  /\ body = [t \in Callers |-> "open"]
  /\ stateful \in BOOLEAN
  /\ live = {}
  /\ issued = 0
  /\ redeploys = 0
  /\ executed = [t \in Callers |-> {}]

GoTo(t, label) == pc' = [pc EXCEPT ![t] = label]

Finish(t, r) ==
  /\ GoTo(t, "returned")
  /\ result' = [result EXCEPT ![t] = r]

\* post has returned: the body is closed, and what else the server sends is lost.
Close(t) ==
  /\ reply' = [reply EXCEPT ![t] = "none"]
  /\ granted' = [granted EXCEPT ![t] = 0]
  /\ answered' = answered \ {t}
  /\ body' = [body EXCEPT ![t] = "open"]
  /\ UNCHANGED <<session, carried, expired, at, serverVars>>

\* Mutant: an error of Initialize is like any other.
FailAlike(t, r) == Finish(t, r)

\* An error of post: Initialize fails, a request ends in r.
Fail(t, r) == Finish(t, IF t \in Initializers THEN "unavailable" ELSE r)

-----------------------------------------------------------------------------
(* post, on the caller's goroutine. *)

\* Only a backend that has been initialized is asked for tools and routed to.
Invoked(t) == t \in Initializers \/ \E i \in Initializers : result[i] = "ready"

\* Mutant: the session id is not replayed.
SendWithoutSession(t) ==
  /\ pc[t] = "idle"
  /\ Invoked(t)
  /\ t \notin expired
  /\ at' = [at EXCEPT ![t] = "travels"]
  /\ GoTo(t, "headers")
  /\ UNCHANGED <<session, carried, expired, result, reply, granted, answered, body, serverVars>>

Send(t) ==
  /\ pc[t] = "idle"
  /\ Invoked(t)
  /\ t \notin expired
  /\ carried' = [carried EXCEPT ![t] = session]
  /\ at' = [at EXCEPT ![t] = "travels"]
  /\ GoTo(t, "headers")
  /\ UNCHANGED <<session, expired, result, reply, granted, answered, body, serverVars>>

\* client.Do fails: no connection, or one that breaks before the headers.
TransportFails(t) ==
  /\ pc[t] = "headers"
  /\ Fail(t, "lost")
  /\ Close(t)

\* client.Do returns; whatever the status, the session id is looked at.
ReadHeaders(t) ==
  /\ pc[t] = "headers"
  /\ reply[t] # "none"
  /\ GoTo(t, IF granted[t] # 0 /\ session = 0 THEN "adopt" ELSE "body")
  /\ UNCHANGED <<session, carried, expired, result, exchangeVars, serverVars>>

\* setSession, no matter what another caller has done since the check.
setSession(t) ==
  /\ pc[t] = "adopt"
  /\ session' = granted[t]
  /\ GoTo(t, "body")
  /\ UNCHANGED <<carried, expired, result, exchangeVars, serverVars>>

\* Mutant: a stream is read to its end like a JSON body.
DecodableAtEnd(t) ==
  /\ t \in answered
  /\ reply[t] \in {"sse", "json"}
  /\ body[t] = "ended"

\* A JSON body is read to its end; the first event that is the answer is
\* enough of a stream.
Decodable(t) ==
  /\ t \in answered
  /\ \/ reply[t] = "sse"
     \/ reply[t] = "json" /\ body[t] = "ended"

\* The answer is decoded: Initialize goes on to send its notification, or fails
\* if it is a JSON-RPC error.
Decoded(t) ==
  /\ pc[t] = "body"
  /\ Decodable(t)
  /\ \/ t \notin Initializers /\ Finish(t, "answered")
     \/ t \in Initializers /\ GoTo(t, "notify") /\ UNCHANGED result
     \/ t \in Initializers /\ Finish(t, "unavailable")
  /\ Close(t)

\* Mutant: a stream that ends without an answer is an empty answer.
UndecodedAsAnswer(t) ==
  /\ pc[t] = "body"
  /\ body[t] # "open"
  /\ ~Decodable(t)
  /\ Finish(t, IF t \in Initializers THEN "ready" ELSE "answered")
  /\ Close(t)

\* The body is over and was no answer, or the status was not 200.
Undecoded(t) ==
  /\ pc[t] = "body"
  /\ body[t] # "open"
  /\ ~Decodable(t)
  /\ Fail(t, "lost")
  /\ Close(t)

\* Mutant: the context is not passed on to the exchange.
ContextIgnored(t) == FALSE

\* client.Do and the reading of the body end with the context.
ContextDone(t) ==
  /\ t \in expired
  /\ \/ pc[t] \in {"headers", "body"}
     \/ pc[t] = "idle" /\ Invoked(t)
  /\ Fail(t, "gaveUp")
  /\ Close(t)

\* postNotify, whose failure is not Initialize's and whose answer is not read.
postNotify(t) ==
  /\ pc[t] = "notify"
  /\ Finish(t, "ready")
  /\ UNCHANGED <<session, carried, expired, exchangeVars, serverVars>>

\* The deadline of callCtx, or a signal that cancels every context.
Expire(t) ==
  /\ pc[t] # "returned"
  /\ t \notin expired
  /\ expired' = expired \cup {t}
  /\ UNCHANGED <<session, pc, carried, result, exchangeVars, serverVars>>

-----------------------------------------------------------------------------
(* The server and the network. *)

\* post is under way: somebody reads what the server sends.
Awaited(t) == pc[t] \in {"headers", "adopt", "body"}

Known(t) == ~stateful \/ carried[t] \in live

\* A request that carries no session id starts a session; Initialize must.
Starts(t) == stateful /\ carried[t] = 0

\* The server takes the request, and executes it if it is not Initialize.
Serve(t) ==
  /\ at[t] = "travels"
  /\ Known(t) \/ Starts(t)
  /\ at' = [at EXCEPT ![t] = "served"]
  /\ executed' = [executed EXCEPT ![t] = IF t \in Initializers THEN @ ELSE {1}]
  /\ IF Starts(t)
     THEN /\ issued' = issued + 1
          /\ live' = live \cup {issued + 1}
          /\ granted' = [granted EXCEPT ![t] = IF Awaited(t) THEN issued + 1 ELSE 0]
     ELSE UNCHANGED <<issued, live, granted>>
  /\ UNCHANGED <<session, callerVars, reply, answered, body, stateful, redeploys>>

\* A session id that is missing or unknown.
Refuse(t) ==
  /\ at[t] = "travels"
  /\ ~Known(t)
  /\ ~(t \in Initializers /\ Starts(t))
  /\ at' = [at EXCEPT ![t] = "refused"]
  /\ UNCHANGED <<session, callerVars, reply, granted, answered, body, serverVars>>

\* Status and headers: 200 for a request served, or the failure of the server
\* or of a gateway before it.
Reply(t) ==
  /\ Awaited(t)
  /\ reply[t] = "none"
  /\ \E kind \in {"json", "sse", "failure"} :
       /\ kind \in {"json", "sse"} => at[t] = "served"
       /\ reply' = [reply EXCEPT ![t] = kind]
  /\ UNCHANGED <<session, callerVars, at, granted, answered, body, serverVars>>

SendAnswer(t) ==
  /\ Awaited(t)
  /\ reply[t] \in {"json", "sse"}
  /\ body[t] = "open"
  /\ answered' = answered \cup {t}
  /\ UNCHANGED <<session, callerVars, at, reply, granted, body, serverVars>>

EndBody(t) ==
  /\ Awaited(t)
  /\ reply[t] # "none"
  /\ body[t] = "open"
  /\ \E end \in {"ended", "broken"} : body' = [body EXCEPT ![t] = end]
  /\ UNCHANGED <<session, callerVars, at, reply, granted, answered, serverVars>>

\* The server comes back without its sessions, and may keep none or new ones.
Redeploy ==
  /\ redeploys < MaxRedeploys
  /\ redeploys' = redeploys + 1
  /\ live' = {}
  /\ stateful' \in BOOLEAN
  /\ UNCHANGED <<session, callerVars, exchangeVars, issued, executed>>

-----------------------------------------------------------------------------

\* post, postNotify and what is around them.
Caller(t) ==
  \/ Send(t)
  \/ TransportFails(t)
  \/ ReadHeaders(t)
  \/ setSession(t)
  \/ Decoded(t)
  \/ Undecoded(t)
  \/ ContextDone(t)
  \/ postNotify(t)

Server(t) == Serve(t) \/ Refuse(t) \/ Reply(t) \/ SendAnswer(t) \/ EndBody(t)

Next ==
  \/ \E t \in Callers : Caller(t) \/ Expire(t) \/ Server(t)
  \/ Redeploy

Spec == Init /\ [][Next]_vars

\* Goroutines run and deadlines pass; the server need not do anything.
Fairness ==
  /\ \A t \in Callers :
       WF_vars(ReadHeaders(t) \/ setSession(t) \/ Decoded(t) \/ Undecoded(t) \/ ContextDone(t))
  /\ \A t \in Bounded : WF_vars(Expire(t))

FairSpec == Spec /\ Fairness

-----------------------------------------------------------------------------
(* Properties *)

\* The server refuses a request for its session only if it has been redeployed:
\* the id given to Initialize is captured and replayed on every later request
\* ("post() captures that id and replays it on every subsequent request").
RefusedOnlyAfterRedeploy ==
  \A t \in Callers : at[t] = "refused" => redeploys > 0

\* Every tool call that has been sent comes to an end, whatever the server does
\* ("a hung/slow backend MCP server can never wedge a Claude Desktop tool call").
CallsReturn == \A t \in Bounded : pc[t] = "headers" ~> pc[t] = "returned"

\* Once the answer has come on a stream the request is over, though the server
\* may hold the stream open for ever and the context have no deadline ("a
\* backend that holds the POST-response stream open can't wedge the proxy").
AnswerEndsWait ==
  \A t \in Callers : reply[t] = "sse" /\ t \in answered ~> pc[t] \in {"notify", "returned"}

\* The promise to the callers, module BackendService.  A request whose exchange
\* has failed or run out of time may still be executed.
Service == INSTANCE BackendService WITH LateResults <- {"gaveUp", "lost"}

ServiceSpec == Service!Spec

=============================================================================
