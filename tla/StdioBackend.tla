----------------------------- MODULE StdioBackend -----------------------------
(***************************************************************************)
(* One stdio backend (backend.go, type stdioBackend): the (re)connect      *)
(* machinery over the connections of module StdioConn.                     *)
(*                                                                         *)
(* Each caller is a goroutine that makes one request of the backend:       *)
(* Initialize, or CallTool / ListTools, which both are                     *)
(* callWithReconnect.  A caller enters stdioConn.call at most four times:  *)
(* per try once for the handshake, if it is the one to connect, and once   *)
(* for its request.  A context may be cancelled at any time (a signal);    *)
(* that of CallTool has a deadline, that of ListTools has none: Aggregate  *)
(* passes it main's.                                                       *)
(*                                                                         *)
(* Atomicity: mu is held over a whole connect, so its owner is a variable; *)
(* every other critical section of mu contains no blocking operation and   *)
(* is one step.                                                            *)
(***************************************************************************)
EXTENDS StdioConn

CONSTANTS
  Callers,        \* goroutines that use the backend
  Initializers,   \* those that call Initialize; the others callWithReconnect
  Bounded,        \* those whose context has a deadline: CallTool
  Nobody,         \* the owner of mu when it is free
  BackoffBase,    \* reconnectBackoffBase
  BackoffMax,     \* reconnectBackoffMax
  MaxExpiries     \* bound: contexts, of handshakes and callers, that expire

Tries == {1, 2}

Handshake(t, n) == <<t, n, "initialize">>
Request(t, n)   == <<t, n, "request">>

ASSUME CallersAssumption ==
  /\ Calls = Callers \X Tries \X {"initialize", "request"}
  /\ Initializers \subseteq Callers
  /\ Bounded \subseteq Callers \ Initializers
  /\ Nobody \notin Callers

ASSUME BackoffAssumption ==
  /\ MaxExpiries \in Nat
  /\ BackoffBase \in Nat \ {0}
  /\ BackoffMax \in Nat
  /\ BackoffBase <= BackoffMax

VARIABLES
  pc,       \* pc[t]: where caller t stands, "ensure" from before it is scheduled
  try,      \* try[t]: 1, or 2 in the retry of callWithReconnect
  mine,     \* mine[t]: the connection t last got or is connecting, 0 before
  result,   \* result[t]: how t's request ended
  mu,       \* the caller that holds b.mu over a connect, or Nobody
  conn,     \* b.conn, 0 for nil
  backoff,  \* b.backoff
  gated,    \* b.now() is before b.nextRetry
  spawned   \* number of connections spawned

callerVars  == <<pc, try, mine, result>>
backendVars == <<mu, conn, backoff, gated, spawned>>
vars        == <<connVars, callerVars, backendVars>>

Results == {"none", "ready", "answered", "unavailable", "gaveUp", "lost"}

TypeOK ==
  /\ ConnTypeOK
  /\ pc \in [Callers -> {"ensure", "spawn", "handshake", "request", "invalidate",
                         "returned"}]
  /\ try \in [Callers -> Tries]
  /\ mine \in [Callers -> {0} \cup Conns]
  /\ result \in [Callers -> Results]
  /\ mu \in Callers \cup {Nobody}
  /\ conn \in {0} \cup Conns
  /\ backoff \in {0} \cup (BackoffBase..BackoffMax)
  /\ gated \in BOOLEAN
  /\ spawned \in {0} \cup Conns

Init ==
  /\ ConnInit
  /\ pc = [t \in Callers |-> "ensure"]
  /\ try = [t \in Callers |-> 1]
  /\ mine = [t \in Callers |-> 0]
  /\ result = [t \in Callers |-> "none"]
  /\ mu = Nobody
  /\ conn = 0
  /\ backoff = 0
  /\ gated = FALSE
  /\ spawned = 0

GoTo(t, label) == pc' = [pc EXCEPT ![t] = label]

Finish(t, r) ==
  /\ GoTo(t, "returned")
  /\ result' = [result EXCEPT ![t] = r]

-----------------------------------------------------------------------------
(* Backoff. *)

\* Mutant: the cap is forgotten.
advanceUncapped ==
  /\ backoff' = IF backoff = 0 THEN BackoffBase ELSE 2 * backoff
  /\ gated' = TRUE

advanceBackoff ==
  /\ backoff' = IF backoff = 0 THEN BackoffBase
                ELSE IF 2 * backoff > BackoffMax THEN BackoffMax
                ELSE 2 * backoff
  /\ gated' = TRUE

\* Mutant: only the gate is opened.
resetGateOnly ==
  /\ gated' = FALSE
  /\ UNCHANGED backoff

resetBackoff ==
  /\ backoff' = 0
  /\ gated' = FALSE

\* The clock passes nextRetry.
WindowElapses ==
  /\ gated
  /\ gated' = FALSE
  /\ UNCHANGED <<connVars, callerVars, mu, conn, backoff, spawned>>

-----------------------------------------------------------------------------
(* ensureConn. *)

\* ensureConn returns connection c; Initialize needs no more.
Proceed(t, c) ==
  /\ mine' = [mine EXCEPT ![t] = c]
  /\ IF t \in Initializers
     THEN Finish(t, "ready")
     ELSE GoTo(t, "request") /\ UNCHANGED result

CurrentAlive == conn # 0 /\ alive(conn)

\* The current connection is alive.
EnsureLive(t) ==
  /\ pc[t] = "ensure"
  /\ mu = Nobody
  /\ CurrentAlive
  /\ Proceed(t, conn)
  /\ UNCHANGED <<connVars, try, backendVars>>

\* Otherwise it is shut down and forgotten, if there is one, and ...
DropDead(t) ==
  /\ pc[t] = "ensure"
  /\ mu = Nobody
  /\ ~CurrentAlive
  /\ IF conn = 0 THEN UNCHANGED connVars ELSE shutdown(conn)
  /\ conn' = 0

\* ... inside the backoff window the call fails at once,
EnsureGated(t) ==
  /\ DropDead(t)
  /\ gated
  /\ Finish(t, "unavailable")
  /\ UNCHANGED <<try, mine, mu, backoff, gated, spawned>>

\* Mutant: the window is not looked at.
EnsureConnectsUngated(t) ==
  /\ DropDead(t)
  /\ mu' = t
  /\ GoTo(t, "spawn")
  /\ UNCHANGED <<try, mine, result, backoff, gated, spawned>>

\* ... outside it the caller connects, keeping mu.
EnsureConnects(t) ==
  /\ DropDead(t)
  /\ ~gated
  /\ mu' = t
  /\ GoTo(t, "spawn")
  /\ UNCHANGED <<try, mine, result, backoff, gated, spawned>>

-----------------------------------------------------------------------------
(* connect, by the caller that holds mu. *)

ConnectFails(t) ==
  /\ advanceBackoff
  /\ mu' = Nobody
  /\ Finish(t, "unavailable")
  /\ UNCHANGED <<try, mine, conn, spawned>>

\* A pipe cannot be made or the command cannot be started.
SpawnFails(t) ==
  /\ pc[t] = "spawn"
  /\ ConnectFails(t)
  /\ UNCHANGED connVars

Spawn(t) ==
  /\ pc[t] = "spawn"
  /\ spawned < MaxConns
  /\ SpawnConn(spawned + 1)
  /\ spawned' = spawned + 1
  /\ mine' = [mine EXCEPT ![t] = spawned + 1]
  /\ GoTo(t, "handshake")
  /\ UNCHANGED <<try, result, mu, conn, backoff, gated>>

\* The initialize request: call(ctx, "initialize").
Greet(t) ==
  /\ pc[t] = "handshake"
  /\ Register(Handshake(t, try[t]), mine[t])
  /\ UNCHANGED <<callerVars, backendVars>>

HandshakeOut(t) == out[Handshake(t, try[t])]

\* The bound on expiring contexts; the tries of a caller share one.
MayExpire ==
  Cardinality(expired \ {Request(t, 2) : t \in Callers}) < MaxExpiries

\* Mutant: the handshake has no timeout.
HandshakeUnbounded(t) == FALSE

\* The handshake timeout of a connect under way.
HandshakeExpires(t) ==
  /\ pc[t] = "handshake"
  /\ Handshake(t, try[t]) \notin expired
  /\ MayExpire
  /\ Expire({Handshake(t, try[t])})
  /\ UNCHANGED <<callerVars, backendVars>>

\* Mutant: the child of a failed handshake is left running.
HandshakeFailsLeavesChild(t) ==
  /\ pc[t] = "handshake"
  /\ HandshakeOut(t) # "none"
  /\ ConnectFails(t)
  /\ UNCHANGED connVars

\* No answer, an error answer, or the notification cannot be written.
HandshakeFails(t) ==
  /\ pc[t] = "handshake"
  /\ HandshakeOut(t) # "none"
  /\ shutdown(mine[t])
  /\ ConnectFails(t)

\* Mutant: the notification is not sent.
HandshakeHalfDone(t) ==
  /\ pc[t] = "handshake"
  /\ HandshakeOut(t) = "response"
  /\ resetBackoff
  /\ conn' = mine[t]
  /\ mu' = Nobody
  /\ Proceed(t, mine[t])
  /\ UNCHANGED <<connVars, try, spawned>>

\* An answer without error and the notifications/initialized line written.
HandshakeSucceeds(t) ==
  /\ pc[t] = "handshake"
  /\ HandshakeOut(t) = "response"
  /\ WriteInitialized(mine[t])
  /\ resetBackoff
  /\ conn' = mine[t]
  /\ mu' = Nobody
  /\ Proceed(t, mine[t])
  /\ UNCHANGED <<try, spawned>>

-----------------------------------------------------------------------------
(* callWithReconnect and the rest. *)

SendRequest(t) ==
  /\ pc[t] = "request"
  /\ Register(Request(t, try[t]), mine[t])
  /\ UNCHANGED <<callerVars, backendVars>>

\* The caller's context, which both tries share, is cancelled or runs out.
CallerExpires(t) ==
  /\ pc[t] # "returned"
  /\ t \notin Initializers
  /\ Request(t, 1) \notin expired
  /\ MayExpire
  /\ Expire({Request(t, n) : n \in Tries})
  /\ UNCHANGED <<callerVars, backendVars>>

RequestOut(t) == out[Request(t, try[t])]
CtxDone(t)    == Request(t, try[t]) \in expired

Answered(t) ==
  /\ pc[t] = "request"
  /\ RequestOut(t) = "response"
  /\ Finish(t, "answered")
  /\ UNCHANGED <<connVars, try, mine, backendVars>>

\* Mutant: running out of time is reported as a lost connection.
FailedAsLost(t) ==
  /\ pc[t] = "request"
  /\ RequestOut(t) \in {"ctx", "closed", "write"}
  /\ CtxDone(t) \/ try[t] = 2
  /\ Finish(t, "lost")
  /\ UNCHANGED <<connVars, try, mine, backendVars>>

\* call failed and will not be tried again: the caller is out of time, or this
\* was the second try.
Failed(t) ==
  /\ pc[t] = "request"
  /\ RequestOut(t) \in {"ctx", "closed", "write"}
  /\ \/ CtxDone(t) /\ Finish(t, "gaveUp")
     \/ ~CtxDone(t) /\ try[t] = 2 /\ Finish(t, "lost")
  /\ UNCHANGED <<connVars, try, mine, backendVars>>

\* Mutant: the context is not looked at before the retry.
WillRetryRegardless(t) ==
  /\ pc[t] = "request"
  /\ RequestOut(t) \in {"ctx", "closed", "write"}
  /\ try[t] = 1
  /\ GoTo(t, "invalidate")
  /\ UNCHANGED <<connVars, try, mine, result, backendVars>>

\* The connection dropped and ctx is not done: reconnect and retry once.
WillRetry(t) ==
  /\ pc[t] = "request"
  /\ RequestOut(t) \in {"ctx", "closed", "write"}
  /\ ~CtxDone(t)
  /\ try[t] = 1
  /\ GoTo(t, "invalidate")
  /\ UNCHANGED <<connVars, try, mine, result, backendVars>>

\* Mutant: whatever connection is current is dropped.
invalidateCurrent(t) ==
  /\ pc[t] = "invalidate"
  /\ mu = Nobody
  /\ IF conn # 0
     THEN shutdown(conn) /\ conn' = 0
     ELSE UNCHANGED <<connVars, conn>>
  /\ try' = [try EXCEPT ![t] = 2]
  /\ GoTo(t, "ensure")
  /\ UNCHANGED <<mine, result, mu, backoff, gated, spawned>>

\* invalidate: drop the connection that failed, unless it has been replaced.
invalidate(t) ==
  /\ pc[t] = "invalidate"
  /\ mu = Nobody
  /\ IF conn = mine[t]
     THEN shutdown(conn) /\ conn' = 0
     ELSE UNCHANGED <<connVars, conn>>
  /\ try' = [try EXCEPT ![t] = 2]
  /\ GoTo(t, "ensure")
  /\ UNCHANGED <<mine, result, mu, backoff, gated, spawned>>

\* Close, from any goroutine at any time.
Close ==
  /\ mu = Nobody
  /\ conn # 0
  /\ shutdown(conn)
  /\ conn' = 0
  /\ UNCHANGED <<callerVars, mu, backoff, gated, spawned>>

-----------------------------------------------------------------------------

\* Inside stdioConn.call, for one of its calls.
InCall(t) ==
  /\ \E n \in Tries : call(Handshake(t, n)) \/ call(Request(t, n))
  /\ UNCHANGED <<callerVars, backendVars>>

\* What caller t does once it is invoked.
Caller(t) ==
  \/ EnsureLive(t)
  \/ EnsureGated(t)
  \/ EnsureConnects(t)
  \/ SpawnFails(t)
  \/ Spawn(t)
  \/ Greet(t)
  \/ HandshakeFails(t)
  \/ HandshakeSucceeds(t)
  \/ SendRequest(t)
  \/ Answered(t)
  \/ Failed(t)
  \/ WillRetry(t)
  \/ invalidate(t)
  \/ InCall(t)

Timers(t) == HandshakeExpires(t) \/ CallerExpires(t)

Reader(c) == readLoop(c) /\ UNCHANGED <<callerVars, backendVars>>
Child(c)  == child(c) /\ UNCHANGED <<callerVars, backendVars>>

Next ==
  \/ \E t \in Callers : Caller(t) \/ Timers(t)
  \/ \E c \in Conns : Reader(c) \/ Child(c)
  \/ WindowElapses
  \/ Close

Spec == Init /\ [][Next]_vars

\* The Go scheduler runs every goroutine that can run, and timers fire.
Fairness ==
  /\ \A t \in Callers : WF_vars(Caller(t)) /\ WF_vars(HandshakeExpires(t))
  /\ \A t \in Bounded : WF_vars(CallerExpires(t))
  /\ \A c \in Conns : WF_vars(Reader(c))

FairSpec == Spec /\ Fairness

\* A child that lives goes on reading its stdin: not the proxy's to decide.
TakesLines(c) == ChildTakes(c) /\ UNCHANGED <<callerVars, backendVars>>

ReadingSpec == FairSpec /\ \A c \in Conns : WF_vars(TakesLines(c))

-----------------------------------------------------------------------------
(* Properties *)

\* Every child that runs is the one of b.conn or the one being connected:
\* replacing, invalidating or failing to connect leaves no process behind.
NoOrphanChild ==
  \A c \in Conns : Runs(c) =>
    \/ c = conn
    \/ \E t \in Callers : mu = t /\ pc[t] = "handshake" /\ mine[t] = c

\* A child executes a request only after it has been told that the handshake is
\* complete ("must complete this before tools/* work", initialize's comment).
HandshakeFirst ==
  \A c \in Conns : \A t \in Callers, n \in Tries :
    Request(t, n) \in taken[c] => Initialized \in taken[c]

\* The second try starts only if the first failed for its connection, not by the
\* caller's context, and the child of that connection has died or been killed by
\* then, also one that lived on and only closed its stdin, so that the tries of
\* one request never execute on the same child nor side by side.
RetryOnlyAcrossRestart ==
  \A t \in Callers : step[Request(t, 2)] # "new" =>
    /\ out[Request(t, 1)] \in {"closed", "write"}
    /\ Gone(on[Request(t, 1)])
    /\ on[Request(t, 2)] # on[Request(t, 1)]

\* A session is up only if the failures before it are forgotten.
ConnectedMeansNoBackoff == conn # 0 => backoff = 0 /\ ~gated

\* "A dead backend triggers exactly one respawn", and none inside the backoff
\* window: a child is spawned only when no other one runs and the gate is open.
SpawnOnlyWhenDown ==
  [][spawned' # spawned => ~gated /\ \A c \in Conns : ~Runs(c)]_vars

\* Nobody but Close takes away a connection that works: invalidate never drops
\* the connection another caller has made meanwhile.
WorkingConnKept ==
  [][conn # 0 /\ alive(conn) /\ proc[conn] = "up" /\ conn' # conn
       => Close]_vars

\* Every request that has a deadline comes to an end ("a hung/slow backend MCP
\* server can never wedge a Claude Desktop tool call", forwardAndRedact).  One
\* that has none, ListTools, may wait for ever for a child that says nothing.
EveryCallReturns == \A t \in Bounded : <>(pc[t] = "returned")

\* Whatever the child says or not, a connect releases mu, also under a context
\* without a deadline (handshakeTimeout's comment).
MutexReleased == \A t \in Callers : mu = t ~> mu # t

\* The death of a child always reaches the closed channel of its connection:
\* the reader is never stuck on an answer nobody takes.
DeathDetected == \A c \in Conns : proc[c] = "down" ~> closed[c]

\* The promise to the callers, module BackendService.
executed == [t \in Callers |->
  {n \in Tries : \E c \in Conns : Request(t, n) \in taken[c]}]

Service == INSTANCE BackendService WITH LateResults <- {"gaveUp"}

ServiceSpec == Service!Spec

=============================================================================
