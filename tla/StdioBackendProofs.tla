-------------------------- MODULE StdioBackendProofs --------------------------
(***************************************************************************)
(* Proofs about the stdio backend: it uses its connections only as module  *)
(* StdioConn allows, so that what is proved of them there holds here.      *)
(***************************************************************************)
EXTENDS StdioBackend, StdioConnProofs

\* The backend's own variables are well typed, and a caller that uses a
\* connection has got one.
BackendInv ==
  /\ pc \in [Callers -> {"ensure", "spawn", "handshake", "request", "invalidate",
                         "returned"}]
  /\ try \in [Callers -> Tries]
  /\ mine \in [Callers -> {0} \cup Conns]
  /\ result \in [Callers -> Results]
  /\ mu \in Callers \cup {Nobody}
  /\ conn \in {0} \cup Conns
  /\ backoff \in {0} \cup (BackoffBase..BackoffMax)
  /\ gated \in BOOLEAN
  /\ spawned \in {0} \cup Conns
  /\ \A t \in Callers : pc[t] \in {"handshake", "request", "invalidate"} => mine[t] # 0

LEMMA BackendInvStep ==
  ASSUME BackendInv, [Next]_vars
  PROVE  BackendInv'
<1> USE DEF BackendInv, callerVars, backendVars
<1>1. ASSUME NEW t \in Callers, EnsureLive(t) PROVE BackendInv'
  BY <1>1 DEF EnsureLive, Proceed, GoTo, Finish, Results, CurrentAlive
<1>2. ASSUME NEW t \in Callers, EnsureGated(t) PROVE BackendInv'
  BY <1>2 DEF EnsureGated, DropDead, GoTo, Finish, Results
<1>3. ASSUME NEW t \in Callers, EnsureConnects(t) PROVE BackendInv'
  BY <1>3 DEF EnsureConnects, DropDead, GoTo
<1>4. ASSUME NEW t \in Callers, ConnectFails(t) PROVE BackendInv'
  BY <1>4, BackoffAssumption DEF ConnectFails, advanceBackoff, GoTo, Finish, Results
<1>5. ASSUME NEW t \in Callers, Spawn(t) PROVE BackendInv'
  BY <1>5, BoundsAssumption DEF Spawn, GoTo, Conns
<1>6. ASSUME NEW t \in Callers, HandshakeSucceeds(t) PROVE BackendInv'
  BY <1>6 DEF HandshakeSucceeds, resetBackoff, Proceed, GoTo, Finish, Results
<1>7. ASSUME NEW t \in Callers, Answered(t) \/ Failed(t) PROVE BackendInv'
  BY <1>7 DEF Answered, Failed, GoTo, Finish, Results
<1>8. ASSUME NEW t \in Callers, WillRetry(t) PROVE BackendInv'
  BY <1>8 DEF WillRetry, GoTo
<1>9. ASSUME NEW t \in Callers, invalidate(t) PROVE BackendInv'
  BY <1>9 DEF invalidate, GoTo, Tries
<1>10. CASE WindowElapses
  BY <1>10 DEF WindowElapses
<1>11. CASE Close
  BY <1>11 DEF Close
<1>12. CASE UNCHANGED <<callerVars, backendVars>>
  BY <1>12
<1>13. ASSUME NEW t \in Callers, Caller(t) PROVE BackendInv'
  BY <1>1, <1>2, <1>3, <1>4, <1>5, <1>6, <1>7, <1>8, <1>9, <1>12, <1>13
  DEF Caller, SpawnFails, HandshakeFails, Greet, SendRequest, InCall
<1> QED
  BY <1>10, <1>11, <1>12, <1>13
  DEF Next, Timers, HandshakeExpires, CallerExpires, Reader, Child, vars

\* The calls a caller makes are calls of the connections.
LEMMA FramesAreCalls ==
  ASSUME NEW t \in Callers, NEW n \in Tries
  PROVE  Handshake(t, n) \in Calls /\ Request(t, n) \in Calls
BY CallersAssumption DEF Handshake, Request

\* Every step of the backend is a step of its connections, or none.
LEMMA ConnectionsStep ==
  ASSUME BackendInv, [Next]_vars
  PROVE  [ConnNext]_connVars
<1>1. ASSUME NEW t \in Callers, DropDead(t) PROVE [ConnNext]_connVars
  BY <1>1 DEF DropDead, ConnNext, BackendInv
<1>2. ASSUME NEW t \in Callers, Spawn(t) PROVE ConnNext
  <2>1. spawned + 1 \in Conns
    BY <1>2, BoundsAssumption DEF Spawn, BackendInv, Conns
  <2> QED BY <1>2, <2>1 DEF Spawn, ConnNext
<1>3. ASSUME NEW t \in Callers, Greet(t) \/ SendRequest(t) PROVE ConnNext
  <2>1. mine[t] \in Conns /\ try[t] \in Tries
    BY <1>3 DEF Greet, SendRequest, BackendInv
  <2> QED BY <1>3, <2>1, FramesAreCalls DEF Greet, SendRequest, ConnNext
<1>4. ASSUME NEW t \in Callers, HandshakeFails(t) \/ HandshakeSucceeds(t) PROVE ConnNext
  <2>1. mine[t] \in Conns
    BY <1>4 DEF HandshakeFails, HandshakeSucceeds, BackendInv
  <2> QED BY <1>4, <2>1 DEF HandshakeFails, HandshakeSucceeds, ConnNext
<1>5. ASSUME NEW t \in Callers, invalidate(t) PROVE [ConnNext]_connVars
  <2>1. pc[t] = "invalidate" /\ mine[t] \in Conns
    BY <1>5 DEF invalidate, BackendInv
  <2>2. CASE conn = mine[t]
    BY <1>5, <2>1, <2>2 DEF invalidate, ConnNext
  <2>3. CASE conn # mine[t]
    BY <1>5, <2>3 DEF invalidate
  <2> QED BY <2>2, <2>3
<1>6. ASSUME NEW t \in Callers, InCall(t) PROVE ConnNext
  BY <1>6, FramesAreCalls DEF InCall, ConnNext
<1>7. ASSUME NEW t \in Callers, Timers(t) PROVE ConnNext
  <2>1. CASE HandshakeExpires(t)
    <3>1. {Handshake(t, try[t])} \in SUBSET Calls
      BY FramesAreCalls DEF BackendInv
    <3> QED BY <2>1, <3>1 DEF HandshakeExpires, ConnNext
  <2>2. CASE CallerExpires(t)
    <3>1. {Request(t, n) : n \in Tries} \in SUBSET Calls
      BY FramesAreCalls
    <3> QED BY <2>2, <3>1 DEF CallerExpires, ConnNext
  <2> QED BY <1>7, <2>1, <2>2 DEF Timers
<1>8. ASSUME NEW t \in Callers, Caller(t) PROVE [ConnNext]_connVars
  BY <1>1, <1>2, <1>3, <1>4, <1>5, <1>6, <1>8
  DEF Caller, EnsureLive, EnsureGated, EnsureConnects, SpawnFails, Answered, Failed, WillRetry
<1>9. CASE Close
  BY <1>9 DEF Close, ConnNext, BackendInv
<1>10. CASE WindowElapses
  BY <1>10 DEF WindowElapses
<1>11. ASSUME NEW c \in Conns, Reader(c) \/ Child(c) PROVE ConnNext
  BY <1>11 DEF Reader, Child, ConnNext
<1>12. CASE UNCHANGED vars
  BY <1>12 DEF vars
<1> QED BY <1>7, <1>8, <1>9, <1>10, <1>11, <1>12 DEF Next

\* The backend implements the connection layer: whatever it does with its
\* connections is what module StdioConn describes.
THEOREM UsesConnections == Spec => ConnSpec
<1>1. Init => ConnInit /\ BackendInv
  BY DEF Init, BackendInv, Tries, Results
<1>2. BackendInv /\ [Next]_vars => BackendInv' /\ [ConnNext]_connVars
  BY BackendInvStep, ConnectionsStep
<1> QED BY <1>1, <1>2, PTL DEF Spec, ConnSpec

\* The types of all variables, of the connections and of the backend.
THEOREM TypeCorrect == Spec => []TypeOK
<1>1. Init => BackendInv
  BY DEF Init, BackendInv, Tries, Results
<1>2. BackendInv /\ [Next]_vars => BackendInv'
  BY BackendInvStep
<1>3. BackendInv /\ ConnTypeOK => TypeOK
  BY DEF BackendInv, TypeOK
<1> QED BY <1>1, <1>2, <1>3, UsesConnections, ConnTypeCorrect, PTL DEF Spec

\* What is proved of the connections holds inside the backend.
THEOREM BackendConnCorrect ==
  Spec => [](OwnAnswer /\ SendNeverBlocks /\ TableIsExact /\ DeadMeansGone)
BY UsesConnections, ConnCorrect, PTL

\* readLoop never blocks on the channel of a caller, whatever the callers do
\* meanwhile (ch <- &resp).
THEOREM SendNeverBlocksHolds == Spec => []SendNeverBlocks
BY BackendConnCorrect, PTL

\* A caller told that its connection has closed can rely on it that the child has
\* ended or been killed (callWithReconnect retries for that reason).
THEOREM DeadMeansGoneHolds == Spec => []DeadMeansGone
BY BackendConnCorrect, PTL

\* Inside the backend, too, the reader stops early only for a line that exceeds
\* the scanner's buffer.
THEOREM BackendReaderStopsConfined == Spec /\ []NoLongLine => []ReaderEndsWithChild
BY UsesConnections, ReaderStopsConfined, PTL

=============================================================================
