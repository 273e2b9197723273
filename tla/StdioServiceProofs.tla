-------------------------- MODULE StdioServiceProofs --------------------------
(***************************************************************************)
(* Proofs about what the stdio backend promises its callers, for any       *)
(* number of concurrent callers and of contexts that expire.               *)
(***************************************************************************)
EXTENDS StdioBackendProofs

-----------------------------------------------------------------------------
(* What the outcome of a call tells.                                         *)

\* A child that has been started and takes no more lines.
Unhearing == {"deaf", "killed", "down"}

\* A call that has given up for the context was out of time, one that has found
\* its connection closed or unwritable can no longer be taken by its child, and one
\* that was answered had been taken.
OutcomeTrue ==
  \A k \in Calls :
    /\ out[k] # "none" => step[k] = "returned"
    /\ out[k] = "ctx" => k \in expired
    /\ out[k] \in {"closed", "write"} => proc[on[k]] \in Unhearing
    /\ out[k] = "response" => k \in taken[on[k]]

\* An answer in a channel, in the reader's hand or on its way there is one to a
\* line that the child has taken.
AnswerTaken ==
  /\ \A k \in Calls : chan[k] # {} => k \in taken[on[k]]
  /\ \A c \in Conns : working[c] \subseteq taken[c]
  /\ \A c \in Conns : \A p \in hand[c] : p[2] \in taken[c]

StdoutTaken ==
  \A c \in Conns : \A i \in 1..Len(stdout[c]) :
    stdout[c][i] \in Calls => stdout[c][i] \in taken[c]

Traced == OutcomeTrue /\ AnswerTaken /\ StdoutTaken

\* What no step undoes: the end of a child and its deafness, what it has taken, the place of a
\* call and its outcome.
Lasting ==
  /\ \A c \in Conns : /\ Gone(c) => Gone(c)'
                      /\ proc[c] \in Unhearing => proc'[c] \in Unhearing
                      /\ proc[c] # "none" => proc'[c] # "none"
                      /\ taken[c] \subseteq taken'[c]
  /\ \A k \in Calls : /\ step[k] # "new" => step'[k] # "new" /\ on'[k] = on[k]
                      /\ out[k] # "none" => out'[k] = out[k]

LEMMA ConnLasts ==
  ASSUME ConnTypeOK, OutcomeTrue, [ConnNext]_connVars
  PROVE  Lasting
<1> USE DEF Lasting, Gone, Unhearing, callVars, tableVars, childVars
<1>1. ASSUME NEW c \in Conns, SpawnConn(c) PROVE Lasting
  BY <1>1 DEF SpawnConn, ConnTypeOK
<1>2. ASSUME NEW c \in Conns, shutdown(c) PROVE Lasting
  BY <1>2 DEF shutdown, ProcessEnds, ConnTypeOK
<1>3. ASSUME NEW c \in Conns, WriteInitialized(c) PROVE Lasting
  BY <1>3 DEF WriteInitialized
<1>4. ASSUME NEW k \in Calls, NEW c \in Conns, Register(k, c) PROVE Lasting
  BY <1>4 DEF Register, ConnTypeOK
<1>5. ASSUME NEW k \in Calls, WriteRequest(k) PROVE Lasting
  BY <1>5 DEF WriteRequest, ConnTypeOK
<1>6. ASSUME NEW k \in Calls, NEW o \in Outcomes, step[k] \in {"write", "wait"}, Return(k, o),
             UNCHANGED <<proc, taken>>
      PROVE  Lasting
  BY <1>6 DEF Return, ConnTypeOK, OutcomeTrue
<1>7. ASSUME NEW k \in Calls, call(k) PROVE Lasting
  BY <1>5, <1>6, <1>7
  DEF call, WriteFails, SelectCtx, SelectClosed, SelectResponse, GiveUp, Outcomes
<1>8. ASSUME NEW K \in SUBSET Calls, Expire(K) PROVE Lasting
  BY <1>8 DEF Expire
<1>9. ASSUME NEW c \in Conns, readLoop(c) PROVE Lasting
  BY <1>9 DEF readLoop, ReadAnswer, ReadDropped, ReadOversized, Scanned, Deliver, markDead
<1>10. ASSUME NEW c \in Conns, child(c) PROVE Lasting
  <2>1. CASE ChildTakes(c)
    BY <2>1 DEF ChildTakes, ConnTypeOK
  <2>2. CASE ChildDies(c)
    BY <2>2 DEF ChildDies, ProcessEnds, ConnTypeOK
  <2>3. CASE ChildClosesStdin(c)
    BY <2>3 DEF ChildClosesStdin, ConnTypeOK
  <2>4. CASE ChildChatters(c) \/ \E k \in Calls : ChildAnswers(c, k)
    BY <2>4 DEF ChildAnswers, ChildChatters, ChildWrites
  <2> QED BY <1>10, <2>1, <2>2, <2>3, <2>4 DEF child
<1>11. CASE UNCHANGED connVars
  BY <1>11 DEF connVars
<1> QED BY <1>1, <1>2, <1>3, <1>4, <1>7, <1>8, <1>9, <1>10, <1>11 DEF ConnNext

LEMMA TracedInit == ConnInit => Traced
BY DEF ConnInit, Traced, OutcomeTrue, AnswerTaken, StdoutTaken

\* A step that changes no outcome leaves what the outcomes tell true.
LEMMA OutcomeLasts ==
  ASSUME ConnTypeOK, ConnInv, OutcomeTrue, Lasting, UNCHANGED out,
         expired \subseteq expired',
         \A k \in Calls : step[k] = "returned" => step'[k] = "returned"
  PROVE  OutcomeTrue'
<1> SUFFICES ASSUME NEW k \in Calls, out[k] # "none"
             PROVE  /\ step'[k] = "returned"
                    /\ out[k] = "ctx" => k \in expired'
                    /\ out[k] \in {"closed", "write"} => proc'[on'[k]] \in Unhearing
                    /\ out[k] = "response" => k \in taken'[on'[k]]
  BY DEF OutcomeTrue
<1>1. step[k] = "returned" /\ on[k] \in Conns
  BY DEF OutcomeTrue, ConnInv, Placed
<1>2. on'[k] = on[k]
  BY <1>1 DEF Lasting
<1> QED BY <1>1, <1>2 DEF OutcomeTrue, Lasting

\* A call returns with an outcome that tells the truth.
LEMMA OutcomeReturn ==
  ASSUME ConnTypeOK, ConnInv, OutcomeTrue, NEW k \in Calls, NEW o \in Outcomes, Return(k, o),
         UNCHANGED <<proc, taken>>,
         o = "ctx" => k \in expired,
         o \in {"closed", "write"} => proc[on[k]] \in Unhearing,
         o = "response" => k \in taken[on[k]]
  PROVE  OutcomeTrue'
BY DEF OutcomeTrue, Return, ConnTypeOK

LEMMA OutcomeStep ==
  ASSUME ConnTypeOK, ConnInv, Traced, [ConnNext]_connVars
  PROVE  OutcomeTrue'
<1> USE DEF callVars, tableVars, childVars
<1>0. Lasting /\ OutcomeTrue
  BY ConnLasts DEF Traced
<1>1. ASSUME NEW c \in Conns, SpawnConn(c) \/ shutdown(c) \/ WriteInitialized(c)
      PROVE  OutcomeTrue'
  BY <1>0, <1>1, OutcomeLasts DEF SpawnConn, shutdown, WriteInitialized
<1>2. ASSUME NEW k \in Calls, NEW c \in Conns, Register(k, c) PROVE OutcomeTrue'
  BY <1>0, <1>2, OutcomeLasts DEF Register, ConnTypeOK
<1>3. ASSUME NEW k \in Calls, WriteRequest(k) PROVE OutcomeTrue'
  BY <1>0, <1>3, OutcomeLasts DEF WriteRequest, ConnTypeOK
<1>4. ASSUME NEW k \in Calls, WriteFails(k) PROVE OutcomeTrue'
  <2>1. on[k] \in Conns /\ proc[on[k]] # "none"
    BY <1>4 DEF WriteFails, ConnInv, Placed
  <2>2. proc[on[k]] \in Unhearing
    BY <1>4, <2>1 DEF WriteFails, ConnTypeOK, Unhearing
  <2> QED BY <1>0, <1>4, <2>2, OutcomeReturn DEF WriteFails, GiveUp, Outcomes
<1>5. ASSUME NEW k \in Calls, SelectCtx(k) PROVE OutcomeTrue'
  BY <1>0, <1>5, OutcomeReturn DEF SelectCtx, GiveUp, Outcomes
<1>6. ASSUME NEW k \in Calls, SelectClosed(k) PROVE OutcomeTrue'
  <2>1. on[k] \in Conns
    BY <1>6 DEF SelectClosed, ConnInv, Placed
  <2>2. proc[on[k]] \in Unhearing
    BY <1>6, <2>1 DEF SelectClosed, ConnInv, DeadMeansGone, Gone, Unhearing
  <2> QED BY <1>0, <1>6, <2>2, OutcomeReturn DEF SelectClosed, GiveUp, Outcomes
<1>7. ASSUME NEW k \in Calls, SelectResponse(k) PROVE OutcomeTrue'
  <2>1. k \in taken[on[k]]
    BY <1>7 DEF SelectResponse, Traced, AnswerTaken
  <2> QED BY <1>0, <1>7, <2>1, OutcomeReturn DEF SelectResponse, Outcomes
<1>8. ASSUME NEW K \in SUBSET Calls, Expire(K) PROVE OutcomeTrue'
  BY <1>0, <1>8, OutcomeLasts DEF Expire
<1>9. ASSUME NEW c \in Conns, readLoop(c) PROVE OutcomeTrue'
  BY <1>0, <1>9, OutcomeLasts
  DEF readLoop, ReadAnswer, ReadDropped, ReadOversized, Scanned, Deliver, markDead
<1>10. ASSUME NEW c \in Conns, child(c) PROVE OutcomeTrue'
  BY <1>0, <1>10, OutcomeLasts
  DEF child, ChildTakes, ChildAnswers, ChildChatters, ChildWrites, ChildClosesStdin, ChildDies
<1>11. CASE UNCHANGED connVars
  BY <1>0, <1>11, OutcomeLasts DEF connVars
<1> QED
  BY <1>1, <1>2, <1>3, <1>4, <1>5, <1>6, <1>7, <1>8, <1>9, <1>10, <1>11 DEF ConnNext, call

LEMMA AnswerTakenStep ==
  ASSUME ConnTypeOK, ConnInv, Traced, [ConnNext]_connVars
  PROVE  AnswerTaken'
<1> USE DEF callVars, tableVars, childVars, AnswerTaken
<1>0. AnswerTaken /\ Lasting
  BY ConnLasts DEF Traced
<1>1. ASSUME NEW c \in Conns, SpawnConn(c) \/ WriteInitialized(c) PROVE AnswerTaken'
  BY <1>0, <1>1 DEF SpawnConn, WriteInitialized
<1>2. ASSUME UNCHANGED <<on, chan, hand, taken>>, \A c \in Conns : working'[c] \subseteq working[c]
      PROVE  AnswerTaken'
  BY <1>0, <1>2
<1>3. ASSUME NEW k \in Calls, NEW c \in Conns, Register(k, c) PROVE AnswerTaken'
  <2>1. chan[k] = {}
    BY <1>3 DEF Register, ConnInv, Placed
  <2> QED BY <1>0, <1>3, <2>1 DEF Register, ConnTypeOK
<1>4. ASSUME NEW k \in Calls, call(k) PROVE AnswerTaken'
  BY <1>0, <1>4 DEF call, WriteRequest, WriteFails, SelectCtx, SelectClosed, SelectResponse,
    GiveUp, Return
<1>5. ASSUME NEW K \in SUBSET Calls, Expire(K) PROVE AnswerTaken'
  BY <1>0, <1>5 DEF Expire
<1>6. ASSUME NEW c \in Conns, ReadAnswer(c) PROVE AnswerTaken'
  <2>1. Head(stdout[c]) \in taken[c]
    BY <1>6 DEF ReadAnswer, Scanned, Traced, StdoutTaken, ConnTypeOK
  <2>2. PICK j : hand' = [hand EXCEPT ![c] = {<<j, Head(stdout[c])>>}]
    BY <1>6 DEF ReadAnswer
  <2>3. \A d \in Conns : hand'[d] = IF d = c THEN {<<j, Head(stdout[c])>>} ELSE hand[d]
    BY <2>2 DEF ConnTypeOK
  <2> QED BY <1>0, <1>6, <2>1, <2>3 DEF ReadAnswer, Scanned
<1>7. ASSUME NEW c \in Conns, Deliver(c) PROVE AnswerTaken'
  <2>1. PICK p \in hand[c] : chan' = [chan EXCEPT ![p[1]] = {p[2]}]
    BY <1>7 DEF Deliver
  <2>2. p[2] = p[1] /\ on[p[1]] = c /\ p[2] \in taken[c]
    BY <1>0, <2>1 DEF ConnInv, OwnAnswer
  <2>3. \A k \in Calls : chan'[k] # {} => chan[k] # {} \/ k = p[1]
    BY <2>1 DEF ConnTypeOK
  <2>4. \A d \in Conns : hand'[d] \subseteq hand[d]
    BY <1>7 DEF Deliver, ConnTypeOK
  <2> QED BY <1>0, <1>7, <2>2, <2>3, <2>4 DEF Deliver
<1>8. ASSUME NEW c \in Conns, ReadDropped(c) \/ ReadOversized(c) \/ markDead(c)
      PROVE  AnswerTaken'
  BY <1>0, <1>8 DEF ReadDropped, ReadOversized, Scanned, markDead
<1>9. ASSUME NEW c \in Conns, ChildTakes(c) PROVE AnswerTaken'
  <2>1. \A k \in Calls : chan[k] # {} => on[k] \in Conns
    BY DEF ConnInv, Placed
  <2>2. UNCHANGED <<chan, on, hand>>
    BY <1>9 DEF ChildTakes
  <2>3. \A d \in Conns : working'[d] \subseteq taken'[d]
    BY <1>0, <1>9 DEF ChildTakes, ConnTypeOK
  <2> QED BY <1>0, <2>1, <2>2, <2>3 DEF Lasting
<1>10. ASSUME NEW c \in Conns, NEW k \in Calls, ChildAnswers(c, k) PROVE AnswerTaken'
  BY <1>0, <1>10 DEF ChildAnswers, ChildWrites, ConnTypeOK
<1>11. ASSUME NEW c \in Conns, ChildChatters(c) PROVE AnswerTaken'
  BY <1>0, <1>11 DEF ChildChatters, ChildWrites
<1>12. ASSUME NEW c \in Conns, shutdown(c) \/ ChildClosesStdin(c) \/ ChildDies(c)
       PROVE  AnswerTaken'
  <2>1. UNCHANGED <<on, chan, hand, taken>>
    BY <1>12 DEF shutdown, ChildClosesStdin, ChildDies, ProcessEnds
  <2>2. \/ UNCHANGED working
        \/ working' = [working EXCEPT ![c] = {}]
    BY <1>12 DEF shutdown, ChildClosesStdin, ChildDies, ProcessEnds
  <2>3. \A d \in Conns : working'[d] \subseteq working[d]
    BY <2>2 DEF ConnTypeOK
  <2> QED BY <1>2, <2>1, <2>3
<1>13. CASE UNCHANGED connVars
  BY <1>0, <1>13 DEF connVars
<1> QED
  BY <1>1, <1>3, <1>4, <1>5, <1>6, <1>7, <1>8, <1>9, <1>10, <1>11, <1>12, <1>13
  DEF ConnNext, readLoop, child

LEMMA StdoutTakenStep ==
  ASSUME ConnTypeOK, ConnInv, Traced, [ConnNext]_connVars
  PROVE  StdoutTaken'
<1> USE DEF callVars, tableVars, childVars
<1>0. StdoutTaken /\ AnswerTaken /\ Lasting
  BY ConnLasts DEF Traced
<1>1. CASE UNCHANGED stdout
  BY <1>0, <1>1 DEF StdoutTaken, Lasting
<1>2. ASSUME NEW c \in Conns, Scanned(c) PROVE StdoutTaken'
  BY <1>0, <1>2 DEF Scanned, StdoutTaken, ConnTypeOK
<1>3. ASSUME NEW c \in Conns, NEW line \in taken[c] \cup {Noise, Oversized}, ChildWrites(c, line)
      PROVE  StdoutTaken'
  <2> SUFFICES ASSUME NEW d \in Conns, NEW i \in 1..Len(stdout'[d]), stdout'[d][i] \in Calls
               PROVE  stdout'[d][i] \in taken[d]
    BY <1>3 DEF StdoutTaken, ChildWrites
  <2>1. stdout[d] \in Seq(Calls \cup {Noise, Oversized})
    BY DEF ConnTypeOK
  <2>2. CASE d = c
    <3>1. stdout'[d] = Append(stdout[d], line)
      BY <1>3, <2>2 DEF ChildWrites, ConnTypeOK
    <3>2. line \in Calls => line \in taken[c]
      BY LinesAssumption
    <3>3. i = Len(stdout[d]) + 1 => stdout'[d][i] = line
      BY <2>1, <3>1
    <3>4. i # Len(stdout[d]) + 1 =>
            i \in 1..Len(stdout[d]) /\ stdout'[d][i] = stdout[d][i]
      BY <2>1, <3>1
    <3> QED BY <1>0, <2>2, <3>2, <3>3, <3>4 DEF StdoutTaken
  <2>3. CASE d # c
    BY <1>0, <1>3, <2>3 DEF ChildWrites, ConnTypeOK, StdoutTaken
  <2> QED BY <2>2, <2>3
<1>4. ASSUME NEW c \in Conns, NEW k \in Calls, ChildAnswers(c, k) PROVE StdoutTaken'
  <2>1. PICK line \in {k, Oversized} : ChildWrites(c, line)
    BY <1>4 DEF ChildAnswers
  <2>2. line \in taken[c] \cup {Noise, Oversized}
    BY <1>0, <1>4, <2>1 DEF ChildAnswers, AnswerTaken
  <2> QED BY <1>3, <2>1, <2>2
<1>5. ASSUME NEW c \in Conns, ChildChatters(c) PROVE StdoutTaken'
  BY <1>3, <1>5 DEF ChildChatters
<1>6. ASSUME NEW k \in Calls, call(k) PROVE UNCHANGED stdout
  BY <1>6 DEF call, WriteRequest, WriteFails, SelectCtx, SelectClosed, SelectResponse, GiveUp
<1>7. ASSUME NEW c \in Conns, readLoop(c) PROVE StdoutTaken'
  BY <1>1, <1>2, <1>7 DEF readLoop, ReadAnswer, ReadDropped, ReadOversized, Deliver, markDead
<1>8. ASSUME NEW c \in Conns, child(c) PROVE StdoutTaken'
  BY <1>1, <1>4, <1>5, <1>8 DEF child, ChildTakes, ChildClosesStdin, ChildDies, ProcessEnds
<1>9. ASSUME NEW c \in Conns, SpawnConn(c) \/ shutdown(c) \/ WriteInitialized(c)
      PROVE  UNCHANGED stdout
  BY <1>9 DEF SpawnConn, shutdown, ProcessEnds, WriteInitialized
<1>10. CASE (\E k \in Calls, c \in Conns : Register(k, c)) \/ \E K \in SUBSET Calls : Expire(K)
  BY <1>1, <1>10 DEF Register, Expire
<1>11. CASE UNCHANGED connVars
  BY <1>1, <1>11 DEF connVars
<1> QED BY <1>1, <1>6, <1>7, <1>8, <1>9, <1>10, <1>11 DEF ConnNext

-----------------------------------------------------------------------------
(* The mutex, the gate and the children.                                     *)

\* Who connects holds the mutex, with no connection and the gate open.
MutexInv ==
  /\ \A t \in Callers : pc[t] \in {"spawn", "handshake"} <=> mu = t
  /\ mu # Nobody => conn = 0 /\ ~gated
  /\ ConnectedMeansNoBackoff

\* What is held as a connection has been spawned, and no child runs otherwise.
ChildInv ==
  /\ conn # 0 => proc[conn] # "none"
  /\ \A t \in Callers : mine[t] # 0 => proc[mine[t]] # "none"
  /\ NoOrphanChild

LEMMA MutexInvStep ==
  ASSUME BackendInv, MutexInv, [Next]_vars
  PROVE  MutexInv'
<1> USE CallersAssumption DEF MutexInv, BackendInv, ConnectedMeansNoBackoff, callerVars, backendVars
<1>1. ASSUME NEW t \in Callers, EnsureLive(t) PROVE MutexInv'
  BY <1>1 DEF EnsureLive, Proceed, GoTo, Finish
<1>2. ASSUME NEW t \in Callers, EnsureGated(t) \/ EnsureConnects(t) PROVE MutexInv'
  BY <1>2 DEF EnsureGated, EnsureConnects, DropDead, GoTo, Finish
<1>3. ASSUME NEW t \in Callers, pc[t] \in {"spawn", "handshake"}, ConnectFails(t)
      PROVE  MutexInv'
  BY <1>3 DEF ConnectFails, advanceBackoff, GoTo, Finish
<1>4. ASSUME NEW t \in Callers, Spawn(t) PROVE MutexInv'
  BY <1>4 DEF Spawn, GoTo
<1>5. ASSUME NEW t \in Callers, HandshakeSucceeds(t) PROVE MutexInv'
  BY <1>5 DEF HandshakeSucceeds, resetBackoff, Proceed, GoTo, Finish
<1>6. ASSUME NEW t \in Callers, Answered(t) \/ Failed(t) \/ WillRetry(t) PROVE MutexInv'
  BY <1>6 DEF Answered, Failed, WillRetry, GoTo, Finish
<1>7. ASSUME NEW t \in Callers, invalidate(t) PROVE MutexInv'
  BY <1>7 DEF invalidate, GoTo
<1>8. CASE WindowElapses
  BY <1>8 DEF WindowElapses
<1>9. CASE Close
  BY <1>9 DEF Close
<1>10. CASE UNCHANGED <<callerVars, backendVars>>
  BY <1>10
<1>11. ASSUME NEW t \in Callers, Caller(t) PROVE MutexInv'
  BY <1>1, <1>2, <1>3, <1>4, <1>5, <1>6, <1>7, <1>10, <1>11
  DEF Caller, SpawnFails, HandshakeFails, Greet, SendRequest, InCall
<1> QED
  BY <1>8, <1>9, <1>10, <1>11
  DEF Next, Timers, HandshakeExpires, CallerExpires, Reader, Child, vars

\* Only Spawn starts a child, and a child that has closed its stdin stays so.
LEMMA OnlySpawnStarts ==
  ASSUME BackendInv, ConnTypeOK, [Next]_vars, \A t \in Callers : ~Spawn(t), NEW c \in Conns
  PROVE  /\ proc'[c] = "up" => proc[c] = "up"
         /\ Runs(c)' => Runs(c)
<1> DEFINE Older == /\ proc'[c] = "up" => proc[c] = "up"
                    /\ Runs(c)' => Runs(c)
<1> USE DEF Runs, callVars, tableVars, childVars, ConnTypeOK
<1>0. CASE UNCHANGED proc
  BY <1>0
<1>1. ASSUME NEW d \in Conns, shutdown(d) PROVE Older
  BY <1>1 DEF shutdown, ProcessEnds
<1>2. ASSUME NEW k \in Calls, call(k) PROVE UNCHANGED proc
  BY <1>2 DEF call, WriteRequest, WriteFails, SelectCtx, SelectClosed, SelectResponse, GiveUp
<1>3. ASSUME NEW t \in Callers, Caller(t) PROVE Older
  <2>1. CASE DropDead(t)
    BY <1>0, <1>1, <2>1 DEF DropDead, BackendInv, connVars
  <2>2. CASE HandshakeFails(t) \/ invalidate(t)
    <3>1. mine[t] \in Conns
      BY <2>2 DEF HandshakeFails, invalidate, BackendInv
    <3> QED BY <1>0, <1>1, <2>2, <3>1 DEF HandshakeFails, invalidate, connVars
  <2>3. CASE Greet(t) \/ SendRequest(t) \/ HandshakeSucceeds(t)
    BY <1>0, <2>3 DEF Greet, SendRequest, Register, HandshakeSucceeds, WriteInitialized
  <2>4. CASE InCall(t)
    BY <1>0, <1>2, <2>4, FramesAreCalls DEF InCall
  <2>5. CASE EnsureLive(t) \/ SpawnFails(t) \/ Answered(t) \/ Failed(t) \/ WillRetry(t)
    BY <1>0, <2>5 DEF EnsureLive, SpawnFails, Answered, Failed, WillRetry, connVars
  <2> QED BY <1>3, <2>1, <2>2, <2>3, <2>4, <2>5 DEF Caller, EnsureGated, EnsureConnects
<1>4. CASE Close
  BY <1>1, <1>4 DEF Close, BackendInv
<1>5. ASSUME NEW d \in Conns, Reader(d) PROVE UNCHANGED proc
  BY <1>5 DEF Reader, readLoop, ReadAnswer, ReadDropped, ReadOversized, Scanned, Deliver, markDead
<1>6. ASSUME NEW d \in Conns, Child(d) PROVE Older
  <2>1. CASE ChildDies(d) \/ ChildClosesStdin(d)
    BY <2>1 DEF ChildDies, ChildClosesStdin, ProcessEnds
  <2>2. CASE ~ChildDies(d) /\ ~ChildClosesStdin(d)
    BY <1>0, <1>6, <2>2 DEF Child, child, ChildTakes, ChildAnswers, ChildChatters, ChildWrites
  <2> QED BY <2>1, <2>2
<1>7. CASE WindowElapses \/ UNCHANGED vars
  BY <1>0, <1>7 DEF WindowElapses, vars, connVars
<1>8. ASSUME NEW t \in Callers, Timers(t) PROVE UNCHANGED proc
  BY <1>8 DEF Timers, HandshakeExpires, CallerExpires, Expire
<1> QED BY <1>0, <1>3, <1>4, <1>5, <1>6, <1>7, <1>8 DEF Next

\* As long as no connection is dropped and nobody connects anew, no child is left.
LEMMA NoOrphanLasts ==
  ASSUME BackendInv, ConnTypeOK, NoOrphanChild, [Next]_vars, \A t \in Callers : ~Spawn(t),
         UNCHANGED <<conn, mu>>,
         \A t \in Callers : mu = t /\ pc[t] = "handshake" =>
           pc'[t] = "handshake" /\ mine'[t] = mine[t]
  PROVE  NoOrphanChild'
BY OnlySpawnStarts DEF NoOrphanChild

LEMMA ChildInvStep ==
  ASSUME BackendInv, ConnTypeOK, OutcomeTrue, MutexInv, ChildInv, [Next]_vars
  PROVE  ChildInv'
<1> USE CallersAssumption DEF callerVars, backendVars
<1>0. /\ Lasting
      /\ NoOrphanChild
      /\ \A t \in Callers : pc[t] \in {"spawn", "handshake"} <=> mu = t
      /\ mu # Nobody => conn = 0
  BY ConnectionsStep, ConnLasts DEF ChildInv, MutexInv
<1>1. /\ conn # 0 => proc'[conn] # "none"
      /\ \A t \in Callers : mine[t] # 0 => proc'[mine[t]] # "none"
  BY <1>0 DEF ChildInv, Lasting, BackendInv
<1>2. ASSUME UNCHANGED <<callerVars, mu, conn>> PROVE ChildInv'
  <2>1. \A t \in Callers : ~Spawn(t)
    BY <1>2 DEF Spawn, GoTo, BackendInv
  <2> QED BY <1>0, <1>1, <1>2, <2>1, NoOrphanLasts DEF ChildInv
<1>3. ASSUME NEW t \in Callers, EnsureLive(t) PROVE ChildInv'
  <2>1. conn # 0 /\ mine' = [mine EXCEPT ![t] = conn] /\ pc[t] = "ensure"
        /\ UNCHANGED <<connVars, mu, conn>>
        /\ \A u \in Callers : u # t => pc'[u] = pc[u]
    BY <1>3 DEF EnsureLive, Proceed, CurrentAlive, GoTo, Finish, BackendInv
  <2>2. /\ conn' # 0 => proc'[conn'] # "none"
        /\ \A u \in Callers : mine'[u] # 0 => proc'[mine'[u]] # "none"
    BY <1>1, <2>1 DEF BackendInv
  <2>3. NoOrphanChild'
    BY <1>0, <2>1 DEF NoOrphanChild, Runs, connVars, childVars, BackendInv
  <2> QED BY <2>2, <2>3 DEF ChildInv
<1>4. ASSUME NEW d \in Conns, d = conn, shutdown(d), conn' = 0, mu = Nobody, UNCHANGED mine
      PROVE  ChildInv'
  <2>1. \A c \in Conns : Runs(c)' => Runs(c) /\ c # conn
    BY <1>4 DEF shutdown, ProcessEnds, Runs, ConnTypeOK
  <2>2. NoOrphanChild'
    BY <1>0, <1>4, <2>1 DEF NoOrphanChild
  <2> QED BY <1>1, <1>4, <2>2 DEF ChildInv
<1>5. ASSUME NEW t \in Callers, EnsureGated(t) \/ EnsureConnects(t) PROVE ChildInv'
  <2>1. CASE conn # 0
    BY <1>4, <1>5, <2>1 DEF EnsureGated, EnsureConnects, DropDead, BackendInv
  <2>2. CASE conn = 0
    <3>1. NoOrphanChild'
      BY <1>0, <1>5, <2>2
      DEF EnsureGated, EnsureConnects, DropDead, NoOrphanChild, Runs, connVars, childVars
    <3> QED BY <1>1, <1>5, <2>2, <3>1 DEF EnsureGated, EnsureConnects, DropDead, ChildInv
  <2> QED BY <2>1, <2>2
<1>6. ASSUME NEW t \in Callers, SpawnFails(t) PROVE ChildInv'
  <2>1. mu = t /\ UNCHANGED <<connVars, mine, conn>>
    BY <1>0, <1>6 DEF SpawnFails, ConnectFails
  <2>2. NoOrphanChild'
    BY <1>0, <1>6, <2>1 DEF SpawnFails, NoOrphanChild, Runs, connVars, childVars
  <2> QED BY <1>1, <2>1, <2>2 DEF ChildInv
<1>7. ASSUME NEW t \in Callers, Spawn(t) PROVE ChildInv'
  <2> DEFINE d == spawned + 1
  <2>1. /\ d \in Conns /\ mu = t /\ pc[t] = "spawn" /\ conn = 0
        /\ proc' = [proc EXCEPT ![d] = "up"]
        /\ mine' = [mine EXCEPT ![t] = d]
        /\ pc' = [pc EXCEPT ![t] = "handshake"]
        /\ UNCHANGED <<mu, conn>>
    BY <1>0, <1>7, BoundsAssumption DEF Spawn, SpawnConn, GoTo, BackendInv, Conns
  <2>2. proc'[d] = "up" /\ mine'[t] = d /\ pc'[t] = "handshake"
    BY <2>1 DEF ConnTypeOK, BackendInv
  <2>3. NoOrphanChild'
    BY <1>0, <2>1, <2>2 DEF NoOrphanChild, Runs, ConnTypeOK, BackendInv
  <2>4. \A u \in Callers : mine'[u] # 0 => proc'[mine'[u]] # "none"
    BY <1>1, <2>1, <2>2 DEF BackendInv
  <2> QED BY <2>1, <2>3, <2>4 DEF ChildInv
<1>8. ASSUME NEW t \in Callers, HandshakeFails(t) PROVE ChildInv'
  <2>1. mu = t /\ pc[t] = "handshake" /\ mine[t] \in Conns /\ conn = 0
        /\ UNCHANGED <<mine, conn>>
    BY <1>0, <1>8 DEF HandshakeFails, ConnectFails, BackendInv
  <2>2. \A c \in Conns : Runs(c)' => Runs(c) /\ c # mine[t]
    BY <1>8, <2>1 DEF HandshakeFails, shutdown, ProcessEnds, Runs, ConnTypeOK
  <2>3. NoOrphanChild'
    BY <1>0, <2>1, <2>2, BackendInvStep DEF NoOrphanChild, BackendInv
  <2> QED BY <1>1, <2>1, <2>3 DEF ChildInv
<1>9. ASSUME NEW t \in Callers, HandshakeSucceeds(t) PROVE ChildInv'
  <2>1. /\ mu = t /\ pc[t] = "handshake" /\ mine[t] \in Conns /\ conn = 0
        /\ conn' = mine[t] /\ mine' = mine /\ UNCHANGED proc
    BY <1>0, <1>9 DEF HandshakeSucceeds, Proceed, WriteInitialized, BackendInv
  <2>2. NoOrphanChild'
    BY <1>0, <2>1 DEF NoOrphanChild, Runs, Conns
  <2> QED BY <1>1, <2>1, <2>2 DEF ChildInv
<1>10. ASSUME NEW t \in Callers, Answered(t) \/ Failed(t) \/ WillRetry(t) PROVE ChildInv'
  <2>1. /\ pc[t] = "request" /\ UNCHANGED <<connVars, mine, mu, conn>>
        /\ \A u \in Callers : u # t => pc'[u] = pc[u]
    BY <1>10 DEF Answered, Failed, WillRetry, GoTo, Finish, BackendInv
  <2>2. NoOrphanChild'
    BY <1>0, <2>1 DEF NoOrphanChild, Runs, connVars, childVars
  <2> QED BY <1>1, <2>1, <2>2 DEF ChildInv
<1>11. ASSUME NEW t \in Callers, invalidate(t) PROVE ChildInv'
  <2>1. CASE conn = mine[t]
    <3>1. mine[t] \in Conns
      BY <1>11 DEF invalidate, BackendInv
    <3> QED BY <1>4, <1>11, <2>1, <3>1 DEF invalidate
  <2>2. CASE conn # mine[t]
    <3>1. UNCHANGED <<connVars, mine, conn, mu>> /\ mu = Nobody
      BY <1>11, <2>2 DEF invalidate
    <3>2. NoOrphanChild'
      BY <1>0, <3>1 DEF NoOrphanChild, Runs, connVars, childVars
    <3> QED BY <1>1, <3>1, <3>2 DEF ChildInv
  <2> QED BY <2>1, <2>2
<1>12. CASE Close
  BY <1>4, <1>12 DEF Close, BackendInv
<1>13. ASSUME NEW t \in Callers, Caller(t) PROVE ChildInv'
  BY <1>2, <1>3, <1>5, <1>6, <1>7, <1>8, <1>9, <1>10, <1>11, <1>13
  DEF Caller, Greet, SendRequest, InCall
<1> QED
  BY <1>2, <1>12, <1>13
  DEF Next, WindowElapses, Timers, HandshakeExpires, CallerExpires, Reader, Child, vars

-----------------------------------------------------------------------------
(* The tries of a caller.                                                    *)

\* Try n is not made yet, can no longer execute, or has executed.
Settled(t, n) ==
  \/ step[Request(t, n)] = "new"
  \/ proc[on[Request(t, n)]] \in Unhearing
  \/ Request(t, n) \in taken[on[Request(t, n)]]

TryInv(t) ==
  /\ t \in Initializers =>
       /\ pc[t] \notin {"request", "invalidate"}
       /\ try[t] = 1
       /\ step[Request(t, 1)] = "new"
  /\ pc[t] \in {"ensure", "spawn", "handshake"} => step[Request(t, try[t])] = "new"
  /\ pc[t] = "request" /\ step[Request(t, try[t])] # "new" =>
       on[Request(t, try[t])] = mine[t]
  /\ pc[t] = "request" /\ try[t] = 2 => mine[t] # on[Request(t, 1)]
  /\ pc[t] = "invalidate" =>
       /\ try[t] = 1
       /\ on[Request(t, 1)] = mine[t]
       /\ out[Request(t, 1)] \in {"closed", "write"}
  /\ try[t] = 1 => step[Request(t, 2)] = "new"
  /\ try[t] = 2 =>
       /\ out[Request(t, 1)] \in {"closed", "write"}
       /\ Gone(on[Request(t, 1)])
       /\ on[Request(t, 1)] # conn
  /\ step[Request(t, 2)] # "new" => on[Request(t, 2)] # on[Request(t, 1)]
  /\ pc[t] = "returned" <=> result[t] # "none"
  /\ result[t] \notin {"none", "gaveUp"} => \A n \in Tries : Settled(t, n)

\* A call that has an outcome had been made on a connection.
LEMMA OutcomePlaced ==
  ASSUME ConnInv, OutcomeTrue, NEW k \in Calls, out[k] # "none"
  PROVE  step[k] = "returned" /\ on[k] \in Conns /\ on[k] # 0
BY DEF ConnInv, OutcomeTrue, Placed, Conns

\* A try that is settled stays so.
LEMMA SettledLasts ==
  ASSUME ConnInv, Lasting, NEW t \in Callers, NEW n \in Tries, Settled(t, n),
         step[Request(t, n)] = "new" => step'[Request(t, n)] = "new"
  PROVE  Settled(t, n)'
<1> DEFINE k == Request(t, n)
<1>1. k \in Calls
  BY FramesAreCalls
<1>2. CASE step[k] = "new"
  BY <1>2 DEF Settled
<1>3. CASE step[k] # "new"
  <2>1. on[k] \in Conns /\ on'[k] = on[k]
    BY <1>1, <1>3 DEF ConnInv, Placed, Lasting
  <2> HIDE DEF k
  <2> QED BY <1>1, <1>3, <2>1 DEF Settled, Lasting, k
<1> QED BY <1>2, <1>3

\* A step in which caller t neither moves nor makes a try.
LEMMA Bystander ==
  ASSUME BackendInv, ConnInv, OutcomeTrue, OutcomeTrue', Lasting, NEW t \in Callers, TryInv(t),
         pc'[t] = pc[t], try'[t] = try[t], mine'[t] = mine[t], result'[t] = result[t],
         \A n \in Tries : step[Request(t, n)] = "new" =>
           step'[Request(t, n)] = "new" /\ on'[Request(t, n)] = on[Request(t, n)],
         conn' \in {0, conn} \/ proc'[conn'] = "up"
  PROVE  TryInv(t)'
<1> DEFINE a == Request(t, 1)
           b == Request(t, 2)
<1>1. a \in Calls /\ b \in Calls /\ 1 \in Tries /\ 2 \in Tries /\ try[t] \in Tries
  BY FramesAreCalls DEF Tries, BackendInv
<1>2. \A k \in {a, b} :
        /\ step'[k] = "new" <=> step[k] = "new"
        /\ on'[k] = on[k]
        /\ out[k] # "none" => out'[k] = out[k]
  BY <1>1 DEF Lasting
<1>3. Request(t, try[t]) \in {a, b}
  BY <1>1 DEF Tries
<1>4. result[t] \notin {"none", "gaveUp"} => \A n \in Tries : Settled(t, n)'
  BY SettledLasts DEF TryInv
<1>5. try[t] = 2 => on'[a] # conn'
  <2> SUFFICES ASSUME try[t] = 2 PROVE on'[a] # conn'
    OBVIOUS
  <2>1. out[a] \in {"closed", "write"} /\ on[a] # conn
    BY DEF TryInv
  <2>2. on[a] # 0
    BY <1>1, <2>1, OutcomePlaced
  <2>3. proc'[on'[a]] \in Unhearing
    BY <1>1, <1>2, <2>1 DEF OutcomeTrue
  <2> QED BY <1>2, <2>1, <2>2, <2>3 DEF Unhearing
<1> HIDE DEF a, b
<1>6. TryInv(t) /\ a = Request(t, 1) /\ b = Request(t, 2)
  BY DEF a, b
<1>7. try[t] = 2 => Gone(on[a])'
  <2>1. on[a] \in Conns \/ try[t] # 2
    BY <1>1, <1>6, OutcomePlaced DEF TryInv
  <2> QED BY <1>2, <1>6, <2>1 DEF TryInv, Lasting, Gone
<1> QED BY <1>2, <1>3, <1>4, <1>5, <1>6, <1>7 DEF TryInv

\* A step that makes no try.
MakesNoTry ==
  \A t \in Callers, n \in Tries : step[Request(t, n)] = "new" =>
    step'[Request(t, n)] = "new" /\ on'[Request(t, n)] = on[Request(t, n)]

LEMMA OnlySendRequestTries ==
  ASSUME BackendInv, ConnTypeOK, [Next]_vars, \A t \in Callers : ~SendRequest(t)
  PROVE  MakesNoTry
<1> USE DEF MakesNoTry, callVars, tableVars, childVars, connVars
<1>1. CASE UNCHANGED <<step, on>>
  BY <1>1
<1>2. ASSUME NEW t \in Callers, Greet(t) PROVE MakesNoTry
  <2>1. /\ step' = [step EXCEPT ![Handshake(t, try[t])] = "write"]
        /\ on' = [on EXCEPT ![Handshake(t, try[t])] = mine[t]]
    BY <1>2 DEF Greet, Register
  <2>2. \A u \in Callers, n \in Tries :
          Request(u, n) \in Calls /\ Request(u, n) # Handshake(t, try[t])
    BY FramesAreCalls DEF Request, Handshake
  <2> QED BY <2>1, <2>2 DEF ConnTypeOK
<1>3. ASSUME NEW k \in Calls, call(k) PROVE MakesNoTry
  <2>1. step[k] \in {"write", "wait"} /\ UNCHANGED on
        /\ \E s \in {"wait", "returned"} : step' = [step EXCEPT ![k] = s]
    BY <1>3 DEF call, WriteRequest, WriteFails, SelectCtx, SelectClosed, SelectResponse,
      GiveUp, Return
  <2>2. \A u \in Callers, n \in Tries : Request(u, n) \in Calls
    BY FramesAreCalls
  <2> QED BY <2>1, <2>2 DEF ConnTypeOK
<1>4. ASSUME NEW t \in Callers, Caller(t) PROVE MakesNoTry
  <2>1. CASE InCall(t)
    BY <1>3, <2>1, FramesAreCalls DEF InCall
  <2>2. CASE DropDead(t)
    BY <1>1, <2>2 DEF DropDead, shutdown
  <2>3. CASE HandshakeFails(t) \/ invalidate(t)
    BY <1>1, <2>3 DEF HandshakeFails, invalidate, shutdown
  <2>4. CASE EnsureLive(t) \/ SpawnFails(t) \/ Spawn(t) \/ HandshakeSucceeds(t)
             \/ Answered(t) \/ Failed(t) \/ WillRetry(t)
    BY <1>1, <2>4 DEF EnsureLive, SpawnFails, Spawn, SpawnConn, HandshakeSucceeds,
      WriteInitialized, Answered, Failed, WillRetry
  <2> QED
    BY <1>2, <1>4, <2>1, <2>2, <2>3, <2>4 DEF Caller, EnsureGated, EnsureConnects
<1>5. ASSUME NEW t \in Callers, Timers(t) PROVE MakesNoTry
  BY <1>1, <1>5 DEF Timers, HandshakeExpires, CallerExpires, Expire
<1>6. ASSUME NEW c \in Conns, Reader(c) \/ Child(c) PROVE MakesNoTry
  BY <1>1, <1>6
  DEF Reader, readLoop, ReadAnswer, ReadDropped, ReadOversized, Scanned, Deliver, markDead,
    Child, child, ChildTakes, ChildAnswers, ChildChatters, ChildWrites, ChildClosesStdin,
    ChildDies
<1>7. CASE WindowElapses \/ Close \/ UNCHANGED vars
  BY <1>1, <1>7 DEF WindowElapses, Close, shutdown, vars
<1> QED BY <1>4, <1>5, <1>6, <1>7 DEF Next

\* What a step that makes no try keeps of the tries of one caller.
LEMMA TriesLast ==
  ASSUME BackendInv, ConnInv, OutcomeTrue, OutcomeTrue', Lasting, MakesNoTry,
         NEW t \in Callers, TryInv(t)
  PROVE  /\ \A n \in Tries : /\ step'[Request(t, n)] = "new" <=> step[Request(t, n)] = "new"
                             /\ on'[Request(t, n)] = on[Request(t, n)]
                             /\ Settled(t, n) => Settled(t, n)'
                             /\ out[Request(t, n)] # "none" =>
                                  out'[Request(t, n)] = out[Request(t, n)]
         /\ try[t] = 2 => /\ on[Request(t, 1)] # 0
                          /\ step[Request(t, 1)] # "new"
                          /\ proc[on[Request(t, 1)]] \in Unhearing
                          /\ proc'[on[Request(t, 1)]] \in Unhearing
                          /\ Gone(on[Request(t, 1)])'
                          /\ out'[Request(t, 1)] \in {"closed", "write"}
                          /\ Settled(t, 1)
<1>1. \A n \in Tries : Request(t, n) \in Calls
  BY FramesAreCalls
<1>2. \A n \in Tries : /\ step'[Request(t, n)] = "new" <=> step[Request(t, n)] = "new"
                       /\ on'[Request(t, n)] = on[Request(t, n)]
                       /\ Settled(t, n) => Settled(t, n)'
                       /\ out[Request(t, n)] # "none" =>
                            out'[Request(t, n)] = out[Request(t, n)]
  BY <1>1, SettledLasts DEF MakesNoTry, Lasting
<1>3. ASSUME try[t] = 2
      PROVE  /\ on[Request(t, 1)] # 0
             /\ step[Request(t, 1)] # "new"
             /\ proc[on[Request(t, 1)]] \in Unhearing
             /\ proc'[on[Request(t, 1)]] \in Unhearing
             /\ Gone(on[Request(t, 1)])'
             /\ out'[Request(t, 1)] \in {"closed", "write"}
             /\ Settled(t, 1)
  <2>1. 1 \in Tries /\ Request(t, 1) \in Calls
    BY <1>1 DEF Tries
  <2>2. out[Request(t, 1)] \in {"closed", "write"}
    BY <1>3 DEF TryInv
  <2>3. on[Request(t, 1)] \in Conns /\ on[Request(t, 1)] # 0 /\ step[Request(t, 1)] # "new"
    BY <2>1, <2>2, OutcomePlaced
  <2>4. proc[on[Request(t, 1)]] \in Unhearing
    BY <2>1, <2>2 DEF OutcomeTrue
  <2>5. Gone(on[Request(t, 1)])'
    BY <1>2, <1>3, <2>1, <2>3 DEF TryInv, Lasting, Gone, Tries
  <2> QED BY <1>2, <2>1, <2>2, <2>3, <2>4, <2>5 DEF Lasting, Settled
<1> QED BY <1>2, <1>3

\* Before it has made the try that is due, nothing of a caller can still execute.
LEMMA NothingPending ==
  ASSUME BackendInv, ConnInv, OutcomeTrue, NEW t \in Callers, TryInv(t),
         pc[t] \in {"ensure", "spawn", "handshake"}, NEW n \in Tries
  PROVE  Settled(t, n)
<1>1. CASE try[t] = 1
  BY <1>1 DEF TryInv, Settled, Tries
<1>2. CASE try[t] = 2
  <2>1. Request(t, 1) \in Calls
    BY FramesAreCalls DEF Tries
  <2>2. proc[on[Request(t, 1)]] \in Unhearing
    BY <1>2, <2>1 DEF TryInv, OutcomeTrue
  <2> QED BY <1>2, <2>2 DEF TryInv, Settled, Tries
<1> QED BY <1>1, <1>2 DEF BackendInv, Tries

\* In a step of caller t that makes no try, the others stand by.
OthersStay(t) ==
  \A u \in Callers \ {t} :
    pc'[u] = pc[u] /\ try'[u] = try[u] /\ mine'[u] = mine[u] /\ result'[u] = result[u]

LEMMA TryInvStep ==
  ASSUME BackendInv, ConnTypeOK, ConnInv, OutcomeTrue, OutcomeTrue', ChildInv,
         \A t \in Callers : TryInv(t), [Next]_vars
  PROVE  \A t \in Callers : TryInv(t)'
<1> USE DEF callerVars, backendVars
<1>0. Lasting
  BY ConnectionsStep, ConnLasts
<1>1. ASSUME NEW t \in Callers, OthersStay(t), MakesNoTry, TryInv(t)',
             conn' \in {0, conn} \/ proc'[conn'] = "up"
      PROVE  \A u \in Callers : TryInv(u)'
  BY <1>0, <1>1, Bystander DEF OthersStay, MakesNoTry
<1>2. ASSUME UNCHANGED <<callerVars, conn>>, MakesNoTry
      PROVE  \A u \in Callers : TryInv(u)'
  BY <1>0, <1>2, Bystander DEF MakesNoTry
<1>3. ASSUME NEW t \in Callers, pc[t] \in {"ensure", "spawn", "handshake"}, MakesNoTry,
             Finish(t, "unavailable"), UNCHANGED <<try, mine>>, conn' \in {0, conn}
      PROVE  \A u \in Callers : TryInv(u)'
  <2>1. OthersStay(t) /\ pc'[t] = "returned" /\ result'[t] = "unavailable"
    BY <1>3 DEF OthersStay, Finish, GoTo, BackendInv
  <2>2. \A n \in Tries : Settled(t, n)'
    BY <1>0, <1>3, NothingPending, TriesLast
  <2>3. TryInv(t)'
    BY <1>0, <1>3, <2>1, <2>2, TriesLast DEF TryInv, Tries
  <2> QED BY <1>1, <1>3, <2>1, <2>3
<1>4. ASSUME NEW t \in Callers, pc[t] \in {"ensure", "spawn", "handshake"}, MakesNoTry,
             NEW label \in {"spawn", "handshake"}, GoTo(t, label),
             UNCHANGED <<try, result>>, conn' \in {0, conn},
             \A u \in Callers \ {t} : mine'[u] = mine[u]
      PROVE  \A u \in Callers : TryInv(u)'
  <2>1. OthersStay(t) /\ pc'[t] = label
    BY <1>4 DEF OthersStay, GoTo, BackendInv
  <2>2. TryInv(t)'
    BY <1>0, <1>4, <2>1, TriesLast DEF TryInv, Tries, BackendInv
  <2> QED BY <1>1, <1>4, <2>1, <2>2
<1>5. ASSUME NEW t \in Callers, pc[t] \in {"ensure", "handshake"}, MakesNoTry,
             NEW c \in Conns, Proceed(t, c), try' = try, conn' = c,
             try[t] = 2 => c # on[Request(t, 1)],
             conn' \in {0, conn} \/ proc'[conn'] = "up"
      PROVE  \A u \in Callers : TryInv(u)'
  <2>1. OthersStay(t) /\ mine'[t] = c
    BY <1>5 DEF OthersStay, Proceed, Finish, GoTo, BackendInv
  <2>2. CASE t \in Initializers
    <3>1. pc'[t] = "returned" /\ result'[t] = "ready"
      BY <1>5, <2>2 DEF Proceed, Finish, GoTo, BackendInv
    <3>2. \A n \in Tries : Settled(t, n)'
      BY <1>0, <1>5, NothingPending, TriesLast
    <3>3. TryInv(t)'
      BY <1>0, <1>5, <2>1, <2>2, <3>1, <3>2, TriesLast DEF TryInv, Tries
    <3> QED BY <1>1, <1>5, <2>1, <3>3
  <2>3. CASE t \notin Initializers
    <3>1. pc'[t] = "request" /\ result'[t] = result[t]
      BY <1>5, <2>3 DEF Proceed, GoTo, BackendInv
    <3>2. TryInv(t)'
      BY <1>0, <1>5, <2>1, <2>3, <3>1, TriesLast DEF TryInv, Tries, BackendInv
    <3> QED BY <1>1, <1>5, <2>1, <3>2
  <2> QED BY <2>2, <2>3
<1>6. ASSUME NEW t \in Callers, EnsureLive(t) PROVE \A u \in Callers : TryInv(u)'
  <2>1. MakesNoTry
    BY <1>6, OnlySendRequestTries DEF EnsureLive, SendRequest, Register, connVars, callVars,
      ConnTypeOK, MakesNoTry
  <2>2. /\ pc[t] = "ensure" /\ conn \in Conns /\ Proceed(t, conn) /\ try' = try /\ conn' = conn
    BY <1>6 DEF EnsureLive, CurrentAlive, BackendInv
  <2>3. try[t] = 2 => conn # on[Request(t, 1)]
    BY DEF TryInv
  <2> QED BY <1>5, <2>1, <2>2, <2>3
<1>7. ASSUME NEW t \in Callers, DropDead(t) PROVE MakesNoTry
  BY <1>7 DEF DropDead, shutdown, connVars, callVars, MakesNoTry
<1>8. ASSUME NEW t \in Callers, EnsureGated(t) \/ SpawnFails(t) \/ HandshakeFails(t)
      PROVE  \A u \in Callers : TryInv(u)'
  <2>1. MakesNoTry
    BY <1>7, <1>8 DEF EnsureGated, SpawnFails, HandshakeFails, shutdown, connVars, callVars,
      MakesNoTry
  <2> QED BY <1>3, <1>8, <2>1 DEF EnsureGated, DropDead, SpawnFails, HandshakeFails, ConnectFails
<1>9. ASSUME NEW t \in Callers, EnsureConnects(t) PROVE \A u \in Callers : TryInv(u)'
  BY <1>4, <1>7, <1>9 DEF EnsureConnects, DropDead
<1>10. ASSUME NEW t \in Callers, Spawn(t) PROVE \A u \in Callers : TryInv(u)'
  <2>1. MakesNoTry
    BY <1>10 DEF Spawn, SpawnConn, callVars, MakesNoTry
  <2>2. \A u \in Callers \ {t} : mine'[u] = mine[u]
    BY <1>10 DEF Spawn, BackendInv
  <2> QED BY <1>4, <1>10, <2>1, <2>2 DEF Spawn
<1>11. ASSUME NEW t \in Callers, Greet(t) PROVE \A u \in Callers : TryInv(u)'
  <2>1. \A u \in Callers : ~SendRequest(u)
    <3> SUFFICES ASSUME NEW u \in Callers, SendRequest(u) PROVE FALSE
      OBVIOUS
    <3>1. /\ Handshake(t, try[t]) \in Calls /\ Request(u, try[u]) \in Calls
          /\ Handshake(t, try[t]) # Request(u, try[u])
      BY FramesAreCalls DEF BackendInv, Handshake, Request
    <3>2. step[Request(u, try[u])] = "new" /\ step'[Request(u, try[u])] = "write"
      BY <3>1 DEF SendRequest, Register, ConnTypeOK
    <3>3. step' = [step EXCEPT ![Handshake(t, try[t])] = "write"]
      BY <1>11 DEF Greet, Register
    <3> QED BY <3>1, <3>2, <3>3 DEF ConnTypeOK
  <2> QED BY <1>2, <1>11, <2>1, OnlySendRequestTries DEF Greet
<1>12. ASSUME NEW t \in Callers, HandshakeSucceeds(t) PROVE \A u \in Callers : TryInv(u)'
  <2>1. MakesNoTry /\ proc' = proc
    BY <1>12 DEF HandshakeSucceeds, WriteInitialized, callVars, MakesNoTry
  <2>2. /\ pc[t] = "handshake" /\ mine[t] \in Conns /\ Proceed(t, mine[t]) /\ try' = try
        /\ conn' = mine[t] /\ proc[mine[t]] = "up"
    BY <1>12 DEF HandshakeSucceeds, WriteInitialized, CanWrite, BackendInv
  <2>3. try[t] = 2 => mine[t] # on[Request(t, 1)]
    BY <1>0, <2>1, <2>2, TriesLast DEF Unhearing
  <2> QED BY <1>5, <2>1, <2>2, <2>3
<1>13. ASSUME NEW t \in Callers, SendRequest(t) PROVE \A u \in Callers : TryInv(u)'
  <2> DEFINE k == Request(t, try[t])
  <2>1. /\ pc[t] = "request" /\ mine[t] \in Conns /\ try[t] \in Tries /\ k \in Calls
        /\ step[k] = "new" /\ UNCHANGED <<callerVars, conn, out, proc>>
        /\ step' = [step EXCEPT ![k] = "write"]
        /\ on' = [on EXCEPT ![k] = mine[t]]
    BY <1>13, FramesAreCalls DEF SendRequest, Register, BackendInv, childVars
  <2>2. \A j \in Calls \ {k} : step'[j] = step[j] /\ on'[j] = on[j]
    BY <2>1 DEF ConnTypeOK
  <2>3. step'[k] = "write" /\ on'[k] = mine[t]
    BY <2>1 DEF ConnTypeOK
  <2>4. ASSUME NEW u \in Callers, u # t PROVE TryInv(u)'
    <3>1. \A n \in Tries : Request(u, n) \in Calls \ {k}
      BY <2>4, FramesAreCalls DEF Request
    <3> QED BY <1>0, <2>1, <2>2, <2>4, <3>1, Bystander
  <2>5. TryInv(t)'
    <3>1. /\ Request(t, 1) \in Calls /\ Request(t, 2) \in Calls
          /\ Request(t, 1) # Request(t, 2)
      BY FramesAreCalls DEF Tries, Request
    <3>2. TryInv(t) /\ t \notin Initializers /\ result[t] = "none"
      BY <2>1 DEF TryInv
    <3>3. CASE try[t] = 1
      <4>1. k = Request(t, 1) /\ step'[Request(t, 2)] = "new"
        BY <2>2, <3>1, <3>2, <3>3 DEF TryInv
      <4> HIDE DEF k
      <4> QED BY <2>1, <2>3, <3>2, <3>3, <4>1 DEF TryInv
    <3>4. CASE try[t] = 2
      <4>1. k = Request(t, 2) /\ on'[Request(t, 1)] = on[Request(t, 1)]
        BY <2>2, <3>1, <3>4
      <4> HIDE DEF k
      <4> QED BY <2>1, <2>3, <3>2, <3>4, <4>1 DEF TryInv, Gone
    <3> QED BY <2>1, <3>3, <3>4 DEF Tries
  <2> QED BY <2>4, <2>5
<1>14. ASSUME NEW t \in Callers, Answered(t) PROVE \A u \in Callers : TryInv(u)'
  <2>1. /\ MakesNoTry /\ OthersStay(t) /\ pc'[t] = "returned" /\ result'[t] = "answered"
        /\ pc[t] = "request" /\ UNCHANGED <<connVars, try, mine, conn>>
    BY <1>14 DEF Answered, Finish, GoTo, OthersStay, connVars, callVars, MakesNoTry, BackendInv
  <2>2. Settled(t, try[t])
    <3>1. Request(t, try[t]) \in Calls /\ out[Request(t, try[t])] = "response"
      BY <1>14, FramesAreCalls DEF Answered, RequestOut, BackendInv
    <3> QED BY <3>1 DEF OutcomeTrue, Settled
  <2>3. \A n \in Tries : Settled(t, n)
    BY <1>0, <2>1, <2>2, TriesLast DEF Tries, BackendInv, TryInv, Settled
  <2>4. TryInv(t)'
    BY <1>0, <2>1, <2>3, TriesLast DEF TryInv, Tries
  <2> QED BY <1>1, <2>1, <2>4
<1>15. ASSUME NEW t \in Callers, Failed(t) PROVE \A u \in Callers : TryInv(u)'
  <2>1. /\ MakesNoTry /\ OthersStay(t) /\ pc'[t] = "returned"
        /\ pc[t] = "request" /\ UNCHANGED <<connVars, try, mine, conn>>
    BY <1>15 DEF Failed, Finish, GoTo, OthersStay, connVars, callVars, MakesNoTry, BackendInv
  <2>2. CASE result'[t] = "gaveUp"
    <3>1. TryInv(t)'
      BY <1>0, <2>1, <2>2, TriesLast DEF TryInv, Tries
    <3> QED BY <1>1, <2>1, <3>1
  <2>3. CASE result'[t] # "gaveUp"
    <3>1. /\ try[t] = 2 /\ out[Request(t, 2)] \in {"ctx", "closed", "write"}
          /\ Request(t, 2) \notin expired /\ result'[t] = "lost"
      BY <1>15, <2>3 DEF Failed, Finish, RequestOut, CtxDone, BackendInv
    <3>2. Settled(t, 2)
      <4>1. Request(t, 2) \in Calls
        BY FramesAreCalls DEF Tries
      <4> QED BY <3>1, <4>1 DEF OutcomeTrue, Settled
    <3>3. \A n \in Tries : Settled(t, n)
      BY <1>0, <2>1, <3>1, <3>2, TriesLast DEF Tries
    <3>4. TryInv(t)'
      BY <1>0, <2>1, <3>1, <3>3, TriesLast DEF TryInv, Tries
    <3> QED BY <1>1, <2>1, <3>4
  <2> QED BY <2>2, <2>3
<1>16. ASSUME NEW t \in Callers, WillRetry(t) PROVE \A u \in Callers : TryInv(u)'
  <2>1. /\ MakesNoTry /\ OthersStay(t) /\ pc'[t] = "invalidate"
        /\ pc[t] = "request" /\ try[t] = 1 /\ UNCHANGED <<connVars, try, mine, result, conn>>
        /\ out[Request(t, 1)] \in {"ctx", "closed", "write"}
        /\ Request(t, 1) \notin expired
    BY <1>16 DEF WillRetry, GoTo, OthersStay, connVars, callVars, MakesNoTry, BackendInv,
      RequestOut, CtxDone
  <2>2. Request(t, 1) \in Calls
    BY FramesAreCalls DEF Tries
  <2>3. /\ out[Request(t, 1)] \in {"closed", "write"}
        /\ step[Request(t, 1)] # "new"
    BY <2>1, <2>2, OutcomePlaced DEF OutcomeTrue
  <2>4. TryInv(t)'
    BY <1>0, <2>1, <2>3, TriesLast DEF TryInv, Tries
  <2> QED BY <1>1, <2>1, <2>4
<1>17. ASSUME NEW t \in Callers, invalidate(t) PROVE \A u \in Callers : TryInv(u)'
  <2>1. MakesNoTry
    BY <1>17 DEF invalidate, shutdown, connVars, callVars, MakesNoTry
  <2>2. /\ OthersStay(t) /\ pc[t] = "invalidate" /\ pc'[t] = "ensure" /\ try'[t] = 2
        /\ UNCHANGED <<mine, result>>
        /\ conn' = IF conn = mine[t] THEN 0 ELSE conn
        /\ mine[t] # 0
    BY <1>17 DEF invalidate, GoTo, OthersStay, BackendInv
  <2>3. /\ on[Request(t, 1)] = mine[t] /\ out[Request(t, 1)] \in {"closed", "write"}
        /\ Request(t, 1) \in Calls
    BY <2>2, FramesAreCalls DEF TryInv, Tries
  <2>4. mine[t] \in Conns /\ proc[mine[t]] \in Unhearing
    BY <2>3, OutcomePlaced DEF OutcomeTrue
  <2>5. Gone(mine[t])'
    <3>1. CASE conn = mine[t]
      BY <1>17, <2>2, <2>4, <3>1 DEF invalidate, shutdown, ProcessEnds, Gone, ConnTypeOK
    <3>2. CASE conn # mine[t]
      <4>1. ~Runs(mine[t])
        BY <1>17, <2>4, <3>2, CallersAssumption DEF invalidate, ChildInv, NoOrphanChild
      <4>2. Gone(mine[t])
        BY <2>4, <4>1 DEF Runs, Gone, Unhearing
      <4> QED BY <1>0, <2>2, <2>4, <4>2 DEF Lasting, Gone
    <3> QED BY <3>1, <3>2
  <2>6. TryInv(t)'
    BY <1>0, <2>1, <2>2, <2>3, <2>5, TriesLast DEF TryInv, Tries
  <2> QED BY <1>1, <2>1, <2>2, <2>6
<1>18. CASE Close
  BY <1>0, <1>18, Bystander DEF Close, shutdown, callVars
<1>19. ASSUME \A u \in Callers : ~SendRequest(u), UNCHANGED <<callerVars, conn>>
      PROVE  \A u \in Callers : TryInv(u)'
  BY <1>2, <1>19, OnlySendRequestTries
<1>20. ASSUME NEW t \in Callers, Caller(t) PROVE \A u \in Callers : TryInv(u)'
  <2>1. CASE InCall(t) /\ \A u \in Callers : ~SendRequest(u)
    BY <1>19, <2>1 DEF InCall
  <2> QED
    BY <1>6, <1>8, <1>9, <1>10, <1>11, <1>12, <1>13, <1>14, <1>15, <1>16, <1>17, <1>20, <2>1
    DEF Caller
<1> QED
  BY <1>13, <1>18, <1>19, <1>20
  DEF Next, WindowElapses, Timers, HandshakeExpires, CallerExpires, Reader, Child, vars

-----------------------------------------------------------------------------
(* The handshake.                                                            *)

Requests == {Request(t, n) : t \in Callers, n \in Tries}

\* The child has taken the notification that completes the handshake, or finds it
\* in its stdin.
Welcomed(c) ==
  \/ Initialized \in taken[c]
  \/ \E i \in 1..Len(stdin[c]) : stdin[c][i] = Initialized

\* The notification comes before any request.
InOrder ==
  \A c \in Conns : \A i \in 1..Len(stdin[c]) : stdin[c][i] \in Requests =>
    \/ Initialized \in taken[c]
    \/ \E j \in 1..(i - 1) : stdin[c][j] = Initialized

\* A connection that requests are, or may be, made on.
Used(c) ==
  \/ conn = c
  \/ \E t \in Callers : pc[t] = "request" /\ mine[t] = c
  \/ \E k \in Requests : on[k] = c

UsedWelcomed == \A c \in Conns : Used(c) /\ proc[c] = "up" => Welcomed(c)

LEMMA RequestsAreCalls == Requests \subseteq Calls
BY FramesAreCalls DEF Requests

LEMMA WelcomedLasts ==
  ASSUME ConnTypeOK, [ConnNext]_connVars, NEW c \in Conns, Welcomed(c), proc'[c] = "up"
  PROVE  Welcomed(c)'
<1> USE DEF callVars, tableVars, childVars
<1>0. /\ stdin[c] \in Seq(Calls \cup {Initialized})
      /\ stdin \in [Conns -> Seq(Calls \cup {Initialized})]
      /\ taken \in [Conns -> SUBSET (Calls \cup {Initialized})]
      /\ proc \in [Conns -> {"none", "up", "deaf", "killed", "down"}]
  BY DEF ConnTypeOK
<1>1. CASE UNCHANGED <<stdin, taken>>
  BY <1>1 DEF Welcomed
<1>2. ASSUME NEW d \in Conns, NEW as \in Unhearing, proc' = [proc EXCEPT ![d] = as],
             stdin' = [stdin EXCEPT ![d] = <<>>], UNCHANGED taken
      PROVE  Welcomed(c)'
  <2>1. d # c
    BY <1>0, <1>2 DEF Unhearing
  <2>2. stdin'[c] = stdin[c] /\ taken' = taken
    BY <1>0, <1>2, <2>1
  <2> QED BY <2>2 DEF Welcomed
<1>3. ASSUME NEW line, line \in Calls \cup {Initialized}, NEW d \in Conns,
             stdin' = [stdin EXCEPT ![d] = Append(@, line)], UNCHANGED taken
      PROVE  Welcomed(c)'
  <2>1. CASE d = c
    <3>1. stdin'[c] = Append(stdin[c], line)
      BY <1>0, <1>3, <2>1
    <3>2. /\ Len(stdin'[c]) = Len(stdin[c]) + 1
          /\ \A i \in 1..Len(stdin[c]) : stdin'[c][i] = stdin[c][i]
      BY <1>0, <1>3, <3>1
    <3> QED BY <1>0, <1>3, <3>2 DEF Welcomed
  <2>2. CASE d # c
    BY <1>0, <1>3, <2>2 DEF Welcomed
  <2> QED BY <2>1, <2>2
<1>4. ASSUME NEW d \in Conns, ChildTakes(d) PROVE Welcomed(c)'
  <2>1. CASE d = c
    <3>1. /\ stdin[c] # <<>>
          /\ stdin'[c] = Tail(stdin[c])
          /\ taken'[c] = taken[c] \cup {Head(stdin[c])}
      BY <1>0, <1>4, <2>1 DEF ChildTakes
    <3>2. CASE Initialized \in taken[c]
      BY <3>1, <3>2 DEF Welcomed
    <3>3. ASSUME NEW i \in 1..Len(stdin[c]), stdin[c][i] = Initialized PROVE Welcomed(c)'
      <4>1. CASE i = 1
        BY <1>0, <3>1, <3>3, <4>1 DEF Welcomed
      <4>2. CASE i # 1
        <5>1. i - 1 \in 1..Len(stdin'[c]) /\ stdin'[c][i - 1] = stdin[c][i]
          BY <1>0, <3>1, <4>2
        <5> QED BY <3>3, <5>1 DEF Welcomed
      <4> QED BY <4>1, <4>2
    <3> QED BY <3>2, <3>3 DEF Welcomed
  <2>2. CASE d # c
    BY <1>0, <1>4, <2>2 DEF ChildTakes, Welcomed
  <2> QED BY <2>1, <2>2
<1>5. ASSUME NEW d \in Conns, SpawnConn(d) \/ shutdown(d) \/ WriteInitialized(d)
      PROVE  Welcomed(c)'
  BY <1>1, <1>2, <1>3, <1>5 DEF SpawnConn, shutdown, ProcessEnds, Unhearing, WriteInitialized
<1>6. ASSUME NEW k \in Calls, call(k) PROVE Welcomed(c)'
  <2>1. CASE WriteRequest(k)
    <3>1. on[k] \in Conns \/ stdin' = stdin
      BY <1>0, <2>1 DEF WriteRequest
    <3> QED BY <1>1, <1>3, <2>1, <3>1 DEF WriteRequest
  <2>2. CASE ~WriteRequest(k)
    BY <1>1, <1>6, <2>2
    DEF call, WriteFails, SelectCtx, SelectClosed, SelectResponse, GiveUp
  <2> QED BY <2>1, <2>2
<1>7. ASSUME NEW d \in Conns, readLoop(d) \/ child(d) PROVE Welcomed(c)'
  <2>1. CASE ChildDies(d) \/ ChildClosesStdin(d)
    BY <1>2, <2>1 DEF ChildDies, ProcessEnds, ChildClosesStdin, Unhearing
  <2>2. CASE ~ChildDies(d) /\ ~ChildClosesStdin(d)
    BY <1>1, <1>4, <1>7, <2>2
    DEF readLoop, ReadAnswer, ReadDropped, ReadOversized, Scanned, Deliver, markDead,
      child, ChildAnswers, ChildChatters, ChildWrites
  <2> QED BY <2>1, <2>2
<1>8. CASE \/ \E k \in Calls, d \in Conns : Register(k, d)
           \/ \E K \in SUBSET Calls : Expire(K)
           \/ UNCHANGED connVars
  BY <1>1, <1>8 DEF Register, Expire, connVars
<1> QED BY <1>5, <1>6, <1>7, <1>8 DEF ConnNext

LEMMA InOrderStep ==
  ASSUME ConnTypeOK, ConnInv, InOrder, HandshakeFirst, UsedWelcomed, [ConnNext]_connVars
  PROVE  InOrder' /\ HandshakeFirst'
<1> USE DEF callVars, tableVars, childVars
<1>0. /\ \A c \in Conns : stdin[c] \in Seq(Calls \cup {Initialized})
      /\ stdin \in [Conns -> Seq(Calls \cup {Initialized})]
      /\ taken \in [Conns -> SUBSET (Calls \cup {Initialized})]
      /\ Initialized \notin Requests /\ Requests \subseteq Calls
  BY RequestsAreCalls, LinesAssumption DEF ConnTypeOK
<1>1. HandshakeFirst <=>
        \A c \in Conns : \A k \in Requests : k \in taken[c] => Initialized \in taken[c]
  BY DEF HandshakeFirst, Requests
<1>2. HandshakeFirst' <=>
        \A c \in Conns : \A k \in Requests : k \in taken'[c] => Initialized \in taken'[c]
  BY DEF HandshakeFirst, Requests, Request
<1>3. CASE UNCHANGED <<stdin, taken>>
  BY <1>1, <1>2, <1>3 DEF InOrder, Requests, Request
<1>4. InOrder' <=>
        \A c \in Conns : \A i \in 1..Len(stdin'[c]) : stdin'[c][i] \in Requests =>
          \/ Initialized \in taken'[c]
          \/ \E j \in 1..(i - 1) : stdin'[c][j] = Initialized
  BY DEF InOrder, Requests, Request
<1>5. ASSUME NEW d \in Conns, stdin' = [stdin EXCEPT ![d] = <<>>], UNCHANGED taken
      PROVE  InOrder' /\ HandshakeFirst'
  <2>1. \A c \in Conns : stdin'[c] = IF c = d THEN <<>> ELSE stdin[c]
    BY <1>0, <1>5
  <2>2. InOrder'
    BY <1>4, <1>5, <2>1 DEF InOrder
  <2> QED BY <1>1, <1>2, <1>5, <2>2
<1>6. ASSUME NEW line \in Calls \cup {Initialized}, NEW d \in Conns,
             stdin' = [stdin EXCEPT ![d] = Append(@, line)], UNCHANGED taken,
             line \in Requests => Welcomed(d)
      PROVE  InOrder' /\ HandshakeFirst'
  <2>1. ASSUME NEW c \in Conns, NEW i \in 1..Len(stdin'[c]), stdin'[c][i] \in Requests,
               Initialized \notin taken[c]
        PROVE  \E j \in 1..(i - 1) : stdin'[c][j] = Initialized
    <3>1. CASE c # d
      BY <1>0, <1>6, <2>1, <3>1 DEF InOrder
    <3>2. CASE c = d
      <4>1. stdin'[c] = Append(stdin[c], line)
        BY <1>0, <1>6, <3>2
      <4>2. /\ Len(stdin'[c]) = Len(stdin[c]) + 1
            /\ \A j \in 1..Len(stdin[c]) : stdin'[c][j] = stdin[c][j]
            /\ stdin'[c][Len(stdin[c]) + 1] = line
        BY <1>0, <4>1
      <4>3. CASE i = Len(stdin[c]) + 1
        <5>1. PICK j \in 1..Len(stdin[c]) : stdin[c][j] = Initialized
          BY <1>6, <2>1, <3>2, <4>2, <4>3 DEF Welcomed
        <5>2. j \in 1..(i - 1) /\ stdin'[c][j] = Initialized
          BY <4>2, <4>3, <5>1
        <5> QED BY <5>2
      <4>4. CASE i # Len(stdin[c]) + 1
        <5>1. i \in 1..Len(stdin[c]) /\ stdin[c][i] \in Requests
          BY <1>0, <2>1, <4>2, <4>4
        <5>2. PICK j \in 1..(i - 1) : stdin[c][j] = Initialized
          BY <2>1, <5>1 DEF InOrder
        <5>3. j \in 1..Len(stdin[c])
          BY <1>0, <5>1, <5>2
        <5> QED BY <4>2, <5>2, <5>3
      <4> QED BY <4>3, <4>4
    <3> QED BY <3>1, <3>2
  <2> QED BY <1>1, <1>2, <1>4, <1>6, <2>1
<1>7. ASSUME NEW d \in Conns, ChildTakes(d) PROVE InOrder' /\ HandshakeFirst'
  <2>1. /\ stdin[d] # <<>>
        /\ \A c \in Conns : /\ stdin'[c] = IF c = d THEN Tail(stdin[d]) ELSE stdin[c]
                            /\ taken'[c] = IF c = d THEN taken[d] \cup {Head(stdin[d])}
                                           ELSE taken[c]
    BY <1>0, <1>7 DEF ChildTakes
  <2>2. Head(stdin[d]) = stdin[d][1] /\ 1 \in 1..Len(stdin[d])
    BY <1>0, <2>1
  <2>3. Head(stdin[d]) \in Requests => Initialized \in taken[d]
    BY <2>2 DEF InOrder
  <2>4. HandshakeFirst'
    BY <1>1, <1>2, <2>1, <2>3
  <2>5. ASSUME NEW c \in Conns, NEW i \in 1..Len(stdin'[c]), stdin'[c][i] \in Requests,
               Initialized \notin taken'[c]
        PROVE  \E j \in 1..(i - 1) : stdin'[c][j] = Initialized
    <3>1. CASE c # d
      BY <2>1, <2>5, <3>1 DEF InOrder
    <3>2. CASE c = d
      <4>1. /\ i + 1 \in 1..Len(stdin[c]) /\ stdin[c][i + 1] = stdin'[c][i]
            /\ \A j \in 2..Len(stdin[c]) : stdin'[c][j - 1] = stdin[c][j]
        <5>1. /\ stdin'[c] = Tail(stdin[c]) /\ stdin[c] # <<>>
              /\ stdin[c] \in Seq(Calls \cup {Initialized})
          BY <1>0, <2>1, <3>2
        <5>2. Len(stdin'[c]) = Len(stdin[c]) - 1 /\ Len(stdin[c]) \in Nat
          BY <5>1
        <5>3. \A j \in 1..Len(stdin'[c]) : stdin'[c][j] = stdin[c][j + 1]
          BY <5>1
        <5>4. i + 1 \in 1..Len(stdin[c]) /\ stdin[c][i + 1] = stdin'[c][i]
          BY <2>5, <5>2, <5>3
        <5>5. ASSUME NEW j \in 2..Len(stdin[c]) PROVE stdin'[c][j - 1] = stdin[c][j]
          <6>1. j - 1 \in 1..Len(stdin'[c]) /\ (j - 1) + 1 = j
            BY <5>2
          <6> QED BY <5>3, <6>1
        <5> QED BY <5>4, <5>5
      <4>2. PICK j \in 1..i : stdin[c][j] = Initialized
        BY <2>1, <2>5, <3>2, <4>1 DEF InOrder
      <4>3. j # 1
        BY <2>1, <2>2, <2>5, <3>2, <4>2
      <4>4. j - 1 \in 1..(i - 1) /\ j \in 2..Len(stdin[c])
        BY <4>1, <4>2, <4>3
      <4> QED BY <4>1, <4>2, <4>4
    <3> QED BY <3>1, <3>2
  <2> QED BY <1>4, <2>4, <2>5
<1>8. ASSUME NEW d \in Conns, SpawnConn(d) \/ shutdown(d) \/ WriteInitialized(d)
      PROVE  InOrder' /\ HandshakeFirst'
  BY <1>0, <1>3, <1>5, <1>6, <1>8 DEF SpawnConn, shutdown, ProcessEnds, WriteInitialized
<1>9. ASSUME NEW k \in Calls, call(k) PROVE InOrder' /\ HandshakeFirst'
  <2>1. CASE WriteRequest(k)
    <3>1. on[k] \in Conns /\ proc[on[k]] = "up"
      BY <2>1 DEF WriteRequest, CanWrite, ConnInv, Placed
    <3>2. k \in Requests => Welcomed(on[k])
      BY <3>1 DEF UsedWelcomed, Used
    <3> QED BY <1>6, <2>1, <3>1, <3>2 DEF WriteRequest
  <2>2. CASE ~WriteRequest(k)
    BY <1>3, <1>9, <2>2
    DEF call, WriteFails, SelectCtx, SelectClosed, SelectResponse, GiveUp
  <2> QED BY <2>1, <2>2
<1>10. ASSUME NEW d \in Conns, readLoop(d) \/ child(d) PROVE InOrder' /\ HandshakeFirst'
  BY <1>3, <1>5, <1>7, <1>10
  DEF readLoop, ReadAnswer, ReadDropped, ReadOversized, Scanned, Deliver, markDead,
    child, ChildAnswers, ChildChatters, ChildWrites, ChildClosesStdin, ChildDies, ProcessEnds
<1>11. CASE \/ \E k \in Calls, d \in Conns : Register(k, d)
            \/ \E K \in SUBSET Calls : Expire(K)
            \/ UNCHANGED connVars
  BY <1>3, <1>11 DEF Register, Expire, connVars
<1> QED BY <1>8, <1>9, <1>10, <1>11 DEF ConnNext

\* A connection comes into use only by the end of its handshake.
LEMMA UsedBefore ==
  ASSUME BackendInv, ConnTypeOK, ConnInv, OutcomeTrue, MutexInv, ChildInv, [Next]_vars,
         NEW c \in Conns, Used(c)', proc'[c] = "up"
  PROVE  \/ Used(c) /\ proc[c] = "up"
         \/ \E t \in Callers : HandshakeSucceeds(t) /\ mine[t] = c
<1> USE CallersAssumption DEF callerVars, backendVars
<1>0. Lasting
  BY ConnectionsStep, ConnLasts
<1>1. Used(c)' <=> \/ conn' = c
                   \/ \E t \in Callers : pc'[t] = "request" /\ mine'[t] = c
                   \/ \E k \in Requests : on'[k] = c
  BY DEF Used, Requests, Request
<1>2. ASSUME MakesNoTry, conn' \in {0, conn},
             \A t \in Callers : pc'[t] = "request" =>
               \/ pc[t] = "request" /\ mine'[t] = mine[t]
               \/ mine'[t] = conn
      PROVE  Used(c)
  <2>1. ASSUME NEW k \in Requests PROVE on'[k] = on[k]
    BY <1>0, <1>2, RequestsAreCalls DEF Lasting, MakesNoTry, Requests
  <2> QED BY <1>1, <1>2, <2>1 DEF Used, Conns
<1>3. ASSUME NEW t \in Callers, Spawn(t) PROVE Used(c) /\ proc[c] = "up"
  <2>1. /\ MakesNoTry /\ conn' = conn /\ conn = 0
        /\ pc' = [pc EXCEPT ![t] = "handshake"]
        /\ mine' = [mine EXCEPT ![t] = spawned + 1]
        /\ \A d \in Conns : d # spawned + 1 => proc'[d] = proc[d]
        /\ spawned + 1 \in Conns => proc[spawned + 1] = "none"
    BY <1>3 DEF Spawn, SpawnConn, GoTo, callVars, MakesNoTry, MutexInv, ConnTypeOK
  <2>2. \A u \in Callers : pc'[u] = "request" => pc[u] = "request" /\ mine'[u] = mine[u]
    BY <2>1 DEF BackendInv
  <2>3. Used(c)
    BY <1>2, <2>1, <2>2
  <2>4. proc[c] # "none"
    BY <2>1, <2>3, RequestsAreCalls DEF Used, ChildInv, ConnInv, Placed, Conns
  <2> QED BY <2>1, <2>3, <2>4
<1>4. ASSUME \A t \in Callers : ~Spawn(t) PROVE proc[c] = "up"
  BY <1>4, OnlySpawnStarts
<1>5. ASSUME NEW t \in Callers, EnsureLive(t) PROVE Used(c)
  <2>1. /\ MakesNoTry /\ conn' = conn /\ mine' = [mine EXCEPT ![t] = conn]
        /\ \A u \in Callers \ {t} : pc'[u] = pc[u]
    BY <1>5 DEF EnsureLive, Proceed, Finish, GoTo, connVars, callVars, MakesNoTry, BackendInv
  <2> QED BY <1>2, <2>1 DEF BackendInv
<1>6. ASSUME NEW t \in Callers,
             \/ EnsureGated(t) \/ EnsureConnects(t) \/ SpawnFails(t) \/ HandshakeFails(t)
             \/ Answered(t) \/ Failed(t) \/ WillRetry(t) \/ invalidate(t)
      PROVE  Used(c)
  <2>1. MakesNoTry
    BY <1>6
    DEF EnsureGated, EnsureConnects, DropDead, SpawnFails, HandshakeFails, Answered, Failed,
      WillRetry, invalidate, shutdown, connVars, callVars, MakesNoTry
  <2>2. mine' = mine /\ conn' \in {0, conn}
    BY <1>6
    DEF EnsureGated, EnsureConnects, DropDead, SpawnFails, HandshakeFails, ConnectFails, Answered,
      Failed, WillRetry, invalidate
  <2>3. \E label \in {"spawn", "returned", "invalidate", "ensure"} :
          pc' = [pc EXCEPT ![t] = label]
    BY <1>6
    DEF EnsureGated, EnsureConnects, SpawnFails, HandshakeFails, ConnectFails, Answered,
      Failed, WillRetry, invalidate, Finish, GoTo
  <2>4. \A u \in Callers : pc'[u] = "request" => pc[u] = "request"
    BY <2>3 DEF BackendInv
  <2> QED BY <1>2, <2>1, <2>2, <2>4
<1>7. ASSUME NEW t \in Callers, SendRequest(t) PROVE Used(c)
  <2>1. /\ pc[t] = "request" /\ UNCHANGED <<pc, mine, conn>>
        /\ on' = [on EXCEPT ![Request(t, try[t])] = mine[t]]
    BY <1>7 DEF SendRequest, Register
  <2>2. ASSUME NEW k \in Requests, on'[k] = c PROVE on[k] = c \/ mine[t] = c
    BY <2>1, <2>2, RequestsAreCalls DEF ConnTypeOK
  <2> QED BY <1>1, <2>1, <2>2 DEF Used
<1>8. ASSUME UNCHANGED <<callerVars, conn>>, \A t \in Callers : ~SendRequest(t)
      PROVE  Used(c)
  BY <1>2, <1>8, OnlySendRequestTries
<1>9. CASE Close
  <2>1. MakesNoTry /\ conn' = 0 /\ UNCHANGED <<pc, mine>>
    BY <1>9 DEF Close, shutdown, callVars, MakesNoTry
  <2> QED BY <1>2, <2>1, <1>4, <1>9 DEF Close, Spawn, MutexInv
<1>10. CASE \E t \in Callers : Spawn(t)
  BY <1>3, <1>10
<1>11. CASE \A t \in Callers : ~Spawn(t)
  <2>1. ASSUME NEW t \in Callers, Caller(t), ~HandshakeSucceeds(t) PROVE Used(c)
    BY <1>5, <1>6, <1>7, <1>8, <1>11, <2>1 DEF Caller, Greet, InCall
  <2>2. ASSUME NEW t \in Callers, HandshakeSucceeds(t) PROVE Used(c) \/ mine[t] = c
    <3>1. /\ MakesNoTry /\ mine[t] \in Conns /\ conn' = mine[t] /\ mine' = mine
          /\ \A u \in Callers \ {t} : pc'[u] = pc[u]
      BY <2>2 DEF HandshakeSucceeds, WriteInitialized, Proceed, Finish, GoTo, callVars,
        MakesNoTry, BackendInv
    <3>2. ASSUME NEW k \in Requests PROVE on'[k] = on[k]
      BY <1>0, <3>1, RequestsAreCalls DEF Lasting, MakesNoTry, Requests
    <3> QED BY <1>1, <3>1, <3>2 DEF Used
  <2>3. CASE \/ \E t \in Callers : Timers(t)
             \/ \E d \in Conns : Reader(d) \/ Child(d)
             \/ WindowElapses
             \/ UNCHANGED vars
    <3>1. UNCHANGED <<callerVars, conn>>
      BY <2>3 DEF Timers, HandshakeExpires, CallerExpires, Reader, Child, WindowElapses, vars
    <3> QED BY <1>4, <1>7, <1>8, <1>11, <3>1
  <2> QED BY <1>4, <1>9, <1>11, <2>1, <2>2, <2>3 DEF Next
<1> QED BY <1>10, <1>11, <1>3

LEMMA UsedWelcomedStep ==
  ASSUME BackendInv, ConnTypeOK, ConnInv, OutcomeTrue, MutexInv, ChildInv, UsedWelcomed,
         [Next]_vars
  PROVE  UsedWelcomed'
<1> SUFFICES ASSUME NEW c \in Conns, Used(c)', proc'[c] = "up" PROVE Welcomed(c)'
  BY DEF UsedWelcomed, Conns
<1>1. CASE Used(c) /\ proc[c] = "up"
  BY <1>1, ConnectionsStep, WelcomedLasts DEF UsedWelcomed
<1>2. ASSUME NEW t \in Callers, HandshakeSucceeds(t), mine[t] = c PROVE Welcomed(c)'
  <2>1. /\ stdin[c] \in Seq(Calls \cup {Initialized})
        /\ stdin'[c] = Append(stdin[c], Initialized)
    BY <1>2 DEF HandshakeSucceeds, WriteInitialized, ConnTypeOK
  <2>2. /\ Len(stdin[c]) + 1 \in 1..Len(stdin'[c])
        /\ stdin'[c][Len(stdin[c]) + 1] = Initialized
    BY <2>1
  <2> QED BY <2>2 DEF Welcomed
<1> QED BY <1>1, <1>2, UsedBefore

-----------------------------------------------------------------------------
(* The invariant and what follows from it.                                   *)

Inv ==
  /\ ConnTypeOK /\ BackendInv /\ ConnInv /\ Traced
  /\ MutexInv /\ ChildInv
  /\ \A t \in Callers : TryInv(t)
  /\ InOrder /\ HandshakeFirst /\ UsedWelcomed

LEMMA InvInit == Init => Inv
<1> SUFFICES ASSUME Init PROVE Inv
  OBVIOUS
<1>1. ConnTypeOK /\ Traced
  BY TracedInit DEF Init, ConnInit, ConnTypeOK, Outcomes
<1>2. BackendInv
  BY DEF Init, BackendInv, Tries, Results
<1>3. ConnInv
  BY DEF Init, ConnInit, ConnInv, Placed, UniqueIds, TakenInPlace, StdinInPlace, StdoutInPlace,
    OneInHand, OwnAnswer, SendNeverBlocks, TableIsExact, Awaits, DeadMeansGone, Conns
<1>4. MutexInv
  BY CallersAssumption DEF Init, MutexInv, ConnectedMeansNoBackoff
<1>5. ChildInv
  BY DEF Init, ConnInit, ChildInv, NoOrphanChild, Runs
<1>6. ASSUME NEW t \in Callers PROVE TryInv(t)
  <2>1. step[Request(t, 1)] = "new" /\ step[Request(t, 2)] = "new"
    BY FramesAreCalls DEF Init, ConnInit, Tries
  <2> QED BY <2>1 DEF Init, TryInv
<1>7. InOrder /\ UsedWelcomed
  BY DEF Init, ConnInit, InOrder, UsedWelcomed
<1>8. HandshakeFirst
  BY DEF Init, ConnInit, HandshakeFirst
<1> QED BY <1>1, <1>2, <1>3, <1>4, <1>5, <1>6, <1>7, <1>8 DEF Inv

\* Every step keeps it.
LEMMA InvStep ==
  ASSUME Inv, [Next]_vars
  PROVE  Inv'
<1>1. /\ ConnTypeOK /\ BackendInv /\ ConnInv /\ Traced /\ OutcomeTrue
      /\ MutexInv /\ ChildInv
      /\ \A t \in Callers : TryInv(t)
      /\ InOrder /\ HandshakeFirst /\ UsedWelcomed
  BY DEF Inv, Traced
<1>2. [ConnNext]_connVars /\ BackendInv'
  BY <1>1, BackendInvStep, ConnectionsStep
<1>3. ConnTypeOK' /\ ConnInv'
  BY <1>1, <1>2, ConnTypeStep, ConnStep
<1>4. OutcomeTrue' /\ AnswerTaken' /\ StdoutTaken'
  BY <1>1, <1>2, OutcomeStep, AnswerTakenStep, StdoutTakenStep
<1>5. MutexInv' /\ ChildInv'
  BY <1>1, MutexInvStep, ChildInvStep
<1>6. \A t \in Callers : TryInv(t)'
  BY <1>1, <1>4, TryInvStep
<1>7. InOrder' /\ HandshakeFirst'
  BY <1>1, <1>2, InOrderStep
<1>8. UsedWelcomed'
  BY <1>1, UsedWelcomedStep
<1> QED BY <1>2, <1>3, <1>4, <1>5, <1>6, <1>7, <1>8 DEF Inv, Traced

\* The invariant implies what the runs check of the backend.
LEMMA InvSafe ==
  ASSUME Inv
  PROVE  NoOrphanChild /\ HandshakeFirst /\ RetryOnlyAcrossRestart /\ ConnectedMeansNoBackoff
<1>1. NoOrphanChild /\ HandshakeFirst /\ ConnectedMeansNoBackoff
  BY DEF Inv, ChildInv, MutexInv
<1>2. ASSUME NEW t \in Callers, step[Request(t, 2)] # "new"
      PROVE  /\ out[Request(t, 1)] \in {"closed", "write"}
             /\ Gone(on[Request(t, 1)])
             /\ on[Request(t, 2)] # on[Request(t, 1)]
  <2>1. TryInv(t) /\ BackendInv
    BY DEF Inv
  <2>2. try[t] = 2
    BY <1>2, <2>1 DEF TryInv, BackendInv, Tries
  <2> QED BY <1>2, <2>1, <2>2 DEF TryInv
<1> QED BY <1>1, <1>2 DEF RetryOnlyAcrossRestart

\* No child outlives the connection it belongs to, no request reaches a child
\* before its handshake is complete, a second try comes when the child of the
\* first has ended or been killed, and a session that is up has forgotten its failures.
THEOREM BackendSafe ==
  Spec => [](/\ NoOrphanChild /\ HandshakeFirst
             /\ RetryOnlyAcrossRestart /\ ConnectedMeansNoBackoff)
<1>1. Inv /\ [Next]_vars => Inv'
  BY InvStep
<1>2. Inv => NoOrphanChild /\ HandshakeFirst /\ RetryOnlyAcrossRestart /\ ConnectedMeansNoBackoff
  BY InvSafe
<1> QED BY <1>1, <1>2, InvInit, PTL DEF Spec

\* No request reaches a child whose handshake is not complete (initialize).
THEOREM HandshakeFirstHolds == Spec => []HandshakeFirst
BY BackendSafe, PTL

\* The two tries of a request never reach the same child, nor two children that
\* both run (callWithReconnect).
THEOREM RetryOnlyAcrossRestartHolds == Spec => []RetryOnlyAcrossRestart
BY BackendSafe, PTL

\* The backoff of earlier failures is forgotten once a session is up (connect).
THEOREM ConnectedMeansNoBackoffHolds == Spec => []ConnectedMeansNoBackoff
BY BackendSafe, PTL

-----------------------------------------------------------------------------
(* What a step does to the child and the connection in use.                  *)

LEMMA SpawnStep ==
  ASSUME Inv, [Next]_vars, spawned' # spawned
  PROVE  ~gated /\ \A c \in Conns : ~Runs(c)
<1> USE DEF callerVars, backendVars
<1>1. ASSUME NEW t \in Callers, Spawn(t) PROVE ~gated /\ \A c \in Conns : ~Runs(c)
  <2>1. mu = t /\ pc[t] = "spawn"
    BY <1>1 DEF Spawn, Inv, MutexInv
  <2>2. conn = 0 /\ ~gated
    BY <2>1, CallersAssumption DEF Inv, MutexInv
  <2>3. \A c \in Conns : c # 0
    BY DEF Conns
  <2> QED BY <2>1, <2>2, <2>3 DEF Inv, ChildInv, NoOrphanChild
<1>2. ASSUME NEW t \in Callers, Caller(t) PROVE Spawn(t)
  BY <1>2 DEF Caller, EnsureLive, EnsureGated, EnsureConnects, SpawnFails, ConnectFails, Greet,
    HandshakeFails, HandshakeSucceeds, SendRequest, Answered, Failed, WillRetry, invalidate,
    InCall
<1>3. ~WindowElapses /\ ~Close /\ ~UNCHANGED vars
  BY DEF WindowElapses, Close, vars
<1>4. /\ \A t \in Callers : ~Timers(t)
      /\ \A c \in Conns : ~Reader(c) /\ ~Child(c)
  BY DEF Timers, HandshakeExpires, CallerExpires, Reader, Child
<1> QED BY <1>1, <1>2, <1>3, <1>4 DEF Next

\* One respawn at a time, none while another child runs or inside the window,
\* whoever calls meanwhile.
THEOREM SpawnOnlyWhenDownHolds == Spec => SpawnOnlyWhenDown
<1>1. Inv /\ [Next]_vars => Inv'
  BY InvStep
<1>2. Inv /\ [Next]_vars =>
        [spawned' # spawned => ~gated /\ \A c \in Conns : ~Runs(c)]_vars
  BY SpawnStep
<1> QED BY <1>1, <1>2, InvInit, PTL DEF Spec, SpawnOnlyWhenDown

LEMMA KeepStep ==
  ASSUME Inv, [Next]_vars, conn # 0, alive(conn), proc[conn] = "up", conn' # conn
  PROVE  Close
<1> USE DEF callerVars, backendVars
<1>1. ASSUME NEW t \in Callers PROVE ~DropDead(t)
  BY DEF DropDead, CurrentAlive
<1>2. ASSUME NEW t \in Callers PROVE ~HandshakeSucceeds(t)
  BY CallersAssumption DEF HandshakeSucceeds, Inv, MutexInv
<1>3. ASSUME NEW t \in Callers PROVE ~invalidate(t)
  <2> SUFFICES ASSUME invalidate(t) PROVE FALSE
    OBVIOUS
  <2>1. pc[t] = "invalidate" /\ conn = mine[t]
    BY DEF invalidate
  <2>2. on[Request(t, 1)] = conn /\ out[Request(t, 1)] \in {"closed", "write"}
    BY <2>1 DEF Inv, TryInv
  <2>3. Request(t, 1) \in Calls
    BY FramesAreCalls DEF Tries
  <2> QED BY <2>2, <2>3 DEF Inv, Traced, OutcomeTrue, Unhearing
<1>4. ASSUME NEW t \in Callers PROVE ~Caller(t)
  BY <1>1, <1>2, <1>3 DEF Caller, EnsureLive, EnsureGated, EnsureConnects, SpawnFails,
    ConnectFails, Spawn, Greet, HandshakeFails, SendRequest, Answered, Failed, WillRetry, InCall
<1>5. ~WindowElapses /\ ~UNCHANGED vars
  BY DEF WindowElapses, vars
<1>6. /\ \A t \in Callers : ~Timers(t)
      /\ \A c \in Conns : ~Reader(c) /\ ~Child(c)
  BY DEF Timers, HandshakeExpires, CallerExpires, Reader, Child
<1> QED BY <1>4, <1>5, <1>6 DEF Next

\* Nobody takes away a connection that works, however late a caller finds out
\* that the one before it was lost.
THEOREM WorkingConnKeptHolds == Spec => WorkingConnKept
<1>1. Inv /\ [Next]_vars => Inv'
  BY InvStep
<1>2. Inv /\ [Next]_vars =>
        [conn # 0 /\ alive(conn) /\ proc[conn] = "up" /\ conn' # conn => Close]_vars
  BY KeepStep
<1> QED BY <1>1, <1>2, InvInit, PTL DEF Spec, WorkingConnKept

-----------------------------------------------------------------------------
(* The abstract backend.                                                     *)

\* A caller returns, without a child taking anything.
LEMMA ReturnsStep ==
  ASSUME Inv, NEW t \in Callers, pc[t] # "returned", UNCHANGED taken,
         NEW r \in Results, Finish(t, r),
         r \in {"unavailable"} \cup
           (IF t \in Initializers THEN {"ready"}
            ELSE {"gaveUp", "lost"} \cup (IF executed[t] = {} THEN {} ELSE {"answered"}))
  PROVE  Service!Next
<1>1. result[t] = "none" /\ result' = [result EXCEPT ![t] = r]
  BY DEF Inv, TryInv, Finish
<1>2. executed' = executed
  BY DEF executed
<1>3. Service!Return(t, r)
  BY <1>1, <1>2 DEF Service!Return
<1>4. r \in {"ready", "answered", "unavailable", "gaveUp", "lost"}
  OBVIOUS
<1> QED BY <1>3, <1>4 DEF Service!Next

\* A line that a child takes is the execution of a try, or nothing new.
LEMMA ExecutesStep ==
  ASSUME Inv, NEW c \in Conns, ChildTakes(c), UNCHANGED result
  PROVE  [Service!Next]_<<result, executed>>
<1> DEFINE h == Head(stdin[c])
<1>1. h = stdin[c][1] /\ 1 \in 1..Len(stdin[c])
  BY DEF ChildTakes, Inv, ConnTypeOK
<1>2. \A d \in Conns : taken'[d] = IF d = c THEN taken[c] \cup {h} ELSE taken[d]
  BY DEF ChildTakes, Inv, ConnTypeOK
<1>3. proc[c] = "up"
  BY DEF ChildTakes
<1> HIDE DEF h
<1>4. CASE h \notin Requests
  <2>1. \A u \in Callers, m \in Tries, d \in Conns :
          Request(u, m) \in taken'[d] <=> Request(u, m) \in taken[d]
    BY <1>2, <1>4 DEF Requests
  <2> QED BY <2>1 DEF executed
<1>5. ASSUME NEW t \in Callers, NEW n \in Tries, h = Request(t, n)
      PROVE  [Service!Next]_<<result, executed>>
  <2>1. h \in Calls
    BY <1>5, FramesAreCalls
  <2>2. on[h] = c /\ step[h] # "new"
    <3>1. on[h] = c /\ c # 0
      BY <1>1, <2>1 DEF Inv, ConnInv, StdinInPlace, Conns
    <3> QED BY <2>1, <3>1 DEF Inv, ConnInv, Placed
  <2>3. t \notin Initializers
    BY <1>5, <2>2 DEF Inv, TryInv, Tries
  <2>4. ASSUME n \notin executed[t] PROVE result[t] \in {"none", "gaveUp"}
    <3>1. h \notin taken[c]
      BY <1>5, <2>4 DEF executed
    <3>2. ~Settled(t, n)
      BY <1>3, <1>5, <2>2, <3>1 DEF Settled, Unhearing
    <3> QED BY <3>2 DEF Inv, TryInv
  <2>5. \A u \in Callers, m \in Tries : Request(u, m) = h <=> u = t /\ m = n
    BY <1>5 DEF Request
  <2>6. \A u \in Callers, m \in Tries :
          (\E d \in Conns : Request(u, m) \in taken'[d])
            <=> (\E d \in Conns : Request(u, m) \in taken[d]) \/ (u = t /\ m = n)
    BY <1>2, <2>5
  <2>7. executed' = [executed EXCEPT ![t] = @ \cup {n}]
    <3>1. \A u \in Callers : executed'[u] = IF u = t THEN executed[u] \cup {n} ELSE executed[u]
      BY <2>6 DEF executed
    <3> QED BY <3>1 DEF executed
  <2>8. CASE n \in executed[t]
    BY <2>7, <2>8 DEF executed
  <2>9. CASE n \notin executed[t]
    BY <2>3, <2>4, <2>7, <2>9 DEF Service!Execute, Service!Next, Service!Tries, Tries
  <2> QED BY <2>8, <2>9
<1> QED BY <1>4, <1>5 DEF Requests

LEMMA ServiceStep ==
  ASSUME Inv, [Next]_vars
  PROVE  [Service!Next]_<<result, executed>>
<1> USE DEF callVars, tableVars, childVars, connVars, callerVars, backendVars
<1>1. ASSUME UNCHANGED <<result, taken>> PROVE [Service!Next]_<<result, executed>>
  BY <1>1 DEF executed
<1>2. ASSUME NEW t \in Callers, pc[t] # "returned", Finish(t, "unavailable"), UNCHANGED taken
      PROVE  Service!Next
  BY <1>2, ReturnsStep DEF Results
<1>3. ASSUME NEW t \in Callers, pc[t] # "returned", NEW c \in Conns, Proceed(t, c),
             UNCHANGED taken
      PROVE  [Service!Next]_<<result, executed>>
  <2>1. CASE t \in Initializers
    BY <1>3, <2>1, ReturnsStep DEF Proceed, Results
  <2>2. CASE t \notin Initializers
    BY <1>1, <1>3, <2>2 DEF Proceed
  <2> QED BY <2>1, <2>2
<1>4. ASSUME NEW t \in Callers, EnsureLive(t) PROVE [Service!Next]_<<result, executed>>
  BY <1>3, <1>4 DEF EnsureLive, CurrentAlive, Inv, BackendInv
<1>5. ASSUME NEW t \in Callers, DropDead(t) PROVE UNCHANGED taken /\ pc[t] = "ensure"
  BY <1>5 DEF DropDead, shutdown, ProcessEnds
<1>6. ASSUME NEW t \in Callers, SpawnFails(t) \/ HandshakeFails(t) PROVE Service!Next
  BY <1>2, <1>6 DEF SpawnFails, HandshakeFails, ConnectFails, shutdown, ProcessEnds
<1>7. ASSUME NEW t \in Callers, HandshakeSucceeds(t) PROVE [Service!Next]_<<result, executed>>
  BY <1>3, <1>7 DEF HandshakeSucceeds, WriteInitialized, Inv, BackendInv
<1>8. ASSUME NEW t \in Callers, Answered(t) PROVE Service!Next
  <2>1. t \notin Initializers /\ pc[t] = "request"
    BY <1>8 DEF Answered, Inv, TryInv
  <2>2. try[t] \in Tries /\ Request(t, try[t]) \in Calls
    BY FramesAreCalls DEF Inv, BackendInv
  <2>3. out[Request(t, try[t])] = "response"
    BY <1>8 DEF Answered, RequestOut
  <2>4. on[Request(t, try[t])] \in Conns /\ Request(t, try[t]) \in taken[on[Request(t, try[t])]]
    <3>1. OutcomeTrue /\ ConnInv
      BY DEF Inv, Traced
    <3> QED BY <2>2, <2>3, <3>1, OutcomePlaced DEF OutcomeTrue
  <2>5. executed[t] # {}
    BY <2>2, <2>4 DEF executed
  <2> QED BY <1>8, <2>1, <2>5, ReturnsStep DEF Answered, Results
<1>9. ASSUME NEW t \in Callers, Failed(t) PROVE Service!Next
  <2>1. t \notin Initializers /\ pc[t] = "request"
    BY <1>9 DEF Failed, Inv, TryInv
  <2>2. PICK r \in {"gaveUp", "lost"} : Finish(t, r)
    BY <1>9 DEF Failed
  <2>3. UNCHANGED taken /\ r \in Results
    BY <1>9 DEF Failed, Results
  <2> QED BY <2>1, <2>2, <2>3, ReturnsStep
<1>10. ASSUME NEW k \in Calls, call(k) PROVE UNCHANGED taken
  BY <1>10 DEF call, WriteRequest, WriteFails, SelectCtx, SelectClosed, SelectResponse, GiveUp
<1>11. ASSUME NEW t \in Callers, InCall(t) PROVE UNCHANGED <<result, taken>>
  BY <1>10, <1>11, FramesAreCalls DEF InCall
<1>12. ASSUME NEW t \in Callers,
              Spawn(t) \/ Greet(t) \/ SendRequest(t) \/ WillRetry(t) \/ invalidate(t)
       PROVE  UNCHANGED <<result, taken>>
  BY <1>12 DEF Spawn, SpawnConn, Greet, SendRequest, Register, WillRetry, invalidate, shutdown,
    ProcessEnds
<1>13. ASSUME NEW t \in Callers, Caller(t) PROVE [Service!Next]_<<result, executed>>
  BY <1>1, <1>2, <1>4, <1>5, <1>6, <1>7, <1>8, <1>9, <1>11, <1>12, <1>13
  DEF Caller, EnsureGated, EnsureConnects
<1>14. ASSUME NEW t \in Callers, Timers(t) PROVE UNCHANGED <<result, taken>>
  BY <1>14 DEF Timers, HandshakeExpires, CallerExpires, Expire
<1>15. ASSUME NEW c \in Conns, Reader(c) PROVE UNCHANGED <<result, taken>>
  BY <1>15 DEF Reader, readLoop, ReadAnswer, ReadDropped, ReadOversized, Scanned, Deliver,
    markDead
<1>16. ASSUME NEW c \in Conns, Child(c) PROVE [Service!Next]_<<result, executed>>
  <2>1. CASE ChildTakes(c)
    BY <1>16, <2>1, ExecutesStep DEF Child
  <2>2. CASE ~ChildTakes(c)
    BY <1>1, <1>16, <2>2 DEF Child, child, ChildAnswers, ChildChatters, ChildWrites,
      ChildClosesStdin, ChildDies, ProcessEnds
  <2> QED BY <2>1, <2>2
<1>17. CASE WindowElapses \/ Close \/ UNCHANGED vars
  BY <1>1, <1>17 DEF WindowElapses, Close, shutdown, ProcessEnds, vars
<1> QED BY <1>1, <1>13, <1>14, <1>15, <1>16, <1>17 DEF Next

\* The stdio backend is an abstract backend: a try executes at most once, an
\* answer means that the request has executed, and of the requests that have
\* ended only one that ran out of time may execute later.
THEOREM StdioServiceHolds == Spec => ServiceSpec
<1>1. Init => Service!Init
  BY DEF Init, ConnInit, Service!Init, executed
<1>2. Inv /\ [Next]_vars => Inv'
  BY InvStep
<1>3. Inv /\ [Next]_vars => [Service!Next]_<<result, executed>>
  BY ServiceStep
<1> QED
  BY <1>1, <1>2, <1>3, InvInit, PTL
  DEF Spec, ServiceSpec, Service!Spec, Service!serviceVars

-----------------------------------------------------------------------------
(* What the governance pipeline makes of the backend.                        *)

\* The service that module Proxy is built on: it takes any backend to execute a
\* request whose result is an error of the transport, as an HTTP one may.
Lenient == INSTANCE BackendService WITH LateResults <- {"gaveUp", "lost"}

\* A stdio backend provides what the pipeline relies on, and more: the proofs
\* about the pipeline hold over either kind of backend.
THEOREM StdioServesProxy == Spec => Lenient!Spec
<1>1. Service!Init => Lenient!Init
  BY DEF Service!Init, Lenient!Init
<1>2. [Service!Next]_(Service!serviceVars) => [Lenient!Next]_(Lenient!serviceVars)
  <2>1. ASSUME NEW t \in Callers, NEW n \in Service!Tries, Service!Execute(t, n)
        PROVE  Lenient!Next
    BY <2>1 DEF Service!Execute, Service!Tries, Lenient!Execute, Lenient!Tries, Lenient!Next
  <2>2. ASSUME NEW t \in Callers,
               NEW r \in {"ready", "answered", "unavailable", "gaveUp", "lost"},
               Service!Return(t, r)
        PROVE  Lenient!Next
    BY <2>2 DEF Service!Return, Lenient!Return, Lenient!Next
  <2> QED BY <2>1, <2>2 DEF Service!Next, Service!serviceVars, Lenient!serviceVars
<1> QED BY <1>1, <1>2, StdioServiceHolds, PTL DEF ServiceSpec, Service!Spec, Lenient!Spec

\* What a caller is told is final: an answer stands for a request that has been
\* executed, and after any result but running out of time nothing executes any
\* more, neither the first try nor the second (errBackendUnavailable,
\* errConnClosed and callWithReconnect's comment).
AnsweredMeansExecuted == \A t \in Callers : result[t] = "answered" => executed[t] # {}

NothingRunsAfterResult ==
  [][\A t \in Callers : result[t] \notin {"none", "gaveUp"} => executed'[t] = executed[t]
    ]_(Service!serviceVars)

\* What a caller is told of a request stays true, for any number of callers.
THEOREM ResultsAreFinal == Spec => []AnsweredMeansExecuted /\ NothingRunsAfterResult
<1> DEFINE Typed == result \in [Callers -> Results]
           Quiet == \A t \in Callers : result[t] \notin {"none", "gaveUp"} =>
                                       executed'[t] = executed[t]
<1>1. Service!Init => Typed /\ AnsweredMeansExecuted
  BY DEF Service!Init, AnsweredMeansExecuted, Results
<1>2. Typed /\ AnsweredMeansExecuted /\ [Service!Next]_(Service!serviceVars)
        => Typed' /\ AnsweredMeansExecuted' /\ [Quiet]_(Service!serviceVars)
  <2> SUFFICES ASSUME Typed, AnsweredMeansExecuted, [Service!Next]_(Service!serviceVars)
               PROVE  Typed' /\ AnsweredMeansExecuted' /\ [Quiet]_(Service!serviceVars)
    OBVIOUS
  <2>1. executed \in [Callers -> SUBSET Tries]
    BY DEF executed
  <2>2. ASSUME NEW t \in Callers, NEW n \in Service!Tries, Service!Execute(t, n)
        PROVE  Typed' /\ AnsweredMeansExecuted' /\ Quiet
    BY <2>1, <2>2 DEF Service!Execute, AnsweredMeansExecuted
  <2>3. ASSUME NEW t \in Callers,
               NEW r \in {"ready", "answered", "unavailable", "gaveUp", "lost"},
               Service!Return(t, r)
        PROVE  Typed' /\ AnsweredMeansExecuted' /\ Quiet
    BY <2>1, <2>3 DEF Service!Return, AnsweredMeansExecuted, Results
  <2>4. CASE UNCHANGED Service!serviceVars
    BY <2>4 DEF Service!serviceVars, AnsweredMeansExecuted
  <2> QED BY <2>2, <2>3, <2>4 DEF Service!Next
<1> QED
  BY <1>1, <1>2, StdioServiceHolds, PTL
  DEF ServiceSpec, Service!Spec, NothingRunsAfterResult

=============================================================================
