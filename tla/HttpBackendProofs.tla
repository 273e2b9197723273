--------------------------- MODULE HttpBackendProofs ---------------------------
(***************************************************************************)
(* Proofs about an HTTP backend, for any number of requests, whatever the  *)
(* server does and however often it is redeployed.                         *)
(***************************************************************************)
EXTENDS HttpBackend, TLAPS

-----------------------------------------------------------------------------
(* Types.  A caller has returned if and only if it has a result, and only    *)
(* Initialize sends the notification.                                        *)

TypeInv ==
  /\ HttpTypeOK
  /\ \A t \in Callers : pc[t] = "returned" <=> result[t] # "none"
  /\ \A t \in Callers : pc[t] = "notify" => t \in Initializers

\* A caller returns with a result that is one of its own.
LEMMA FinishType ==
  ASSUME TypeInv, NEW t \in Callers, NEW r \in Results(t) \ {"none"}, Finish(t, r)
  PROVE  /\ pc' \in [Callers -> {"idle", "headers", "adopt", "body", "notify", "returned"}]
         /\ result' \in [Callers -> UNION {Results(u) : u \in Callers}]
         /\ \A u \in Callers : result'[u] \in Results(u)
         /\ \A u \in Callers : pc'[u] = "returned" <=> result'[u] # "none"
         /\ \A u \in Callers : pc'[u] = "notify" => u \in Initializers
BY DEF TypeInv, HttpTypeOK, Finish, GoTo

LEMMA CloseType ==
  ASSUME TypeInv, NEW t \in Callers, Close(t)
  PROVE  /\ reply' \in [Callers -> {"none", "json", "sse", "failure"}]
         /\ granted' \in [Callers -> 0..issued']
         /\ answered' \in SUBSET Callers
         /\ body' \in [Callers -> {"open", "ended", "broken"}]
         /\ UNCHANGED <<session, carried, expired, at, serverVars>>
BY DEF TypeInv, HttpTypeOK, Close, serverVars

LEMMA TypeInvInit == Init => TypeInv
BY CallersAssumption DEF Init, TypeInv, HttpTypeOK, Results

LEMMA TypeInvStep ==
  ASSUME TypeInv, [Next]_vars
  PROVE  TypeInv'
<1> USE DEF callerVars, exchangeVars, serverVars
<1>1. ASSUME NEW t \in Callers, NEW r \in Results(t) \ {"none"}, Finish(t, r), Close(t)
      PROVE  TypeInv'
  <2>1. /\ pc' \in [Callers -> {"idle", "headers", "adopt", "body", "notify", "returned"}]
        /\ result' \in [Callers -> UNION {Results(u) : u \in Callers}]
        /\ \A u \in Callers : result'[u] \in Results(u)
        /\ \A u \in Callers : pc'[u] = "returned" <=> result'[u] # "none"
        /\ \A u \in Callers : pc'[u] = "notify" => u \in Initializers
    BY <1>1, FinishType
  <2>2. /\ reply' \in [Callers -> {"none", "json", "sse", "failure"}]
        /\ granted' \in [Callers -> 0..issued']
        /\ answered' \in SUBSET Callers
        /\ body' \in [Callers -> {"open", "ended", "broken"}]
        /\ UNCHANGED <<session, carried, expired, at, serverVars>>
    BY <1>1, CloseType
  <2> QED BY <2>1, <2>2 DEF TypeInv, HttpTypeOK
<1>2. ASSUME NEW t \in Callers, NEW r \in {"lost", "gaveUp"}, Fail(t, r), Close(t)
      PROVE  TypeInv'
  <2>1. CASE t \in Initializers
    <3>1. Finish(t, "unavailable") /\ "unavailable" \in Results(t) \ {"none"}
      BY <1>2, <2>1 DEF Fail, Results
    <3> QED BY <1>1, <1>2, <3>1
  <2>2. CASE t \notin Initializers
    <3>1. Finish(t, r) /\ r \in Results(t) \ {"none"}
      BY <1>2, <2>2 DEF Fail, Results
    <3> QED BY <1>1, <1>2, <3>1
  <2> QED BY <2>1, <2>2
<1>3. ASSUME NEW t \in Callers, Send(t) \/ ReadHeaders(t) \/ setSession(t) PROVE TypeInv'
  <2>1. /\ \E label \in {"headers", "adopt", "body"} : pc' = [pc EXCEPT ![t] = label]
        /\ pc[t] # "returned"
        /\ UNCHANGED <<result, expired, reply, granted, answered, body, serverVars>>
    BY <1>3 DEF Send, ReadHeaders, setSession, GoTo
  <2>2. /\ session' \in 0..issued
        /\ carried' \in [Callers -> 0..issued]
        /\ at' \in [Callers -> {"client", "travels", "served", "refused"}]
    BY <1>3 DEF Send, ReadHeaders, setSession, TypeInv, HttpTypeOK
  <2>3. /\ pc' \in [Callers -> {"idle", "headers", "adopt", "body", "notify", "returned"}]
        /\ \A u \in Callers : pc'[u] = "returned" <=> result[u] # "none"
        /\ \A u \in Callers : pc'[u] = "notify" => u \in Initializers
    BY <2>1 DEF TypeInv, HttpTypeOK
  <2> QED BY <2>1, <2>2, <2>3 DEF TypeInv, HttpTypeOK
<1>4. ASSUME NEW t \in Callers, Decoded(t) PROVE TypeInv'
  <2>1. CASE t \notin Initializers /\ Finish(t, "answered")
    <3>1. "answered" \in Results(t) \ {"none"}
      BY <2>1 DEF Results
    <3> QED BY <1>1, <1>4, <2>1, <3>1 DEF Decoded
  <2>2. CASE t \in Initializers /\ Finish(t, "unavailable")
    <3>1. "unavailable" \in Results(t) \ {"none"}
      BY <2>2 DEF Results
    <3> QED BY <1>1, <1>4, <2>2, <3>1 DEF Decoded
  <2>3. CASE t \in Initializers /\ GoTo(t, "notify") /\ UNCHANGED result
    <3>1. /\ pc' = [pc EXCEPT ![t] = "notify"]
          /\ pc[t] # "returned"
          /\ Close(t)
      BY <1>4, <2>3 DEF Decoded, GoTo
    <3>2. /\ reply' \in [Callers -> {"none", "json", "sse", "failure"}]
          /\ granted' \in [Callers -> 0..issued']
          /\ answered' \in SUBSET Callers
          /\ body' \in [Callers -> {"open", "ended", "broken"}]
          /\ UNCHANGED <<session, carried, expired, at, serverVars>>
      BY <3>1, CloseType
    <3>3. /\ \A u \in Callers : pc'[u] = IF u = t THEN "notify" ELSE pc[u]
          /\ pc' \in [Callers -> {"idle", "headers", "adopt", "body", "notify", "returned"}]
      BY <3>1 DEF TypeInv, HttpTypeOK
    <3>4. HttpTypeOK'
      BY <2>3, <3>2, <3>3 DEF TypeInv, HttpTypeOK, serverVars
    <3> QED BY <2>3, <3>1, <3>3, <3>4 DEF TypeInv
  <2> QED BY <1>4, <2>1, <2>2, <2>3 DEF Decoded
<1>5. ASSUME NEW t \in Callers, postNotify(t) PROVE TypeInv'
  <2>1. t \in Initializers
    BY <1>5 DEF postNotify, TypeInv
  <2>2. Finish(t, "ready") /\ "ready" \in Results(t) \ {"none"}
    BY <1>5, <2>1 DEF postNotify, Results
  <2> QED BY <1>5, <2>2, FinishType DEF postNotify, TypeInv, HttpTypeOK
<1>6. ASSUME NEW t \in Callers, Expire(t) PROVE TypeInv'
  BY <1>6 DEF Expire, TypeInv, HttpTypeOK
<1>7. ASSUME NEW t \in Callers, Serve(t) PROVE TypeInv'
  <2>1. /\ issued' \in Nat /\ issued <= issued'
        /\ live' \in SUBSET (1..issued')
        /\ granted' \in [Callers -> 0..issued']
    BY <1>7 DEF Serve, TypeInv, HttpTypeOK
  <2>2. /\ session \in 0..issued'
        /\ carried \in [Callers -> 0..issued']
    BY <2>1 DEF TypeInv, HttpTypeOK
  <2>3. /\ at' \in [Callers -> {"client", "travels", "served", "refused"}]
        /\ executed' \in [Callers -> SUBSET {1}]
        /\ UNCHANGED <<session, callerVars, reply, answered, body, stateful, redeploys>>
    BY <1>7 DEF Serve, TypeInv, HttpTypeOK
  <2> QED BY <2>1, <2>2, <2>3 DEF TypeInv, HttpTypeOK
<1>8. ASSUME NEW t \in Callers, Refuse(t) \/ Reply(t) \/ SendAnswer(t) \/ EndBody(t)
      PROVE  TypeInv'
  BY <1>8 DEF Refuse, Reply, SendAnswer, EndBody, TypeInv, HttpTypeOK
<1>9. CASE Redeploy
  BY <1>9, CallersAssumption DEF Redeploy, TypeInv, HttpTypeOK
<1>10. CASE UNCHANGED vars
  BY <1>10 DEF vars, TypeInv, HttpTypeOK
<1>11. ASSUME NEW t \in Callers, Caller(t) PROVE TypeInv'
  BY <1>2, <1>3, <1>4, <1>5, <1>11
  DEF Caller, TransportFails, Undecoded, ContextDone
<1> QED BY <1>6, <1>7, <1>8, <1>9, <1>10, <1>11 DEF Next, Server

\* The type invariant of the HTTP backend: in particular Initialize and the other
\* requests end in results of their own kind.
THEOREM HttpTypeCorrect == Spec => []HttpTypeOK
<1>1. TypeInv => HttpTypeOK
  BY DEF TypeInv
<1> QED BY <1>1, TypeInvInit, TypeInvStep, PTL DEF Spec

-----------------------------------------------------------------------------
(* The service.                                                              *)

\* What a request has come to on its way to the server, and what the caller may
\* know of it: it has been executed once if it was served, an answer comes only
\* then, and a request that was not sent is nowhere.
Exchanged(t) ==
  /\ executed[t] = IF at[t] = "served" /\ t \notin Initializers THEN {1} ELSE {}
  /\ reply[t] \in {"json", "sse"} => at[t] = "served"
  /\ result[t] = "answered" => at[t] = "served"
  /\ pc[t] = "idle" => at[t] = "client"

ExchangeInv == \A t \in Callers : Exchanged(t)

\* How a step of a caller that is over ends its request.
Ends(t, r) ==
  /\ Finish(t, r)
  /\ Close(t)
  /\ pc[t] # "returned"
  /\ r \in Results(t) \ {"none", "ready"}
  /\ r = "answered" => reply[t] \in {"json", "sse"}

LEMMA CallerSteps ==
  ASSUME TypeInv, NEW t \in Callers, Caller(t)
  PROVE  \/ \E r \in Results(t) : Ends(t, r)
         \/ Send(t)
         \/ ReadHeaders(t) \/ setSession(t)
         \/ /\ t \in Initializers
            /\ pc[t] = "body" /\ reply[t] \in {"json", "sse"}
            /\ GoTo(t, "notify") /\ UNCHANGED result /\ Close(t)
         \/ postNotify(t)
<1>1. ASSUME NEW r \in {"lost", "gaveUp"}, Fail(t, r), Close(t), pc[t] # "returned"
      PROVE  \E s \in Results(t) : Ends(t, s)
  <2>1. CASE t \in Initializers
    BY <1>1, <2>1 DEF Fail, Ends, Results
  <2>2. CASE t \notin Initializers
    <3>1. Ends(t, r) /\ r \in Results(t)
      BY <1>1, <2>2 DEF Fail, Ends, Results
    <3> QED BY <3>1
  <2> QED BY <2>1, <2>2
<1>2. CASE TransportFails(t) \/ Undecoded(t) \/ ContextDone(t)
  BY <1>1, <1>2 DEF TransportFails, Undecoded, ContextDone
<1>3. CASE Decoded(t)
  <2>1. reply[t] \in {"json", "sse"} /\ pc[t] = "body" /\ Close(t)
    BY <1>3 DEF Decoded, Decodable
  <2>2. CASE t \notin Initializers /\ Finish(t, "answered")
    BY <2>1, <2>2 DEF Ends, Results
  <2>3. CASE t \in Initializers /\ Finish(t, "unavailable")
    BY <2>1, <2>3 DEF Ends, Results
  <2> QED BY <1>3, <2>1, <2>2, <2>3 DEF Decoded
<1> QED BY <1>2, <1>3 DEF Caller

LEMMA ExchangeInvInit == Init => ExchangeInv
BY DEF Init, ExchangeInv, Exchanged

LEMMA ExchangeInvStep ==
  ASSUME TypeInv, ExchangeInv, [Next]_vars
  PROVE  ExchangeInv'
<1> USE DEF ExchangeInv, Exchanged, TypeInv, HttpTypeOK, callerVars, exchangeVars, serverVars
<1>1. ASSUME NEW t \in Callers, NEW r \in Results(t), Ends(t, r) PROVE ExchangeInv'
  BY <1>1 DEF Ends, Finish, Close, GoTo
<1>2. ASSUME NEW t \in Callers, Send(t) PROVE ExchangeInv'
  BY <1>2 DEF Send, GoTo
<1>3. ASSUME NEW t \in Callers, ReadHeaders(t) \/ setSession(t) PROVE ExchangeInv'
  <2>1. /\ \E label \in {"adopt", "body"} : pc' = [pc EXCEPT ![t] = label]
        /\ UNCHANGED <<result, at, reply, executed>>
    BY <1>3 DEF ReadHeaders, setSession, GoTo
  <2> QED BY <2>1
<1>4. ASSUME NEW t \in Callers, GoTo(t, "notify"), UNCHANGED result, Close(t)
      PROVE  ExchangeInv'
  BY <1>4 DEF GoTo, Close
<1>5. ASSUME NEW t \in Callers, postNotify(t) PROVE ExchangeInv'
  BY <1>5 DEF postNotify, Finish, GoTo
<1>6. ASSUME NEW t \in Callers, Caller(t) PROVE ExchangeInv'
  BY <1>1, <1>2, <1>3, <1>4, <1>5, <1>6, CallerSteps
<1>7. ASSUME NEW t \in Callers, Expire(t) PROVE ExchangeInv'
  BY <1>7 DEF Expire
<1>8. ASSUME NEW t \in Callers, Serve(t) PROVE ExchangeInv'
  <2>1. /\ at[t] = "travels"
        /\ at' = [at EXCEPT ![t] = "served"]
        /\ executed' = [executed EXCEPT ![t] = IF t \in Initializers THEN @ ELSE {1}]
        /\ UNCHANGED <<pc, result, reply>>
    BY <1>8 DEF Serve
  <2> QED BY <2>1
<1>9. ASSUME NEW t \in Callers, Refuse(t) PROVE ExchangeInv'
  BY <1>9 DEF Refuse
<1>10. ASSUME NEW t \in Callers, Reply(t) PROVE ExchangeInv'
  <2>1. PICK kind \in {"json", "sse", "failure"} :
          /\ kind \in {"json", "sse"} => at[t] = "served"
          /\ reply' = [reply EXCEPT ![t] = kind]
    BY <1>10 DEF Reply
  <2>2. UNCHANGED <<pc, result, at, executed>>
    BY <1>10 DEF Reply
  <2>3. \A u \in Callers : reply'[u] = IF u = t THEN kind ELSE reply[u]
    BY <2>1
  <2>4. \A u \in Callers : reply'[u] \in {"json", "sse"} => at[u] = "served"
    BY <2>1, <2>3
  <2> QED BY <2>2, <2>4
<1>11. ASSUME NEW t \in Callers, SendAnswer(t) \/ EndBody(t) PROVE ExchangeInv'
  <2>1. UNCHANGED <<pc, result, at, reply, executed>>
    BY <1>11 DEF SendAnswer, EndBody
  <2> QED BY <2>1
<1>12. CASE Redeploy
  <2>1. UNCHANGED <<pc, result, at, reply, executed>>
    BY <1>12 DEF Redeploy
  <2> QED BY <2>1
<1>13. CASE UNCHANGED vars
  <2>1. UNCHANGED <<pc, result, at, reply, executed>>
    BY <1>13 DEF vars
  <2> QED BY <2>1
<1> QED BY <1>6, <1>7, <1>8, <1>9, <1>10, <1>11, <1>12, <1>13 DEF Next, Server

\* A step of a caller or of the server is one of the abstract service, or none.
LEMMA ServiceStep ==
  ASSUME TypeInv, ExchangeInv, [Next]_vars
  PROVE  [Service!Next]_<<result, executed>>
<1> USE DEF callerVars, exchangeVars, serverVars
<1>1. ASSUME NEW t \in Callers, NEW r \in Results(t) \ {"none"}, Finish(t, r),
             UNCHANGED executed, pc[t] # "returned", r = "answered" => executed[t] # {}
      PROVE  Service!Next
  <2>1. result[t] = "none"
    BY <1>1 DEF TypeInv
  <2>2. Service!Return(t, r)
    BY <1>1, <2>1 DEF Service!Return, Finish, Results
  <2>3. r \in {"ready", "answered", "unavailable", "gaveUp", "lost"}
    BY DEF Results
  <2> QED BY <2>2, <2>3 DEF Service!Next
<1>2. ASSUME NEW t \in Callers, NEW r \in Results(t), Ends(t, r) PROVE Service!Next
  <2>1. r = "answered" => executed[t] # {}
    <3> HAVE r = "answered"
    <3>1. t \notin Initializers /\ at[t] = "served"
      BY <1>2 DEF Ends, Results, ExchangeInv, Exchanged
    <3> QED BY <3>1 DEF ExchangeInv, Exchanged
  <2> QED BY <1>1, <1>2, <2>1 DEF Ends, Close
<1>3. ASSUME NEW t \in Callers, postNotify(t) PROVE Service!Next
  <2>1. t \in Initializers
    BY <1>3 DEF postNotify, TypeInv
  <2> QED BY <1>1, <1>3, <2>1 DEF postNotify, Results
<1>4. ASSUME NEW t \in Callers, Caller(t) PROVE [Service!Next]_<<result, executed>>
  BY <1>2, <1>3, <1>4, CallerSteps DEF Send, ReadHeaders, setSession, Close
<1>5. ASSUME NEW t \in Callers, Serve(t) PROVE [Service!Next]_<<result, executed>>
  <2>1. CASE t \in Initializers
    <3>1. executed' = executed
      BY <1>5, <2>1 DEF Serve, TypeInv, HttpTypeOK
    <3> QED BY <1>5, <3>1 DEF Serve
  <2>2. CASE t \notin Initializers
    <3>1. /\ executed[t] = {}
          /\ result[t] \in {"none", "gaveUp", "lost"}
      BY <1>5, <2>2 DEF Serve, ExchangeInv, Exchanged, TypeInv, HttpTypeOK, Results
    <3>2. executed' = [executed EXCEPT ![t] = @ \cup {1}]
      BY <1>5, <2>2, <3>1 DEF Serve
    <3>3. Service!Execute(t, 1)
      BY <1>5, <2>2, <3>1, <3>2 DEF Serve, Service!Execute
    <3> QED BY <3>3 DEF Service!Next, Service!Tries
  <2> QED BY <2>1, <2>2
<1>6. CASE \E t \in Callers : Expire(t) \/ Refuse(t) \/ Reply(t) \/ SendAnswer(t) \/ EndBody(t)
  BY <1>6 DEF Expire, Refuse, Reply, SendAnswer, EndBody
<1>7. CASE Redeploy
  BY <1>7 DEF Redeploy
<1>8. CASE UNCHANGED vars
  BY <1>8 DEF vars
<1> QED BY <1>4, <1>5, <1>6, <1>7, <1>8 DEF Next, Server

\* An HTTP backend is an abstract backend: a request executes at most once, an
\* answer means that it has, and only one that was given up or lost may execute
\* later.
THEOREM HttpServiceHolds == Spec => ServiceSpec
<1>1. Init => Service!Init
  BY DEF Init, Service!Init
<1>2. TypeInv /\ ExchangeInv /\ [Next]_vars => TypeInv' /\ ExchangeInv'
  BY TypeInvStep, ExchangeInvStep
<1>3. TypeInv /\ ExchangeInv /\ [Next]_vars => [Service!Next]_<<result, executed>>
  BY ServiceStep
<1> QED
  BY <1>1, <1>2, <1>3, TypeInvInit, ExchangeInvInit, PTL
  DEF Spec, ServiceSpec, Service!Spec, Service!serviceVars

-----------------------------------------------------------------------------
(* The session.                                                              *)

\* While a server that keeps sessions has not been redeployed: it knows every id
\* it gave out; an id is adopted before Initialize is over, and whoever is
\* invoked after that replays it.
Replayed(t) ==
  /\ carried[t] # 0 => session # 0
  /\ at[t] = "served" /\ Awaited(t) /\ carried[t] = 0 => granted[t] # 0
  /\ pc[t] \in {"adopt", "body"} => reply[t] # "none"
  /\ pc[t] = "adopt" => granted[t] # 0
  /\ pc[t] = "body" /\ reply[t] \in {"json", "sse"} => session # 0
  /\ pc[t] = "notify" \/ result[t] = "ready" => session # 0
  /\ t \notin Initializers /\ at[t] = "travels" => carried[t] # 0

SessionInv ==
  /\ RefusedOnlyAfterRedeploy
  /\ redeploys = 0 /\ stateful => live = 1..issued /\ \A t \in Callers : Replayed(t)

LEMMA OneMoreIssued ==
  ASSUME NEW n \in Nat
  PROVE  (1..n) \cup {n + 1} = 1..(n + 1)
OBVIOUS

LEMMA SessionInvInit == Init => SessionInv
BY DEF Init, SessionInv, RefusedOnlyAfterRedeploy, Replayed, Awaited

LEMMA SessionInvStep ==
  ASSUME TypeInv, ExchangeInv, SessionInv, [Next]_vars
  PROVE  SessionInv'
<1> USE DEF SessionInv, RefusedOnlyAfterRedeploy, Replayed, Awaited,
            TypeInv, HttpTypeOK, callerVars, exchangeVars, serverVars
<1>1. ASSUME NEW t \in Callers, NEW r \in Results(t), Ends(t, r) PROVE SessionInv'
  BY <1>1 DEF Ends, Finish, Close, GoTo
<1>2. ASSUME NEW t \in Callers, Send(t) PROVE SessionInv'
  <2>1. t \notin Initializers /\ redeploys = 0 /\ stateful => session # 0
    BY <1>2, CallersAssumption DEF Send, Invoked
  <2> QED BY <1>2, <2>1 DEF Send, GoTo
<1>3. ASSUME NEW t \in Callers, ReadHeaders(t) PROVE SessionInv'
  <2>1. /\ redeploys = 0 /\ stateful
        /\ reply[t] \in {"json", "sse"}
        /\ ~(granted[t] # 0 /\ session = 0)
        => session # 0
    BY <1>3 DEF ReadHeaders, ExchangeInv, Exchanged
  <2> QED BY <1>3, <2>1 DEF ReadHeaders, GoTo
<1>4. ASSUME NEW t \in Callers, setSession(t) PROVE SessionInv'
  BY <1>4 DEF setSession, GoTo
<1>5. ASSUME NEW t \in Callers, pc[t] = "body", reply[t] \in {"json", "sse"},
             GoTo(t, "notify"), UNCHANGED result, Close(t)
      PROVE  SessionInv'
  BY <1>5 DEF GoTo, Close
<1>6. ASSUME NEW t \in Callers, postNotify(t) PROVE SessionInv'
  BY <1>6 DEF postNotify, Finish, GoTo
<1>7. ASSUME NEW t \in Callers, Caller(t) PROVE SessionInv'
  BY <1>1, <1>2, <1>3, <1>4, <1>5, <1>6, <1>7, CallerSteps
<1>8. ASSUME NEW t \in Callers, Expire(t) PROVE SessionInv'
  BY <1>8 DEF Expire
<1>9. ASSUME NEW t \in Callers, Serve(t) PROVE SessionInv'
  <2>1. UNCHANGED <<session, pc, carried, result, reply, stateful, redeploys>>
    BY <1>9 DEF Serve
  <2>2. at' = [at EXCEPT ![t] = "served"]
    BY <1>9 DEF Serve
  <2>3. CASE Starts(t)
    <3>1. /\ issued' = issued + 1
          /\ live' = live \cup {issued + 1}
          /\ granted' = [granted EXCEPT ![t] = IF Awaited(t) THEN issued + 1 ELSE 0]
      BY <1>9, <2>3 DEF Serve
    <3>2. issued \in Nat
      OBVIOUS
    <3>3. live = 1..issued => live' = 1..issued'
      BY ONLY <3>1, <3>2, OneMoreIssued
    <3>4. \A u \in Callers : Awaited(u) /\ (granted[u] # 0 \/ u = t) => granted'[u] # 0
      <4>1. Awaited(t) => granted'[t] = issued + 1 /\ issued + 1 # 0
        BY <3>1
      <4>2. \A u \in Callers \ {t} : granted'[u] = granted[u]
        BY <3>1
      <4> QED BY <4>1, <4>2
    <3> QED BY <2>1, <2>2, <3>3, <3>4
  <2>4. CASE ~Starts(t)
    <3>1. UNCHANGED <<issued, live, granted>>
      BY <1>9, <2>4 DEF Serve
    <3>2. stateful => carried[t] # 0
      BY <2>4 DEF Starts
    <3> QED BY <2>1, <2>2, <3>1, <3>2
  <2> QED BY <2>3, <2>4
<1>10. ASSUME NEW t \in Callers, Refuse(t) PROVE SessionInv'
  <2>1. ~(redeploys = 0 /\ stateful)
    BY <1>10 DEF Refuse, Known, Starts
  <2>2. stateful
    BY <1>10 DEF Refuse, Known
  <2> QED BY <1>10, <2>1, <2>2 DEF Refuse
<1>11. ASSUME NEW t \in Callers, Reply(t) \/ SendAnswer(t) \/ EndBody(t) PROVE SessionInv'
  <2>1. CASE Reply(t)
    <3>1. /\ Awaited(t) /\ reply[t] = "none"
          /\ \E kind \in {"json", "sse", "failure"} : reply' = [reply EXCEPT ![t] = kind]
          /\ UNCHANGED <<session, pc, carried, result, at, granted, stateful, live,
                         issued, redeploys>>
      BY <2>1 DEF Reply
    <3>2. redeploys = 0 /\ stateful => pc[t] = "headers"
      BY <3>1
    <3> QED BY <3>1, <3>2
  <2>2. CASE SendAnswer(t) \/ EndBody(t)
    <3>1. UNCHANGED <<session, pc, carried, result, at, reply, granted, stateful, live,
                      issued, redeploys>>
      BY <2>2 DEF SendAnswer, EndBody
    <3> QED BY <3>1
  <2> QED BY <1>11, <2>1, <2>2
<1>12. CASE Redeploy
  BY <1>12 DEF Redeploy
<1>13. CASE UNCHANGED vars
  BY <1>13 DEF vars
<1> QED BY <1>7, <1>8, <1>9, <1>10, <1>11, <1>12, <1>13 DEF Next, Server

\* A server that has not been redeployed never refuses a request for its session,
\* however requests interleave with the adoption of the id.
THEOREM RefusedOnlyAfterRedeployHolds == Spec => []RefusedOnlyAfterRedeploy
<1>1. TypeInv /\ ExchangeInv /\ SessionInv /\ [Next]_vars
      => TypeInv' /\ ExchangeInv' /\ SessionInv'
  BY TypeInvStep, ExchangeInvStep, SessionInvStep
<1>2. SessionInv => RefusedOnlyAfterRedeploy
  BY DEF SessionInv
<1> QED
  BY <1>1, <1>2, TypeInvInit, ExchangeInvInit, SessionInvInit, PTL DEF Spec

=============================================================================
