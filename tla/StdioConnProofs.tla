---------------------------- MODULE StdioConnProofs ----------------------------
(***************************************************************************)
(* Proofs about the connections of a stdio backend.                        *)
(***************************************************************************)
EXTENDS StdioConn, SequenceTheorems, TLAPS

\* Every step keeps the types.
LEMMA ConnTypeStep ==
  ASSUME ConnTypeOK, [ConnNext]_connVars
  PROVE  ConnTypeOK'
<1> USE DEF ConnTypeOK, Outcomes, callVars, tableVars, childVars
<1>1. ASSUME NEW c \in Conns, SpawnConn(c) PROVE ConnTypeOK'
  BY <1>1 DEF SpawnConn
<1>2. ASSUME NEW c \in Conns, shutdown(c) PROVE ConnTypeOK'
  BY <1>2 DEF shutdown, ProcessEnds
<1>3. ASSUME NEW c \in Conns, WriteInitialized(c) PROVE ConnTypeOK'
  BY <1>3 DEF WriteInitialized
<1>4. ASSUME NEW k \in Calls, NEW c \in Conns, Register(k, c) PROVE ConnTypeOK'
  BY <1>4 DEF Register
<1>5. ASSUME NEW k \in Calls, WriteRequest(k) PROVE ConnTypeOK'
  <2>1. ASSUME NEW c \in Conns
        PROVE  stdin'[c] \in Seq(Calls \cup {Initialized})
    BY <1>5, <2>1 DEF WriteRequest
  <2>2. stdin' \in [Conns -> Seq(Calls \cup {Initialized})]
    BY <1>5, <2>1 DEF WriteRequest
  <2> QED BY <1>5, <2>2 DEF WriteRequest
<1>6. ASSUME NEW k \in Calls, NEW o \in Outcomes, GiveUp(k, o) PROVE ConnTypeOK'
  BY <1>6 DEF GiveUp, Return, Keyed
<1>7. ASSUME NEW k \in Calls, SelectResponse(k) PROVE ConnTypeOK'
  BY <1>7 DEF SelectResponse, Return
<1>8. ASSUME NEW K \in SUBSET Calls, Expire(K) PROVE ConnTypeOK'
  BY <1>8 DEF Expire
<1>9. ASSUME NEW c \in Conns, readLoop(c) PROVE ConnTypeOK'
  <2>1. CASE ReadAnswer(c)
    <3> DEFINE mine == Keyed(c, Head(stdout[c]))
    <3>1. /\ stdout' = [stdout EXCEPT ![c] = Tail(@)]
          /\ stdout[c] \in Seq(Calls \cup {Noise, Oversized}) /\ stdout[c] # <<>>
      BY <2>1 DEF ReadAnswer, Scanned
    <3>2. Tail(stdout[c]) \in Seq(Calls \cup {Noise, Oversized})
      BY <3>1
    <3>3. stdout' \in [Conns -> Seq(Calls \cup {Noise, Oversized})]
      BY <3>1, <3>2
    <3>4. mine \in SUBSET Calls
      BY DEF Keyed
    <3>5. hand' \in [Conns -> SUBSET (Calls \X Calls)]
      BY <2>1, <3>4 DEF ReadAnswer
    <3>6. pending' \in [Conns -> SUBSET Calls]
      BY <2>1 DEF ReadAnswer
    <3> QED BY <2>1, <3>3, <3>5, <3>6 DEF ReadAnswer, Scanned
  <2>2. CASE ReadDropped(c)
    BY <2>2 DEF ReadDropped, Scanned
  <2>3. CASE ReadOversized(c)
    BY <2>3 DEF ReadOversized, Scanned
  <2>4. CASE Deliver(c)
    BY <2>4 DEF Deliver
  <2>5. CASE markDead(c)
    BY <2>5 DEF markDead
  <2> QED BY <1>9, <2>1, <2>2, <2>3, <2>4, <2>5 DEF readLoop
<1>10. ASSUME NEW c \in Conns, child(c) PROVE ConnTypeOK'
  <2>1. CASE ChildTakes(c)
    BY <2>1 DEF ChildTakes
  <2>2. ASSUME NEW k \in Calls, ChildAnswers(c, k) PROVE ConnTypeOK'
    <3>1. PICK line \in {k, Oversized} : stdout' = [stdout EXCEPT ![c] = Append(@, line)]
      BY <2>2 DEF ChildAnswers, ChildWrites
    <3>2. stdout' \in [Conns -> Seq(Calls \cup {Noise, Oversized})]
      <4>1. line \in Calls \cup {Noise, Oversized}
        OBVIOUS
      <4>2. Append(stdout[c], line) \in Seq(Calls \cup {Noise, Oversized})
        BY <4>1
      <4> QED BY <3>1, <4>2
    <3>3. chatter' \in Nat /\ working' \in [Conns -> SUBSET Calls]
      BY <2>2 DEF ChildAnswers, Chatter
    <3>4. UNCHANGED <<callVars, tableVars, proc, stdin, taken>>
      BY <2>2 DEF ChildAnswers, ChildWrites
    <3> QED BY <3>2, <3>3, <3>4
  <2>3. CASE ChildChatters(c)
    BY <2>3 DEF ChildChatters, ChildWrites, Chatter
  <2>4. CASE ChildClosesStdin(c)
    BY <2>4 DEF ChildClosesStdin
  <2>5. CASE ChildDies(c)
    BY <2>5 DEF ChildDies, ProcessEnds
  <2> QED BY <1>10, <2>1, <2>2, <2>3, <2>4, <2>5 DEF child
<1>11. CASE UNCHANGED connVars
  BY <1>11 DEF connVars
<1> QED
  BY <1>1, <1>2, <1>3, <1>4, <1>5, <1>6, <1>7, <1>8, <1>9, <1>10, <1>11
  DEF ConnNext, call, WriteFails, SelectCtx, SelectClosed

\* The variables stay in their types whatever the child and the callers do.
THEOREM ConnTypeCorrect == ConnSpec => []ConnTypeOK
<1>1. ConnInit => ConnTypeOK
  BY DEF ConnInit, ConnTypeOK, Outcomes
<1>2. ConnTypeOK /\ [ConnNext]_connVars => ConnTypeOK'
  BY ConnTypeStep
<1> QED BY <1>1, <1>2, PTL DEF ConnSpec

-----------------------------------------------------------------------------
(* The inductive invariant. *)

\* A call is on a spawned connection from the moment it has an id there; before
\* that it has left no trace.
Placed ==
  \A k \in Calls :
    /\ step[k] = "new" => on[k] = 0 /\ chan[k] = {}
    /\ step[k] # "new" => /\ on[k] \in Conns
                          /\ proc[on[k]] # "none"
                          /\ id[k] <= nextID[on[k]]

\* No two calls of a connection share an id.
UniqueIds ==
  \A j, k \in Calls :
    step[j] # "new" /\ step[k] # "new" /\ on[j] = on[k] /\ id[j] = id[k] => j = k

\* What the child has got and what it sends belongs to calls of its connection.
TakenInPlace ==
  \A c \in Conns, k \in Calls : k \in taken[c] \/ k \in working[c] => on[k] = c

StdinInPlace ==
  \A c \in Conns : \A i \in 1..Len(stdin[c]) :
    stdin[c][i] \in Calls => on[stdin[c][i]] = c

StdoutInPlace ==
  \A c \in Conns : \A i \in 1..Len(stdout[c]) :
    stdout[c][i] \in Calls => on[stdout[c][i]] = c

\* The reader has at most one answer in hand.
OneInHand == \A c \in Conns : \A p, q \in hand[c] : p = q

ConnInv ==
  /\ Placed
  /\ UniqueIds
  /\ TakenInPlace
  /\ StdinInPlace
  /\ StdoutInPlace
  /\ OneInHand
  /\ OwnAnswer
  /\ SendNeverBlocks
  /\ TableIsExact
  /\ DeadMeansGone

\* Every step keeps the invariant.
LEMMA ConnStep ==
  ASSUME ConnTypeOK, ConnInv, [ConnNext]_connVars
  PROVE  ConnInv'
<1> USE DEF callVars, tableVars, childVars
<1>1. ASSUME NEW c \in Conns, SpawnConn(c) PROVE ConnInv'
  <2>1. Placed'
    BY <1>1 DEF ConnTypeOK, ConnInv, Placed, SpawnConn
  <2>2. DeadMeansGone'
    BY <1>1 DEF ConnTypeOK, ConnInv, DeadMeansGone, Gone, SpawnConn
  <2>3. TableIsExact'
    BY <1>1 DEF ConnInv, TableIsExact, Awaits, SpawnConn
  <2>4. UniqueIds' /\ TakenInPlace' /\ StdinInPlace'
    BY <1>1 DEF ConnInv, UniqueIds, TakenInPlace, StdinInPlace, SpawnConn
  <2>5. StdoutInPlace' /\ OneInHand' /\ OwnAnswer'
    BY <1>1 DEF ConnInv, StdoutInPlace, OneInHand, OwnAnswer, SpawnConn
  <2>6. SendNeverBlocks'
    BY <1>1 DEF ConnInv, SendNeverBlocks, SpawnConn
  <2> QED BY <2>1, <2>2, <2>3, <2>4, <2>5, <2>6 DEF ConnInv
<1>2. ASSUME NEW c \in Conns, shutdown(c) PROVE ConnInv'
  <2>1. Placed'
    BY <1>2 DEF ConnTypeOK, ConnInv, Placed, shutdown, ProcessEnds
  <2>2. TakenInPlace'
    BY <1>2 DEF ConnTypeOK, ConnInv, TakenInPlace, shutdown, ProcessEnds
  <2>3. StdinInPlace'
    BY <1>2 DEF ConnTypeOK, ConnInv, StdinInPlace, shutdown, ProcessEnds
  <2>4. DeadMeansGone'
    BY <1>2 DEF ConnTypeOK, ConnInv, DeadMeansGone, Gone, shutdown, ProcessEnds
  <2>5. TableIsExact'
    BY <1>2 DEF ConnInv, TableIsExact, Awaits, shutdown, ProcessEnds
  <2>6. UniqueIds' /\ StdoutInPlace' /\ OneInHand'
    BY <1>2 DEF ConnInv, UniqueIds, StdoutInPlace, OneInHand, shutdown, ProcessEnds
  <2>7. OwnAnswer' /\ SendNeverBlocks'
    BY <1>2 DEF ConnInv, OwnAnswer, SendNeverBlocks, shutdown, ProcessEnds
  <2> QED BY <2>1, <2>2, <2>3, <2>4, <2>5, <2>6, <2>7 DEF ConnInv
<1>3. ASSUME NEW c \in Conns, WriteInitialized(c) PROVE ConnInv'
  <2>1. StdinInPlace'
    <3> SUFFICES ASSUME NEW d \in Conns, NEW i \in 1..Len(stdin'[d]), stdin'[d][i] \in Calls
                 PROVE  on[stdin'[d][i]] = d
      BY <1>3 DEF StdinInPlace, WriteInitialized
    <3>1. stdin[d] \in Seq(Calls \cup {Initialized}) /\ Initialized \notin Calls
      BY LinesAssumption DEF ConnTypeOK
    <3>2. CASE d = c
      <4>1. stdin'[d] = Append(stdin[d], Initialized)
        BY <1>3, <3>2 DEF WriteInitialized, ConnTypeOK
      <4>2. i # Len(stdin[d]) + 1
        BY <3>1, <4>1
      <4>3. i \in 1..Len(stdin[d]) /\ stdin'[d][i] = stdin[d][i]
        BY <3>1, <4>1, <4>2
      <4> QED BY <4>3 DEF ConnInv, StdinInPlace
    <3>3. CASE d # c
      BY <1>3, <3>3 DEF WriteInitialized, ConnTypeOK, ConnInv, StdinInPlace
    <3> QED BY <3>2, <3>3
  <2>2. TableIsExact'
    BY <1>3 DEF ConnInv, TableIsExact, Awaits, WriteInitialized
  <2>3. Placed' /\ UniqueIds' /\ TakenInPlace'
    BY <1>3 DEF ConnInv, Placed, UniqueIds, TakenInPlace, WriteInitialized
  <2>4. StdoutInPlace' /\ OneInHand' /\ OwnAnswer'
    BY <1>3 DEF ConnInv, StdoutInPlace, OneInHand, OwnAnswer, WriteInitialized
  <2>5. SendNeverBlocks' /\ DeadMeansGone'
    BY <1>3 DEF ConnInv, SendNeverBlocks, DeadMeansGone, Gone, WriteInitialized
  <2> QED BY <2>1, <2>2, <2>3, <2>4, <2>5 DEF ConnInv
<1>4. ASSUME NEW k \in Calls, NEW c \in Conns, Register(k, c) PROVE ConnInv'
  <2>1. 0 \notin Conns
    BY DEF Conns
  <2>2. step[k] = "new" /\ on[k] = 0 /\ chan[k] = {} /\ proc[c] # "none"
    BY <1>4 DEF Register, ConnInv, Placed
  <2>3a. \A j \in Calls : step'[j] = IF j = k THEN "write" ELSE step[j]
    BY <1>4 DEF Register, ConnTypeOK
  <2>3b. \A j \in Calls : on'[j] = IF j = k THEN c ELSE on[j]
    BY <1>4 DEF Register, ConnTypeOK
  <2>3c. \A j \in Calls : id'[j] = IF j = k THEN nextID[c] + 1 ELSE id[j]
    BY <1>4 DEF Register, ConnTypeOK
  <2>4. \A d \in Conns : nextID'[d] = IF d = c THEN nextID[c] + 1 ELSE nextID[d]
    BY <1>4 DEF Register, ConnTypeOK
  <2>5. \A d \in Conns : nextID[d] \in Nat /\ \A j \in Calls : id[j] \in Nat
    BY DEF ConnTypeOK
  <2>6. UNCHANGED <<chan, hand, closed, proc, stdin, stdout, taken, working>>
    BY <1>4 DEF Register
  <2>7. {j \in pending[c] : id[j] # nextID[c] + 1} = pending[c]
    <3>1. ASSUME NEW j \in pending[c] PROVE id[j] # nextID[c] + 1
      <4>0. j \in Calls
        BY DEF ConnTypeOK
      <4>1. on[j] = c /\ step[j] # "new"
        BY <4>0 DEF ConnInv, TableIsExact, Awaits
      <4>2. id[j] <= nextID[c]
        BY <4>0, <4>1 DEF ConnInv, Placed
      <4> QED BY <4>0, <4>2, <2>5
    <3> QED BY <3>1
  <2>8. \A d \in Conns : pending'[d] = IF d = c THEN pending[d] \cup {k} ELSE pending[d]
    BY <1>4, <2>7 DEF Register, ConnTypeOK
  <2>9. Placed'
    BY <2>1, <2>2, <2>3a, <2>3b, <2>3c, <2>4, <2>5, <2>6 DEF ConnInv, Placed
  <2>10. UniqueIds'
    BY <2>1, <2>2, <2>3a, <2>3b, <2>3c, <2>5 DEF ConnInv, UniqueIds, Placed
  <2>11. TakenInPlace'
    BY <2>1, <2>2, <2>3a, <2>3b, <2>3c, <2>6 DEF ConnInv, TakenInPlace
  <2>12. StdinInPlace'
    BY <2>1, <2>2, <2>3a, <2>3b, <2>3c, <2>6 DEF ConnInv, StdinInPlace
  <2>13. StdoutInPlace'
    BY <2>1, <2>2, <2>3a, <2>3b, <2>3c, <2>6 DEF ConnInv, StdoutInPlace
  <2>14. \A d \in Conns : \A p \in hand[d] : p[1] \in Calls /\ p[1] # k
    BY <2>1, <2>2 DEF ConnTypeOK, ConnInv, OwnAnswer
  <2>15. OwnAnswer'
    BY <2>3a, <2>3b, <2>3c, <2>6, <2>14 DEF ConnInv, OwnAnswer
  <2>16. TableIsExact'
    <3> SUFFICES ASSUME NEW j \in Calls, NEW d \in Conns
                 PROVE  (j \in pending[d] <=> Awaits(j, d))'
      BY DEF TableIsExact, Awaits
    <3>1. j \in pending[d] <=> Awaits(j, d)
      BY DEF ConnInv, TableIsExact, Awaits
    <3>2. CASE j # k
      <4>1. Awaits(j, d)' <=> Awaits(j, d)
        BY <3>2, <2>3a, <2>3b, <2>6 DEF Awaits
      <4> QED BY <3>1, <3>2, <4>1, <2>8
    <3>3. CASE j = k
      <4>1. ~Awaits(j, d)
        BY <3>3, <2>2 DEF Awaits
      <4>2. Awaits(j, d)' <=> d = c
        BY <3>3, <2>2, <2>3a, <2>3b, <2>6, <2>14 DEF Awaits
      <4> QED BY <3>1, <3>3, <4>1, <4>2, <2>8
    <3> QED BY <3>2, <3>3
  <2>17. OneInHand' /\ SendNeverBlocks' /\ DeadMeansGone'
    BY <2>6 DEF ConnInv, OneInHand, SendNeverBlocks, DeadMeansGone, Gone
  <2> QED
    BY <2>9, <2>10, <2>11, <2>12, <2>13, <2>15, <2>16, <2>17 DEF ConnInv
<1>5. ASSUME NEW k \in Calls, WriteRequest(k) PROVE ConnInv'
  <2>1. /\ \A j \in Calls : step'[j] = IF j = k THEN "wait" ELSE step[j]
       /\ step[k] = "write"
       /\ UNCHANGED <<on, id, chan, pending, hand, nextID, proc>>
    BY <1>5 DEF ConnTypeOK, WriteRequest
  <2>2. Placed'
    BY <2>1 DEF ConnTypeOK, ConnInv, Placed
  <2>3. UniqueIds'
    BY <2>1 DEF ConnInv, UniqueIds
  <2>4. StdinInPlace'
    BY <1>5 DEF ConnTypeOK, ConnInv, StdinInPlace, Placed, WriteRequest
  <2>5. TableIsExact'
    BY <2>1 DEF ConnInv, TableIsExact, Awaits
  <2>6. TakenInPlace' /\ StdoutInPlace' /\ OneInHand'
    BY <1>5 DEF ConnInv, TakenInPlace, StdoutInPlace, OneInHand, WriteRequest
  <2>7. OwnAnswer' /\ SendNeverBlocks' /\ DeadMeansGone'
    BY <1>5 DEF ConnInv, OwnAnswer, SendNeverBlocks, DeadMeansGone, Gone, WriteRequest
  <2> QED BY <2>2, <2>3, <2>4, <2>5, <2>6, <2>7 DEF ConnInv
<1>6. ASSUME NEW k \in Calls, NEW o \in Outcomes, step[k] # "new", GiveUp(k, o)
      PROVE  ConnInv'
  <2>1. on[k] \in Conns
    BY <1>6 DEF ConnInv, Placed
  <2>2. ASSUME NEW j \in Keyed(on[k], k) PROVE j = k
    <3>1. j \in pending[on[k]] /\ id[j] = id[k] /\ j \in Calls
      BY <2>1 DEF Keyed, ConnTypeOK
    <3>2. on[j] = on[k] /\ step[j] # "new"
      BY <2>1, <3>1 DEF ConnInv, TableIsExact, Awaits
    <3> QED BY <1>6, <3>1, <3>2 DEF ConnInv, UniqueIds
  <2>3. \A c \in Conns : pending'[c] = IF c = on[k] THEN pending[c] \ Keyed(c, k)
                                        ELSE pending[c]
    BY <1>6 DEF GiveUp, ConnTypeOK
  <2>4. \A c \in Conns : pending'[c] = pending[c] \ {k}
    <3>1. \A c \in Conns : k \in pending[c] => c = on[k] /\ k \in Keyed(c, k)
      BY DEF ConnInv, TableIsExact, Awaits, Keyed
    <3> QED BY <2>1, <2>2, <2>3, <3>1
  <2>5. /\ \A j \in Calls : step'[j] = IF j = k THEN "returned" ELSE step[j]
        /\ UNCHANGED <<on, id, chan, hand, closed, nextID, proc, stdin, stdout,
                       taken, working>>
    BY <1>6 DEF GiveUp, Return, ConnTypeOK
  <2>6. Placed'
    BY <1>6, <2>5 DEF ConnInv, Placed
  <2>7. UniqueIds'
    BY <1>6, <2>5 DEF ConnInv, UniqueIds
  <2>8. TableIsExact'
    BY <2>4, <2>5 DEF ConnInv, TableIsExact, Awaits
  <2>9. TakenInPlace' /\ StdinInPlace' /\ StdoutInPlace'
    BY <2>5 DEF ConnInv, TakenInPlace, StdinInPlace, StdoutInPlace
  <2>10. OneInHand' /\ OwnAnswer' /\ SendNeverBlocks' /\ DeadMeansGone'
    BY <2>5 DEF ConnInv, OneInHand, OwnAnswer, SendNeverBlocks, DeadMeansGone, Gone
  <2> QED BY <2>6, <2>7, <2>8, <2>9, <2>10 DEF ConnInv
<1>7. ASSUME NEW k \in Calls, SelectResponse(k) PROVE ConnInv'
  <2>1. /\ \A j \in Calls : step'[j] = IF j = k THEN "returned" ELSE step[j]
       /\ step[k] = "wait" /\ chan[k] # {}
       /\ UNCHANGED <<on, id, chan, pending, hand, nextID, proc>>
    BY <1>7 DEF ConnTypeOK, SelectResponse, Return
  <2>2. Placed'
    BY <2>1 DEF ConnTypeOK, ConnInv, Placed
  <2>3. UniqueIds'
    BY <2>1 DEF ConnInv, UniqueIds
  <2>4. TableIsExact'
    BY <2>1 DEF ConnInv, TableIsExact, Awaits
  <2>5. TakenInPlace' /\ StdinInPlace' /\ StdoutInPlace'
    BY <1>7 DEF ConnInv, TakenInPlace, StdinInPlace, StdoutInPlace, SelectResponse, Return
  <2>6. OneInHand' /\ OwnAnswer' /\ SendNeverBlocks'
    BY <1>7 DEF ConnInv, OneInHand, OwnAnswer, SendNeverBlocks, SelectResponse, Return
  <2>7. DeadMeansGone'
    BY <1>7 DEF ConnInv, DeadMeansGone, Gone, SelectResponse, Return
  <2> QED BY <2>2, <2>3, <2>4, <2>5, <2>6, <2>7 DEF ConnInv
<1>8. ASSUME NEW K \in SUBSET Calls, Expire(K) PROVE ConnInv'
  <2>1. TableIsExact'
    BY <1>8 DEF ConnInv, TableIsExact, Awaits, Expire
  <2>2. Placed' /\ UniqueIds' /\ TakenInPlace'
    BY <1>8 DEF ConnInv, Placed, UniqueIds, TakenInPlace, Expire
  <2>3. StdinInPlace' /\ StdoutInPlace' /\ OneInHand'
    BY <1>8 DEF ConnInv, StdinInPlace, StdoutInPlace, OneInHand, Expire
  <2>4. OwnAnswer' /\ SendNeverBlocks' /\ DeadMeansGone'
    BY <1>8 DEF ConnInv, OwnAnswer, SendNeverBlocks, DeadMeansGone, Gone, Expire
  <2> QED BY <2>1, <2>2, <2>3, <2>4 DEF ConnInv
<1>9. ASSUME NEW c \in Conns, ReadAnswer(c) PROVE ConnInv'
  <2> DEFINE h == Head(stdout[c])
  <2>1. /\ h \in Calls /\ on[h] = c /\ stdout[c] # <<>>
        /\ hand[c] = {} /\ pending[c] \subseteq Calls
    BY <1>9 DEF ReadAnswer, Scanned, ConnInv, StdoutInPlace, ConnTypeOK
  <2>2. ASSUME NEW j \in Keyed(c, h) PROVE j = h
    BY <2>1 DEF Keyed, ConnInv, TableIsExact, Awaits, UniqueIds, Placed, Conns
  <2>3. h \in pending[c] /\ Keyed(c, h) = {h}
    BY <1>9, <2>2 DEF ReadAnswer, Keyed
  <2>4. /\ \A d \in Conns : hand'[d] = IF d = c THEN {<<h, h>>} ELSE hand[d]
        /\ \A d \in Conns : pending'[d] = IF d = c THEN pending[d] \ {h} ELSE pending[d]
    BY <1>9, <2>3 DEF ReadAnswer, ConnTypeOK
  <2>5. UNCHANGED <<step, on, id, chan, closed, nextID, proc, stdin, taken, working>>
    BY <1>9 DEF ReadAnswer, Scanned
  <2>6. StdoutInPlace'
    BY <1>9 DEF ReadAnswer, Scanned, ConnInv, StdoutInPlace, ConnTypeOK
  <2>7. OneInHand'
    BY <2>4 DEF ConnInv, OneInHand
  <2>8. OwnAnswer'
    BY <2>1, <2>4, <2>5 DEF ConnInv, OwnAnswer
  <2>9. SendNeverBlocks'
    BY <2>1, <2>3, <2>4, <2>5 DEF ConnInv, SendNeverBlocks, TableIsExact, Awaits
  <2>10. TableIsExact'
    <3> SUFFICES ASSUME NEW j \in Calls, NEW d \in Conns
                 PROVE  (j \in pending[d] <=> Awaits(j, d))'
      BY DEF TableIsExact, Awaits
    <3>1. j \in pending[d] <=> Awaits(j, d)
      BY DEF ConnInv, TableIsExact, Awaits
    <3>2. CASE d # c
      <4>1. Awaits(j, d)' <=> Awaits(j, d)
        BY <3>2, <2>4, <2>5 DEF Awaits
      <4> QED BY <3>1, <3>2, <4>1, <2>4
    <3>3. CASE d = c
      <4>1. hand'[c] = {<<h, h>>} /\ hand[c] = {}
        BY <2>1, <2>4
      <4>2. (\A p \in hand[c] : p[1] # j)' <=> j # h
        BY <4>1
      <4>3. \A p \in hand[c] : p[1] # j
        BY <4>1
      <4>4. Awaits(j, d)' <=> Awaits(j, d) /\ j # h
        BY <3>3, <4>2, <4>3, <2>5 DEF Awaits
      <4> QED BY <3>1, <3>3, <4>4, <2>4
    <3> QED BY <3>2, <3>3
  <2>11. Placed' /\ UniqueIds' /\ TakenInPlace'
    BY <2>5 DEF ConnInv, Placed, UniqueIds, TakenInPlace
  <2>12. StdinInPlace' /\ DeadMeansGone'
    BY <2>5 DEF ConnInv, StdinInPlace, DeadMeansGone, Gone
  <2> QED BY <2>6, <2>7, <2>8, <2>9, <2>10, <2>11, <2>12 DEF ConnInv
<1>10. ASSUME NEW c \in Conns, ReadDropped(c) PROVE ConnInv'
  <2>1. StdoutInPlace'
    BY <1>10 DEF ConnTypeOK, ConnInv, StdoutInPlace, ReadDropped, Scanned
  <2>2. TableIsExact'
    BY <1>10 DEF ConnInv, TableIsExact, Awaits, ReadDropped, Scanned
  <2>3. Placed' /\ UniqueIds' /\ TakenInPlace'
    BY <1>10 DEF ConnInv, Placed, UniqueIds, TakenInPlace, ReadDropped, Scanned
  <2>4. StdinInPlace' /\ OneInHand' /\ OwnAnswer'
    BY <1>10 DEF ConnInv, StdinInPlace, OneInHand, OwnAnswer, ReadDropped, Scanned
  <2>5. SendNeverBlocks' /\ DeadMeansGone'
    BY <1>10 DEF ConnInv, SendNeverBlocks, DeadMeansGone, Gone, ReadDropped, Scanned
  <2> QED BY <2>1, <2>2, <2>3, <2>4, <2>5 DEF ConnInv
<1>11. ASSUME NEW c \in Conns, ReadOversized(c) PROVE ConnInv'
  <2>1. StdoutInPlace'
    BY <1>11 DEF ConnTypeOK, ConnInv, StdoutInPlace, ReadOversized, Scanned
  <2>2. TableIsExact'
    BY <1>11 DEF ConnInv, TableIsExact, Awaits, ReadOversized, Scanned
  <2>3. Placed' /\ UniqueIds' /\ TakenInPlace'
    BY <1>11 DEF ConnInv, Placed, UniqueIds, TakenInPlace, ReadOversized, Scanned
  <2>4. StdinInPlace' /\ OneInHand' /\ OwnAnswer'
    BY <1>11 DEF ConnInv, StdinInPlace, OneInHand, OwnAnswer, ReadOversized, Scanned
  <2>5. SendNeverBlocks' /\ DeadMeansGone'
    BY <1>11 DEF ConnInv, SendNeverBlocks, DeadMeansGone, Gone, ReadOversized, Scanned
  <2> QED BY <2>1, <2>2, <2>3, <2>4, <2>5 DEF ConnInv
<1>12. ASSUME NEW c \in Conns, Deliver(c) PROVE ConnInv'
  <2>1. PICK p \in hand[c] : chan[p[1]] = {} /\ chan' = [chan EXCEPT ![p[1]] = {p[2]}]
    BY <1>12 DEF Deliver
  <2>2. p[1] \in Calls /\ p[2] = p[1] /\ on[p[1]] = c
    BY <2>1 DEF ConnInv, OwnAnswer, ConnTypeOK
  <2> DEFINE k == p[1]
  <2>3. /\ \A j \in Calls : chan'[j] = IF j = k THEN {k} ELSE chan[j]
        /\ \A d \in Conns : hand'[d] = IF d = c THEN {} ELSE hand[d]
    BY <1>12, <2>1, <2>2 DEF Deliver, ConnTypeOK
  <2>4. UNCHANGED <<step, on, id, closed, nextID, pending, proc, stdin, stdout, taken, working>>
    BY <1>12 DEF Deliver
  <2>5. \A q \in hand[c] : q[1] = k
    BY <2>1 DEF ConnInv, OneInHand
  <2>6. \A d \in Conns : \A q \in hand[d] : q[1] \in Calls
    BY DEF ConnTypeOK
  <2>7. Placed'
    BY <2>2, <2>3, <2>4 DEF ConnInv, Placed, Conns
  <2>8. OneInHand'
    BY <2>3 DEF ConnInv, OneInHand
  <2>9. OwnAnswer'
    BY <2>2, <2>3, <2>4 DEF ConnInv, OwnAnswer
  <2>10. SendNeverBlocks'
    BY <2>2, <2>3, <2>6 DEF ConnInv, SendNeverBlocks, OwnAnswer
  <2>11. TableIsExact'
    BY <2>1, <2>2, <2>3, <2>4, <2>5 DEF ConnInv, TableIsExact, Awaits
  <2>12. UniqueIds' /\ TakenInPlace' /\ StdinInPlace'
    BY <2>4 DEF ConnInv, UniqueIds, TakenInPlace, StdinInPlace
  <2>13. StdoutInPlace' /\ DeadMeansGone'
    BY <2>4 DEF ConnInv, StdoutInPlace, DeadMeansGone, Gone
  <2> QED BY <2>7, <2>8, <2>9, <2>10, <2>11, <2>12, <2>13 DEF ConnInv
<1>13. ASSUME NEW c \in Conns, markDead(c) PROVE ConnInv'
  <2>1. DeadMeansGone'
    BY <1>13 DEF ConnTypeOK, ConnInv, DeadMeansGone, Gone, markDead
  <2>2. TableIsExact'
    BY <1>13 DEF ConnInv, TableIsExact, Awaits, markDead
  <2>3. Placed' /\ UniqueIds' /\ TakenInPlace'
    BY <1>13 DEF ConnInv, Placed, UniqueIds, TakenInPlace, markDead
  <2>4. StdinInPlace' /\ StdoutInPlace' /\ OneInHand'
    BY <1>13 DEF ConnInv, StdinInPlace, StdoutInPlace, OneInHand, markDead
  <2>5. OwnAnswer' /\ SendNeverBlocks'
    BY <1>13 DEF ConnInv, OwnAnswer, SendNeverBlocks, markDead
  <2> QED BY <2>1, <2>2, <2>3, <2>4, <2>5 DEF ConnInv
<1>14. ASSUME NEW c \in Conns, ChildTakes(c) PROVE ConnInv'
  <2>1. TakenInPlace'
    BY <1>14 DEF ConnTypeOK, ConnInv, TakenInPlace, StdinInPlace, ChildTakes
  <2>2. StdinInPlace'
    BY <1>14 DEF ConnTypeOK, ConnInv, StdinInPlace, ChildTakes
  <2>3. TableIsExact'
    BY <1>14 DEF ConnInv, TableIsExact, Awaits, ChildTakes
  <2>4. Placed' /\ UniqueIds' /\ StdoutInPlace'
    BY <1>14 DEF ConnInv, Placed, UniqueIds, StdoutInPlace, ChildTakes
  <2>5. OneInHand' /\ OwnAnswer' /\ SendNeverBlocks'
    BY <1>14 DEF ConnInv, OneInHand, OwnAnswer, SendNeverBlocks, ChildTakes
  <2>6. DeadMeansGone'
    BY <1>14 DEF ConnInv, DeadMeansGone, Gone, ChildTakes
  <2> QED BY <2>1, <2>2, <2>3, <2>4, <2>5, <2>6 DEF ConnInv
<1>15. ASSUME NEW c \in Conns, NEW k \in Calls, ChildAnswers(c, k) PROVE ConnInv'
  <2>1. PICK line \in {k, Oversized} :
          /\ stdout' = [stdout EXCEPT ![c] = Append(@, line)]
          /\ working' = [working EXCEPT ![c] = @ \ {k}]
          /\ UNCHANGED <<callVars, tableVars, proc, stdin, taken>>
    BY <1>15 DEF ChildAnswers, ChildWrites
  <2>2. TakenInPlace'
    BY <2>1 DEF ConnTypeOK, ConnInv, TakenInPlace
  <2>3. on[k] = c /\ Oversized \notin Calls
    BY <1>15, LinesAssumption DEF ChildAnswers, ConnInv, TakenInPlace
  <2>4. StdoutInPlace'
    <3> SUFFICES ASSUME NEW d \in Conns, NEW i \in 1..Len(stdout'[d]), stdout'[d][i] \in Calls
                 PROVE  on[stdout'[d][i]] = d
      BY <2>1 DEF StdoutInPlace
    <3>1. stdout[d] \in Seq(Calls \cup {Noise, Oversized})
      BY DEF ConnTypeOK
    <3>2. CASE d = c
      <4>1. stdout'[d] = Append(stdout[d], line)
        BY <2>1, <3>2 DEF ConnTypeOK
      <4>2. i = Len(stdout[d]) + 1 => stdout'[d][i] = line
        BY <3>1, <4>1
      <4>3. i # Len(stdout[d]) + 1 =>
              i \in 1..Len(stdout[d]) /\ stdout'[d][i] = stdout[d][i]
        BY <3>1, <4>1
      <4> QED BY <2>3, <3>2, <4>2, <4>3 DEF ConnInv, StdoutInPlace
    <3>3. CASE d # c
      BY <2>1, <3>3 DEF ConnTypeOK, ConnInv, StdoutInPlace
    <3> QED BY <3>2, <3>3
  <2>5. TableIsExact'
    BY <2>1 DEF ConnInv, TableIsExact, Awaits
  <2>6. Placed' /\ UniqueIds' /\ StdinInPlace'
    BY <2>1 DEF ConnInv, Placed, UniqueIds, StdinInPlace
  <2>7. OneInHand' /\ OwnAnswer' /\ SendNeverBlocks'
    BY <2>1 DEF ConnInv, OneInHand, OwnAnswer, SendNeverBlocks
  <2>8. DeadMeansGone'
    BY <2>1 DEF ConnInv, DeadMeansGone, Gone
  <2> QED BY <2>2, <2>4, <2>5, <2>6, <2>7, <2>8 DEF ConnInv
<1>16. ASSUME NEW c \in Conns, ChildChatters(c) PROVE ConnInv'
  <2>1. StdoutInPlace'
    <3> SUFFICES ASSUME NEW d \in Conns, NEW i \in 1..Len(stdout'[d]), stdout'[d][i] \in Calls
                 PROVE  on[stdout'[d][i]] = d
      BY <1>16 DEF StdoutInPlace, ChildChatters, ChildWrites
    <3>1. stdout[d] \in Seq(Calls \cup {Noise, Oversized})
      BY DEF ConnTypeOK
    <3>2. CASE d = c
      <4>1. PICK line \in ((taken[c] \cap Calls) \ working[c]) \cup {Noise, Oversized} :
              stdout'[d] = Append(stdout[d], line)
        BY <1>16, <3>2 DEF ChildChatters, ChildWrites, ConnTypeOK
      <4>2. line \in Calls => on[line] = c
        BY <4>1, LinesAssumption DEF ConnInv, TakenInPlace
      <4>3. i = Len(stdout[d]) + 1 => stdout'[d][i] = line
        BY <3>1, <4>1
      <4>4. i # Len(stdout[d]) + 1 =>
              i \in 1..Len(stdout[d]) /\ stdout'[d][i] = stdout[d][i]
        BY <3>1, <4>1
      <4> QED BY <3>2, <4>2, <4>3, <4>4 DEF ConnInv, StdoutInPlace
    <3>3. CASE d # c
      BY <1>16, <3>3 DEF ChildChatters, ChildWrites, ConnTypeOK, ConnInv, StdoutInPlace
    <3> QED BY <3>2, <3>3
  <2>2. TableIsExact'
    BY <1>16 DEF ConnInv, TableIsExact, Awaits, ChildChatters, ChildWrites
  <2>3. Placed' /\ UniqueIds' /\ TakenInPlace'
    BY <1>16 DEF ConnInv, Placed, UniqueIds, TakenInPlace, ChildChatters, ChildWrites
  <2>4. StdinInPlace' /\ OneInHand' /\ OwnAnswer'
    BY <1>16 DEF ConnInv, StdinInPlace, OneInHand, OwnAnswer, ChildChatters, ChildWrites
  <2>5. SendNeverBlocks' /\ DeadMeansGone'
    BY <1>16 DEF ConnInv, SendNeverBlocks, DeadMeansGone, Gone, ChildChatters, ChildWrites
  <2> QED BY <2>1, <2>2, <2>3, <2>4, <2>5 DEF ConnInv
<1>17. ASSUME NEW c \in Conns, ChildDies(c) PROVE ConnInv'
  <2>1. Placed'
    BY <1>17 DEF ConnTypeOK, ConnInv, Placed, ChildDies, ProcessEnds
  <2>2. TakenInPlace'
    BY <1>17 DEF ConnTypeOK, ConnInv, TakenInPlace, ChildDies, ProcessEnds
  <2>3. StdinInPlace'
    BY <1>17 DEF ConnTypeOK, ConnInv, StdinInPlace, ChildDies, ProcessEnds
  <2>4. DeadMeansGone'
    BY <1>17 DEF ConnTypeOK, ConnInv, DeadMeansGone, Gone, Runs, ChildDies, ProcessEnds
  <2>5. TableIsExact'
    BY <1>17 DEF ConnInv, TableIsExact, Awaits, ChildDies, ProcessEnds
  <2>6. UniqueIds' /\ StdoutInPlace' /\ OneInHand'
    BY <1>17 DEF ConnInv, UniqueIds, StdoutInPlace, OneInHand, ChildDies, ProcessEnds
  <2>7. OwnAnswer' /\ SendNeverBlocks'
    BY <1>17 DEF ConnInv, OwnAnswer, SendNeverBlocks, ChildDies, ProcessEnds
  <2> QED BY <2>1, <2>2, <2>3, <2>4, <2>5, <2>6, <2>7 DEF ConnInv
<1>18. ASSUME NEW c \in Conns, ChildClosesStdin(c) PROVE ConnInv'
  <2>1. Placed'
    BY <1>18 DEF ConnTypeOK, ConnInv, Placed, ChildClosesStdin
  <2>2. StdinInPlace'
    BY <1>18 DEF ConnTypeOK, ConnInv, StdinInPlace, ChildClosesStdin
  <2>3. DeadMeansGone'
    BY <1>18 DEF ConnTypeOK, ConnInv, DeadMeansGone, Gone, ChildClosesStdin
  <2>4. TableIsExact'
    BY <1>18 DEF ConnInv, TableIsExact, Awaits, ChildClosesStdin
  <2>5. UniqueIds' /\ TakenInPlace' /\ StdoutInPlace'
    BY <1>18 DEF ConnInv, UniqueIds, TakenInPlace, StdoutInPlace, ChildClosesStdin
  <2>6. OneInHand' /\ OwnAnswer' /\ SendNeverBlocks'
    BY <1>18 DEF ConnInv, OneInHand, OwnAnswer, SendNeverBlocks, ChildClosesStdin
  <2> QED BY <2>1, <2>2, <2>3, <2>4, <2>5, <2>6 DEF ConnInv
<1>19. CASE UNCHANGED connVars
  <2>1. Placed' /\ UniqueIds' /\ TakenInPlace' /\ StdinInPlace' /\ StdoutInPlace'
    BY <1>19 DEF connVars, ConnInv, Placed, UniqueIds, TakenInPlace, StdinInPlace, StdoutInPlace
  <2>2. OneInHand' /\ OwnAnswer' /\ SendNeverBlocks' /\ TableIsExact'
    BY <1>19 DEF connVars, ConnInv, OneInHand, OwnAnswer, SendNeverBlocks, TableIsExact, Awaits
  <2>3. DeadMeansGone'
    BY <1>19 DEF connVars, ConnInv, DeadMeansGone, Gone
  <2> QED BY <2>1, <2>2, <2>3 DEF ConnInv
<1> QED
  BY <1>1, <1>2, <1>3, <1>4, <1>5, <1>6, <1>7, <1>8, <1>9, <1>10, <1>11, <1>12, <1>13, <1>14,
     <1>15, <1>16, <1>17, <1>18, <1>19
  DEF ConnNext, call, readLoop, child, WriteFails, SelectCtx, SelectClosed, Outcomes

\* Answers are never mixed up, neither between the calls of one connection nor
\* between a stale connection and a fresh one; the reader never blocks on a
\* channel; the table is exact; a connection is dead only if its child has ended or
\* been killed.
THEOREM ConnCorrect ==
  ConnSpec => [](OwnAnswer /\ SendNeverBlocks /\ TableIsExact /\ DeadMeansGone)
<1>1. ConnInit => ConnInv
  BY DEF ConnInit, ConnInv, Placed, UniqueIds, TakenInPlace, StdinInPlace, StdoutInPlace,
    OneInHand, OwnAnswer, SendNeverBlocks, TableIsExact, Awaits, DeadMeansGone, Conns
<1>2. ConnTypeOK /\ ConnInv /\ [ConnNext]_connVars => ConnInv'
  BY ConnStep
<1>3. ConnInv => OwnAnswer /\ SendNeverBlocks /\ TableIsExact /\ DeadMeansGone
  BY DEF ConnInv
<1> QED BY <1>1, <1>2, <1>3, ConnTypeCorrect, PTL DEF ConnSpec

-----------------------------------------------------------------------------
(* When the reader stops before its child.                                   *)

\* No line in the pipes is too long for the scanner.
NoLongLine ==
  \A c \in Conns : \A i \in 1..Len(stdout[c]) : stdout[c][i] # Oversized

\* The reader's loop has not been left for such a line.
ReadsOn ==
  \A c \in Conns : reader[c] # "reap" /\ (reader[c] = "done" => proc[c] = "down")

LEMMA ReadsOnStep ==
  ASSUME ConnTypeOK, ReadsOn, NoLongLine, [ConnNext]_connVars
  PROVE  ReadsOn'
<1> USE DEF callVars, tableVars, childVars
<1>1. ASSUME NEW c \in Conns, SpawnConn(c) PROVE ReadsOn'
  BY <1>1 DEF SpawnConn, ConnTypeOK, ReadsOn
<1>2. ASSUME NEW c \in Conns, shutdown(c) \/ ChildClosesStdin(c) \/ ChildDies(c)
      PROVE  ReadsOn'
  BY <1>2 DEF shutdown, ChildClosesStdin, ChildDies, Runs, ProcessEnds, ConnTypeOK, ReadsOn
<1>3. ASSUME NEW c \in Conns, ReadOversized(c) PROVE FALSE
  <2>1. stdout[c] \in Seq(Calls \cup {Noise, Oversized}) /\ stdout[c] # <<>>
    BY <1>3 DEF ReadOversized, Scanned, ConnTypeOK
  <2>2. 1 \in 1..Len(stdout[c]) /\ stdout[c][1] = Oversized
    BY <1>3, <2>1 DEF ReadOversized
  <2> QED BY <2>2 DEF NoLongLine
<1>4. ASSUME NEW c \in Conns, markDead(c) PROVE ReadsOn'
  BY <1>4 DEF markDead, ConnTypeOK, ReadsOn
<1>5. ASSUME NEW c \in Conns,
             \/ WriteInitialized(c) \/ ReadAnswer(c) \/ ReadDropped(c) \/ Deliver(c)
             \/ ChildTakes(c) \/ ChildChatters(c) \/ (\E k \in Calls : ChildAnswers(c, k))
      PROVE  UNCHANGED <<reader, proc>>
  BY <1>5 DEF WriteInitialized, ReadAnswer, ReadDropped, Scanned, Deliver, ChildTakes,
    ChildChatters, ChildAnswers, ChildWrites
<1>6. ASSUME NEW k \in Calls, call(k) \/ (\E c \in Conns : Register(k, c))
      PROVE  UNCHANGED <<reader, proc>>
  BY <1>6 DEF call, Register, WriteRequest, WriteFails, SelectCtx, SelectClosed, SelectResponse,
    GiveUp, Return
<1>7. ASSUME NEW K \in SUBSET Calls, Expire(K) PROVE UNCHANGED <<reader, proc>>
  BY <1>7 DEF Expire
<1>8. CASE UNCHANGED connVars
  BY <1>8 DEF connVars, ReadsOn
<1>9. ASSUME UNCHANGED <<reader, proc>> PROVE ReadsOn'
  BY <1>9 DEF ReadsOn
<1> QED BY <1>1, <1>2, <1>3, <1>4, <1>5, <1>6, <1>7, <1>8, <1>9 DEF ConnNext, readLoop, child

\* readLoop's comment (it reads until the child has exited) holds in every run in
\* which no line is longer than the scanner's buffer.  So such a line, be it an
\* answer or not, is all that ends the loop before the child (stdio_reader_stops).
THEOREM ReaderStopsConfined == ConnSpec /\ []NoLongLine => []ReaderEndsWithChild
<1>1. ConnInit => ReadsOn
  BY DEF ConnInit, ReadsOn
<1>2. ConnTypeOK /\ ReadsOn /\ NoLongLine /\ [ConnNext]_connVars => ReadsOn'
  BY ReadsOnStep
<1>3. ReadsOn => ReaderEndsWithChild
  BY DEF ReadsOn, ReaderEndsWithChild
<1> QED BY <1>1, <1>2, <1>3, ConnTypeCorrect, PTL DEF ConnSpec

=============================================================================
