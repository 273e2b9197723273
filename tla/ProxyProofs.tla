----------------------------- MODULE ProxyProofs -----------------------------
(***************************************************************************)
(* Proofs about the governance pipeline, for any number of calls and for   *)
(* any answers of the policy service, the engine and the backend.          *)
(***************************************************************************)
EXTENDS Proxy, TLAPS

-----------------------------------------------------------------------------
(* Operators *)

LEMMA OutcomeType ==
  ASSUME NEW code \in Codes, NEW text \in Texts \cup {"none", "masked"} \cup Causes,
         NEW verdict \in {"allow", "allow_failopen", "deny", "needs_approval", "error"},
         NEW n \in {0, 1}
  PROVE  Outcome(code, text, verdict, n) \in Outcomes
BY DEF Outcome, Outcomes, Responses, Rows

LEMMA RefusalType == \A r : Refusal(r) \in Outcomes
BY OutcomeType DEF Refusal, refusalMessage, Codes, Causes

LEMMA ForwardedType == \A c : ForwardedAs(c) \in {"allow", "allow_failopen"}
BY DEF ForwardedAs

LEMMA RedactedType ==
  ASSUME NEW c, said[c] \in Texts, NEW r
  PROVE  Redacted(c, r) \in Outcomes
<1>1. Outcome("result", said[c], ForwardedAs(c), 0) \in Outcomes
  BY OutcomeType, ForwardedType DEF Codes
<1>2. Outcome("result", "masked", ForwardedAs(c), 1) \in Outcomes
  BY OutcomeType, ForwardedType DEF Codes
<1>3. Withheld(c, r) \in Outcomes
  BY OutcomeType DEF Withheld, responseGovernanceRefusalMessage, Codes, Causes
<1> QED BY <1>1, <1>2, <1>3 DEF Redacted

\* What the policy service or the engine may answer is told from what stands
\* for no answer by its status.
LEMMA Distinct ==
  /\ \A r \in PdpAnswers \cup {NoVerdict, TooLarge} : r # Unasked
  /\ \A r \in EngineAnswers \cup {NoScan} : r # Unscanned
<1>1. \A r \in PdpAnswers \cup {NoVerdict, TooLarge} : r.status # -2
  BY AnswersAssumption DEF PdpReplies, NoVerdict, TooLarge
<1>2. Unasked.status = -2
  BY DEF Unasked, NoVerdict
<1>3. \A r \in EngineAnswers \cup {NoScan} : r.status # -2
  BY AnswersAssumption DEF EngineReplies, NoScan
<1>4. Unscanned.status = -2
  BY DEF Unscanned, NoScan
<1> QED BY <1>1, <1>2, <1>3, <1>4

\* A call that is forwarded has been allowed, or fail-open is set and the
\* policy service has not said no.
LEMMA ForwardsMeans ==
  ASSUME NEW r, Forwards(Decide(r))
  PROVE  \/ r.status = 200 /\ r.verdict = "allow"
         \/ failOpen /\ ~SaidNo(r)
BY DEF Forwards, Decide, SaidNo, ClientErrors

\* The settings, whatever the environment.
LEMMA SettingsType == \A e :
  /\ FailOpen(e) \in BOOLEAN
  /\ RedactResponses(e) \in {"always", "on-obligation", "off", "invalid"}
  /\ Accepted(e) \in BOOLEAN
  /\ buildPEPHandshake(e) \in [sent : BOOLEAN, capabilities : SUBSET {"field_redact"}]
<1>1. \A e : FailOpen(e) \in BOOLEAN
  BY DEF FailOpen
<1>2. \A e : RedactResponses(e) \in {"always", "on-obligation", "off", "invalid"}
  BY DEF RedactResponses
<1>3. \A e : Accepted(e) \in BOOLEAN
  BY DEF Accepted
<1>4. \A e : buildPEPHandshake(e) \in [sent : BOOLEAN, capabilities : SUBSET {"field_redact"}]
  <2>1. \A e : declaredCapabilities(e) \in SUBSET {"field_redact"}
    BY DEF declaredCapabilities
  <2> QED BY <2>1 DEF buildPEPHandshake
<1> QED BY <1>1, <1>2, <1>3, <1>4

-----------------------------------------------------------------------------
(* Types.  A call that has been concluded has an outcome, whose row can be  *)
(* written.                                                                 *)

Decided == \A c \in Calls :
  /\ pc[c] = "redact" => said[c] \in Texts
  /\ pc[c] \in {"record", "respond", "done"} => outcome[c] \in Outcomes

TypeInv == ProxyTypeOK /\ Decided

LEMMA ConcludeType ==
  ASSUME TypeInv, NEW c \in Calls, NEW o \in Outcomes, Conclude(c, o),
         said' = said \/ (\E text \in Texts : said' = [said EXCEPT ![c] = text])
  PROVE  /\ Decided'
         /\ outcome' \in [Calls -> Outcomes \cup {Undecided}]
         /\ pc' \in [Calls -> {"unread", "route", "decide", "call", "redact", "record",
                               "respond", "done"}]
BY DEF TypeInv, ProxyTypeOK, Decided, Conclude, GoTo

LEMMA TypeInvInit == Init => TypeInv
<1> SUFFICES ASSUME Init PROVE TypeInv
  OBVIOUS
<1>1. /\ env \in Settings
      /\ failOpen \in BOOLEAN
      /\ redactResponses \in {"always", "on-obligation", "off", "invalid"}
      /\ handshake \in [sent : BOOLEAN, capabilities : SUBSET {"field_redact"}]
      /\ serving \in BOOLEAN
  BY SettingsType DEF Init
<1> QED BY <1>1 DEF Init, Backend!Init, TypeInv, ProxyTypeOK, Decided, Undecided

LEMMA TypeInvStep ==
  ASSUME TypeInv, [Next]_vars
  PROVE  TypeInv'
<1> USE DEF cfgVars, callVars, outputVars, backendVars
<1>1. ASSUME NEW c \in Calls, Receive(c) \/ Routed(c) PROVE TypeInv'
  <2>1. /\ \E label \in {"route", "decide"} : pc' = [pc EXCEPT ![c] = label]
        /\ UNCHANGED <<cfgVars, serving, callVars, outputVars, backendVars>>
    BY <1>1 DEF Receive, Routed, GoTo
  <2> QED BY <2>1 DEF TypeInv, ProxyTypeOK, Decided
<1>2. ASSUME NEW c \in Calls, Malformed(c) \/ NotRouted(c) PROVE TypeInv'
  <2>1. PICK o \in Outcomes : Conclude(c, o)
    BY <1>2, OutcomeType DEF Malformed, NotRouted, Codes
  <2> QED BY <1>2, <2>1, ConcludeType DEF Malformed, NotRouted, TypeInv, ProxyTypeOK
<1>3. ASSUME NEW c \in Calls, NEW r \in PdpAnswers \cup {NoVerdict, TooLarge}, Enforce(c, r)
      PROVE  TypeInv'
  <2>1. pdp' \in [Calls -> PdpAnswers \cup {NoVerdict, TooLarge, Unasked}]
    BY <1>3 DEF Enforce, TypeInv, ProxyTypeOK
  <2>2. CASE GoTo(c, "call") /\ UNCHANGED outcome
    BY <1>3, <2>1, <2>2 DEF Enforce, GoTo, TypeInv, ProxyTypeOK, Decided
  <2>3. CASE Conclude(c, Refusal(r))
    BY <1>3, <2>1, <2>3, RefusalType, ConcludeType DEF Enforce, TypeInv, ProxyTypeOK
  <2> QED BY <1>3, <2>2, <2>3 DEF Enforce
<1>4. ASSUME NEW c \in Calls, NEW r, Backend!Return(c, r),
             r \in {"answered", "unavailable", "gaveUp", "lost"}
      PROVE  /\ result' \in [Calls -> {"none", "answered", "unavailable", "gaveUp", "lost"}]
             /\ executed' \in [Calls -> SUBSET {1, 2}]
  BY <1>4 DEF Backend!Return, TypeInv, ProxyTypeOK
<1>5. ASSUME NEW c \in Calls, ToolResult(c) PROVE TypeInv'
  <2>1. PICK text \in Texts :
          /\ said' = [said EXCEPT ![c] = text]
          /\ IF shouldRedact(c) /\ text # "empty"
             THEN GoTo(c, "redact") /\ UNCHANGED outcome
             ELSE Conclude(c, Outcome("result", text, ForwardedAs(c), 0))
    BY <1>5 DEF ToolResult
  <2>2. said' \in [Calls -> Texts \cup {"none"}]
    BY <2>1 DEF TypeInv, ProxyTypeOK
  <2>3. Backend!Return(c, "answered")
    BY <1>5 DEF ToolResult
  <2>4. CASE GoTo(c, "redact") /\ UNCHANGED outcome
    <3>1. Decided'
      BY <2>1, <2>4 DEF GoTo, TypeInv, ProxyTypeOK, Decided
    <3> QED BY <1>4, <1>5, <2>2, <2>3, <2>4, <3>1 DEF ToolResult, GoTo, TypeInv, ProxyTypeOK
  <2>5. CASE Conclude(c, Outcome("result", text, ForwardedAs(c), 0))
    <3>1. Outcome("result", text, ForwardedAs(c), 0) \in Outcomes
      BY OutcomeType, ForwardedType DEF Codes
    <3> QED BY <1>4, <1>5, <2>1, <2>2, <2>3, <2>5, <3>1, ConcludeType
            DEF ToolResult, TypeInv, ProxyTypeOK
  <2> QED BY <2>1, <2>4, <2>5
<1>6. ASSUME NEW c \in Calls, ToolError(c) \/ ToolFails(c) \/ CallTimesOut(c) PROVE TypeInv'
  <2>1. PICK o \in Outcomes : Conclude(c, o)
    BY <1>6, OutcomeType, ForwardedType
    DEF ToolError, ToolFails, CallTimesOut, BackendError, Codes
  <2>2. PICK r \in {"answered", "unavailable", "gaveUp", "lost"} : Backend!Return(c, r)
    BY <1>6 DEF ToolError, ToolFails, CallTimesOut
  <2> QED BY <1>4, <1>6, <2>1, <2>2, ConcludeType
          DEF ToolError, ToolFails, CallTimesOut, TypeInv, ProxyTypeOK
<1>7. ASSUME NEW c \in Calls, ToolExecutes(c) PROVE TypeInv'
  BY <1>7 DEF ToolExecutes, Backend!Execute, TypeInv, ProxyTypeOK, Decided
<1>8. ASSUME NEW c \in Calls, NEW r \in EngineAnswers \cup {NoScan}, Scan(c, r) PROVE TypeInv'
  <2>1. Redacted(c, r) \in Outcomes
    BY <1>8, RedactedType DEF Scan, At, TypeInv, Decided
  <2>2. engine' \in [Calls -> EngineAnswers \cup {NoScan, Unscanned}]
    BY <1>8 DEF Scan, TypeInv, ProxyTypeOK
  <2> QED BY <1>8, <2>1, <2>2, ConcludeType DEF Scan, TypeInv, ProxyTypeOK
<1>9. ASSUME NEW c \in Calls, Record(c) PROVE TypeInv'
  <2>1. outcome[c].row \in Rows
    BY <1>9 DEF Record, At, TypeInv, Decided, Outcomes
  <2>2. rows' \in [Calls -> Seq(Rows)]
    BY <1>9, <2>1 DEF Record, TypeInv, ProxyTypeOK
  <2>3. filed' \in SUBSET Calls
    BY <1>9 DEF Record, TypeInv, ProxyTypeOK
  <2> QED BY <1>9, <2>2, <2>3 DEF Record, At, GoTo, TypeInv, ProxyTypeOK, Decided
<1>10. ASSUME NEW c \in Calls, Respond(c) PROVE TypeInv'
  <2>1. answer' \in [Calls -> Responses \cup {NoAnswer}]
    BY <1>10 DEF Respond, At, TypeInv, ProxyTypeOK, Decided, Outcomes
  <2> QED BY <1>10, <2>1 DEF Respond, At, GoTo, TypeInv, ProxyTypeOK, Decided
<1>11. ASSUME Stop PROVE TypeInv'
  BY <1>11 DEF Stop, TypeInv, ProxyTypeOK, Decided
<1>12. ASSUME UNCHANGED vars PROVE TypeInv'
  BY <1>12 DEF vars, TypeInv, ProxyTypeOK, Decided
<1> QED
  BY <1>1, <1>2, <1>3, <1>5, <1>6, <1>7, <1>8, <1>9, <1>10, <1>11, <1>12
  DEF Next, Progress, PdpAnswered, RequestTooLarge, DecideTimesOut, EngineAnswered, ScanTimesOut

\* The type invariant of the pipeline; in particular the audit row's verdict is
\* one of those that HandleToolsCall documents, whatever the services answer.
THEOREM ProxyTypeCorrect == Spec => []ProxyTypeOK
<1>1. Init => TypeInv
  BY TypeInvInit
<1>2. TypeInv /\ [Next]_vars => TypeInv'
  BY TypeInvStep
<1>3. TypeInv => ProxyTypeOK
  BY DEF TypeInv
<1> QED BY <1>1, <1>2, <1>3, PTL DEF Spec

-----------------------------------------------------------------------------
(* The settings are those of the environment, which has been accepted if a  *)
(* message has been read.                                                   *)

Configured ==
  /\ failOpen = FailOpen(env)
  /\ redactResponses = RedactResponses(env)
  /\ handshake = buildPEPHandshake(env)
  /\ serving \/ (\E c \in Calls : pc[c] # "unread") => Accepted(env)

LEMMA ConfiguredStep ==
  ASSUME TypeInv, Configured, [Next]_vars
  PROVE  Configured'
<1> USE DEF cfgVars, callVars, outputVars, backendVars
<1>1. UNCHANGED cfgVars
  BY DEF Next, Progress, Receive, Malformed, Routed, NotRouted, PdpAnswered, RequestTooLarge,
     DecideTimesOut, Enforce, ToolExecutes, ToolResult, ToolError, ToolFails, CallTimesOut,
     EngineAnswered, ScanTimesOut, Scan, Record, Respond, Stop, vars
<1>2. serving \/ UNCHANGED <<serving, pc>>
  BY DEF Next, Progress, Receive, Malformed, Routed, NotRouted, PdpAnswered, RequestTooLarge,
     DecideTimesOut, Enforce, ToolExecutes, ToolResult, ToolError, ToolFails, CallTimesOut,
     EngineAnswered, ScanTimesOut, Scan, Record, Respond, Stop, vars, At
<1>3. CASE serving
  BY <1>1, <1>3 DEF Configured
<1>4. CASE UNCHANGED <<serving, pc>>
  BY <1>1, <1>4 DEF Configured
<1> QED BY <1>2, <1>3, <1>4

-----------------------------------------------------------------------------
(* The stages of a call, one predicate for each thing a call may have come  *)
(* to.  They say what has been asked, executed and scanned.                 *)

Untouched(c) == result[c] = "none" /\ executed[c] = {} /\ engine[c] = Unscanned

Forwarded(c) == pdp[c] # Unasked /\ Forwards(Decide(pdp[c]))

Undealt(c) == pdp[c] = Unasked /\ Untouched(c)

Invalid(c) ==
  /\ Undealt(c)
  /\ \E code \in {"internalError", "invalidParams"} :
       outcome[c] = Outcome(code, "none", "error", 0)

Refused(c) ==
  /\ pdp[c] # Unasked
  /\ ~Forwards(Decide(pdp[c]))
  /\ Untouched(c)
  /\ outcome[c] = Refusal(pdp[c])

\* Whatever came back is passed on without the engine.
Unseen(c) ==
  /\ Forwarded(c)
  /\ result[c] # "none"
  /\ engine[c] = Unscanned
  /\ \E code \in {"result", "backend", "internalError"}, text \in Texts \cup {"none"} :
       /\ outcome[c] = Outcome(code, text, ForwardedAs(c), 0)
       /\ code = "result" => result[c] = "answered" /\ (text = "empty" \/ ~shouldRedact(c))

\* The engine has been asked.
Seen(c) ==
  /\ Forwarded(c)
  /\ result[c] = "answered"
  /\ engine[c] # Unscanned
  /\ said[c] \in Texts
  /\ outcome[c] = Redacted(c, engine[c])

Concluded(c) == Invalid(c) \/ Refused(c) \/ Unseen(c) \/ Seen(c)

Stage(c) ==
  /\ pc[c] \in {"unread", "route", "decide"} => Undealt(c)
  /\ pc[c] = "call" => Forwarded(c) /\ engine[c] = Unscanned
  /\ pc[c] = "redact" => Forwarded(c) /\ engine[c] = Unscanned /\ result[c] = "answered"
  /\ pc[c] \in {"record", "respond", "done"} => Concluded(c)

\* What has been written of a call.
Written(c) ==
  /\ rows[c] = IF pc[c] \in {"respond", "done"} THEN <<outcome[c].row>> ELSE <<>>
  /\ pc[c] \notin {"respond", "done"} => c \notin filed
  /\ answer[c] = IF pc[c] = "done" THEN outcome[c].response ELSE NoAnswer

Governed == \A c \in Calls : Stage(c) /\ Written(c)

LEMMA Frame ==
  ASSUME NEW d \in Calls, Stage(d), Written(d), UNCHANGED cfgVars,
         pc'[d] = pc[d], pdp'[d] = pdp[d], said'[d] = said[d], engine'[d] = engine[d],
         outcome'[d] = outcome[d], rows'[d] = rows[d], d \in filed' => d \in filed,
         answer'[d] = answer[d], result'[d] = result[d], executed'[d] = executed[d]
  PROVE  Stage(d)' /\ Written(d)'
<1>1. Forwarded(d)' <=> Forwarded(d)
  BY DEF Forwarded, Forwards, cfgVars
<1>2. forced(d)' <=> forced(d)
  BY DEF forced
<1>3. ForwardedAs(d)' = ForwardedAs(d)
  BY <1>2 DEF ForwardedAs
<1>4. shouldRedact(d)' <=> shouldRedact(d)
  BY <1>2 DEF shouldRedact, cfgVars
<1>5. Untouched(d)' <=> Untouched(d)
  BY DEF Untouched
<1>6. Undealt(d) => Undealt(d)'
  BY <1>5 DEF Undealt
<1>7. Invalid(d) => Invalid(d)'
  BY <1>6 DEF Invalid
<1>8. Refused(d) => Refused(d)'
  BY <1>1, <1>5 DEF Refused, Forwarded
<1>9. Unseen(d) => Unseen(d)'
  BY <1>1, <1>3, <1>4 DEF Unseen
<1>10. Seen(d) => Seen(d)'
  <2>1. \A a : Redacted(d, a)' = Redacted(d, a)
    BY <1>3 DEF Redacted, Withheld
  <2> QED BY <1>1, <2>1 DEF Seen
<1>11. Stage(d)'
  BY <1>1, <1>6, <1>7, <1>8, <1>9, <1>10 DEF Stage, Concluded
<1>12. Written(d)'
  BY DEF Written
<1> QED BY <1>11, <1>12

LEMMA ConcludeStage ==
  ASSUME TypeInv, NEW c \in Calls, NEW o, Conclude(c, o), Written(c),
         pc[c] \notin {"respond", "done"}, UNCHANGED outputVars
  PROVE  /\ pc' = [pc EXCEPT ![c] = "record"]
         /\ outcome' = [outcome EXCEPT ![c] = o]
         /\ pc'[c] = "record"
         /\ outcome'[c] = o
         /\ Written(c)'
BY DEF TypeInv, ProxyTypeOK, Conclude, GoTo, Written, outputVars

LEMMA GovernedStep ==
  ASSUME TypeInv, Governed, [Next]_vars
  PROVE  Governed'
<1> USE DEF cfgVars, callVars, outputVars, backendVars
<1> DEFINE Kept(c) == \A d \in Calls \ {c} : Stage(d)' /\ Written(d)'
<1>0. /\ pc \in [Calls -> {"unread", "route", "decide", "call", "redact", "record",
                           "respond", "done"}]
      /\ pdp \in [Calls -> PdpAnswers \cup {NoVerdict, TooLarge, Unasked}]
      /\ said \in [Calls -> Texts \cup {"none"}]
      /\ engine \in [Calls -> EngineAnswers \cup {NoScan, Unscanned}]
      /\ outcome \in [Calls -> Outcomes \cup {Undecided}]
      /\ rows \in [Calls -> Seq(Rows)]
      /\ answer \in [Calls -> Responses \cup {NoAnswer}]
      /\ result \in [Calls -> {"none", "answered", "unavailable", "gaveUp", "lost"}]
      /\ executed \in [Calls -> SUBSET {1, 2}]
  BY DEF TypeInv, ProxyTypeOK
<1>a. \A c \in Calls : Stage(c) /\ Written(c)
  BY DEF Governed
<1>1. ASSUME NEW c \in Calls, Receive(c) \/ Routed(c) PROVE Governed'
  <2>1. Kept(c)
    BY <1>0, <1>1, <1>a, Frame DEF Receive, Routed, GoTo
  <2>2. Stage(c)'
    BY <1>0, <1>1, <1>a DEF Receive, Routed, At, GoTo, Stage, Undealt, Untouched
  <2>3. Written(c)'
    BY <1>0, <1>1, <1>a DEF Receive, Routed, At, GoTo, Written
  <2> QED BY <2>1, <2>2, <2>3 DEF Governed
<1>2. ASSUME NEW c \in Calls, Malformed(c) \/ NotRouted(c) PROVE Governed'
  <2>1. PICK code \in {"internalError", "invalidParams"} :
          Conclude(c, Outcome(code, "none", "error", 0))
    BY <1>2 DEF Malformed, NotRouted
  <2>2. pc[c] \in {"unread", "route"}
    BY <1>2 DEF Malformed, NotRouted, At
  <2>3. UNCHANGED outputVars /\ UNCHANGED <<cfgVars, pdp, said, engine, backendVars>>
    BY <1>2 DEF Malformed, NotRouted
  <2>4. /\ pc' = [pc EXCEPT ![c] = "record"]
        /\ outcome' = [outcome EXCEPT ![c] = Outcome(code, "none", "error", 0)]
        /\ pc'[c] = "record"
        /\ outcome'[c] = Outcome(code, "none", "error", 0)
        /\ Written(c)'
    BY <1>a, <2>1, <2>2, <2>3, ConcludeStage
  <2>5. Kept(c)
    BY <1>0, <1>a, <2>3, <2>4, Frame
  <2>6. Undealt(c)'
    BY <1>a, <2>2, <2>3 DEF Stage, Undealt, Untouched
  <2>7. Invalid(c)'
    BY <2>4, <2>6 DEF Invalid
  <2>8. Stage(c)'
    BY <2>4, <2>7 DEF Stage, Concluded
  <2> QED BY <2>4, <2>5, <2>8 DEF Governed
<1>3. ASSUME NEW c \in Calls, NEW r \in PdpAnswers \cup {NoVerdict, TooLarge}, Enforce(c, r)
      PROVE  Governed'
  <2>1. /\ pc[c] = "decide"
        /\ pdp' = [pdp EXCEPT ![c] = r]
        /\ pdp'[c] = r
        /\ UNCHANGED <<cfgVars, said, engine, outputVars, backendVars>>
    BY <1>0, <1>3 DEF Enforce, At
  <2>2. Undealt(c)
    BY <1>a, <2>1 DEF Stage
  <2>3. pdp'[c] # Unasked
    BY <2>1, Distinct
  <2>4. Untouched(c)'
    BY <2>1, <2>2 DEF Undealt, Untouched
  <2>5. CASE Forwards(Decide(r))
    <3>1. GoTo(c, "call") /\ UNCHANGED outcome
      BY <1>3, <2>5 DEF Enforce
    <3>2. Kept(c)
      BY <1>0, <1>a, <2>1, <3>1, Frame DEF GoTo
    <3>3. Forwarded(c)'
      BY <2>1, <2>3, <2>5 DEF Forwarded, Forwards
    <3>4. Stage(c)'
      BY <1>0, <2>4, <3>1, <3>3 DEF Stage, GoTo, Untouched
    <3>5. Written(c)'
      BY <1>0, <1>a, <2>1, <3>1 DEF Written, GoTo
    <3> QED BY <3>2, <3>4, <3>5 DEF Governed
  <2>6. CASE ~Forwards(Decide(r))
    <3>1. Conclude(c, Refusal(r))
      BY <1>3, <2>6 DEF Enforce
    <3>2. /\ pc' = [pc EXCEPT ![c] = "record"]
          /\ outcome' = [outcome EXCEPT ![c] = Refusal(r)]
          /\ pc'[c] = "record"
          /\ outcome'[c] = Refusal(r)
          /\ Written(c)'
      BY <1>a, <2>1, <3>1, ConcludeStage
    <3>3. Kept(c)
      BY <1>0, <1>a, <2>1, <3>2, Frame
    <3>4. ~Forwards(Decide(r))'
      BY <2>1, <2>6 DEF Forwards
    <3>5. Refused(c)'
      BY <2>1, <2>3, <2>4, <3>2, <3>4 DEF Refused
    <3>6. Stage(c)'
      BY <3>2, <3>5 DEF Stage, Concluded
    <3> QED BY <3>2, <3>3, <3>6 DEF Governed
  <2> QED BY <2>5, <2>6
<1>4. ASSUME NEW c \in Calls, NEW r \in {"answered", "unavailable", "gaveUp", "lost"},
             Backend!Return(c, r)
      PROVE  /\ result' = [result EXCEPT ![c] = r]
             /\ result'[c] # "none"
             /\ executed' = executed
  BY <1>0, <1>4 DEF Backend!Return
<1>5. ASSUME NEW c \in Calls, ToolResult(c) PROVE Governed'
  <2>1. PICK text \in Texts :
          /\ said' = [said EXCEPT ![c] = text]
          /\ IF shouldRedact(c) /\ text # "empty"
             THEN GoTo(c, "redact") /\ UNCHANGED outcome
             ELSE Conclude(c, Outcome("result", text, ForwardedAs(c), 0))
    BY <1>5 DEF ToolResult
  <2>2. /\ pc[c] = "call"
        /\ Backend!Return(c, "answered")
        /\ UNCHANGED <<cfgVars, pdp, engine, outputVars>>
    BY <1>5 DEF ToolResult, At
  <2>3. /\ result' = [result EXCEPT ![c] = "answered"]
        /\ result'[c] = "answered"
        /\ executed' = executed
    BY <1>0, <1>4, <2>2
  <2>4. Forwarded(c) /\ engine[c] = Unscanned
    BY <1>a, <2>2 DEF Stage
  <2>5. Forwarded(c)' /\ engine'[c] = Unscanned
    BY <2>2, <2>4 DEF Forwarded, Forwards
  <2>6. CASE shouldRedact(c) /\ text # "empty"
    <3>1. GoTo(c, "redact") /\ UNCHANGED outcome
      BY <2>1, <2>6
    <3>2. Kept(c)
      BY <1>0, <1>a, <2>1, <2>2, <2>3, <3>1, Frame DEF GoTo
    <3>3. Stage(c)'
      BY <1>0, <2>3, <2>5, <3>1 DEF Stage, GoTo
    <3>4. Written(c)'
      BY <1>0, <1>a, <2>2, <3>1 DEF Written, GoTo
    <3> QED BY <3>2, <3>3, <3>4 DEF Governed
  <2>7. CASE ~(shouldRedact(c) /\ text # "empty")
    <3>1. Conclude(c, Outcome("result", text, ForwardedAs(c), 0))
      BY <2>1, <2>7
    <3>2. /\ pc' = [pc EXCEPT ![c] = "record"]
          /\ outcome' = [outcome EXCEPT ![c] = Outcome("result", text, ForwardedAs(c), 0)]
          /\ pc'[c] = "record"
          /\ outcome'[c] = Outcome("result", text, ForwardedAs(c), 0)
          /\ Written(c)'
      BY <1>a, <2>2, <3>1, ConcludeStage
    <3>3. Kept(c)
      BY <1>0, <1>a, <2>1, <2>2, <2>3, <3>2, Frame
    <3>4. ForwardedAs(c)' = ForwardedAs(c)
      BY <2>2 DEF ForwardedAs, forced
    <3>5. text = "empty" \/ ~shouldRedact(c)'
      BY <2>2, <2>7 DEF shouldRedact, forced
    <3>6. Unseen(c)'
      BY <2>3, <2>5, <3>2, <3>4, <3>5 DEF Unseen
    <3>7. Stage(c)'
      BY <3>2, <3>6 DEF Stage, Concluded
    <3> QED BY <3>2, <3>3, <3>7 DEF Governed
  <2> QED BY <2>6, <2>7
<1>6. ASSUME NEW c \in Calls, ToolError(c) \/ ToolFails(c) \/ CallTimesOut(c) PROVE Governed'
  <2>1. PICK code \in {"backend", "internalError"}, text \in Texts \cup {"none"} :
          Conclude(c, Outcome(code, text, ForwardedAs(c), 0))
    BY <1>6 DEF ToolError, ToolFails, CallTimesOut, BackendError
  <2>2. /\ pc[c] = "call"
        /\ UNCHANGED <<cfgVars, pdp, said, engine, outputVars>>
    BY <1>6 DEF ToolError, ToolFails, CallTimesOut, At
  <2>3. PICK r \in {"answered", "unavailable", "gaveUp", "lost"} : Backend!Return(c, r)
    BY <1>6 DEF ToolError, ToolFails, CallTimesOut
  <2>4. /\ result' = [result EXCEPT ![c] = r]
        /\ result'[c] # "none"
        /\ executed' = executed
    BY <1>4, <2>3
  <2>5. Forwarded(c) /\ engine[c] = Unscanned
    BY <1>a, <2>2 DEF Stage
  <2>6. Forwarded(c)' /\ engine'[c] = Unscanned
    BY <2>2, <2>5 DEF Forwarded, Forwards
  <2>7. /\ pc' = [pc EXCEPT ![c] = "record"]
        /\ outcome' = [outcome EXCEPT ![c] = Outcome(code, text, ForwardedAs(c), 0)]
        /\ pc'[c] = "record"
        /\ outcome'[c] = Outcome(code, text, ForwardedAs(c), 0)
        /\ Written(c)'
    BY <1>a, <2>1, <2>2, ConcludeStage
  <2>8. Kept(c)
    BY <1>0, <1>a, <2>2, <2>4, <2>7, Frame
  <2>9. ForwardedAs(c)' = ForwardedAs(c)
    BY <2>2 DEF ForwardedAs, forced
  <2>10. Unseen(c)'
    <3>1. /\ code \in {"result", "backend", "internalError"} /\ code # "result"
          /\ text \in Texts \cup {"none"}
          /\ outcome'[c] = Outcome(code, text, ForwardedAs(c)', 0)
      BY <2>7, <2>9
    <3> QED BY <2>4, <2>6, <3>1, Zenon DEF Unseen
  <2>11. Stage(c)'
    BY <2>7, <2>10 DEF Stage, Concluded
  <2> QED BY <2>7, <2>8, <2>11 DEF Governed
<1>7. ASSUME NEW c \in Calls, ToolExecutes(c) PROVE Governed'
  <2>1. /\ pc[c] = "call" \/ result[c] # "none"
        /\ \E n \in {1, 2} : executed' = [executed EXCEPT ![c] = @ \cup {n}]
        /\ UNCHANGED <<cfgVars, pc, callVars, outputVars, result>>
    BY <1>7 DEF ToolExecutes, Backend!Execute
  <2>2. Kept(c)
    BY <1>0, <1>a, <2>1, Frame
  <2>3. Forwarded(c)' <=> Forwarded(c)
    BY <2>1 DEF Forwarded, Forwards
  <2>4. Stage(c)'
    <3>1. CASE pc[c] \in {"unread", "route", "decide"}
      BY <1>a, <2>1, <3>1 DEF Stage, Undealt, Untouched
    <3>2. CASE pc[c] \in {"call", "redact"}
      BY <1>a, <2>1, <2>3, <3>2 DEF Stage
    <3>3. CASE pc[c] \in {"record", "respond", "done"}
      <4>1. Unseen(c) \/ Seen(c)
        BY <1>a, <2>1, <3>3 DEF Stage, Concluded, Invalid, Refused, Undealt, Untouched
      <4>2. ForwardedAs(c)' = ForwardedAs(c) /\ (shouldRedact(c)' <=> shouldRedact(c))
        BY <2>1 DEF ForwardedAs, forced, shouldRedact
      <4>3. Unseen(c) => Unseen(c)'
        BY <2>1, <2>3, <4>2 DEF Unseen
      <4>4. \A a : Redacted(c, a)' = Redacted(c, a)
        BY <2>1, <4>2 DEF Redacted, Withheld
      <4>5. Seen(c) => Seen(c)'
        BY <2>1, <2>3, <4>4 DEF Seen
      <4> QED BY <2>1, <3>3, <4>1, <4>3, <4>5 DEF Stage, Concluded
    <3> QED BY <1>0, <3>1, <3>2, <3>3
  <2>5. Written(c)'
    BY <1>a, <2>1 DEF Written
  <2> QED BY <2>2, <2>4, <2>5 DEF Governed
<1>8. ASSUME NEW c \in Calls, NEW r \in EngineAnswers \cup {NoScan}, Scan(c, r) PROVE Governed'
  <2>1. /\ pc[c] = "redact"
        /\ engine' = [engine EXCEPT ![c] = r]
        /\ engine'[c] = r
        /\ Conclude(c, Redacted(c, r))
        /\ UNCHANGED <<cfgVars, pdp, said, outputVars, backendVars>>
    BY <1>0, <1>8 DEF Scan, At
  <2>2. Forwarded(c) /\ result[c] = "answered" /\ said[c] \in Texts
    BY <1>a, <2>1 DEF Stage, TypeInv, Decided
  <2>3. Forwarded(c)' /\ result'[c] = "answered" /\ said'[c] \in Texts
    BY <2>1, <2>2 DEF Forwarded, Forwards, Texts
  <2>4. engine'[c] # Unscanned
    BY <2>1, Distinct
  <2>5. /\ pc' = [pc EXCEPT ![c] = "record"]
        /\ outcome' = [outcome EXCEPT ![c] = Redacted(c, r)]
        /\ pc'[c] = "record"
        /\ outcome'[c] = Redacted(c, r)
        /\ Written(c)'
    BY <1>a, <2>1, ConcludeStage
  <2>6. Kept(c)
    BY <1>0, <1>a, <2>1, <2>5, Frame
  <2>7. \A a : Redacted(c, a)' = Redacted(c, a)
    <3>1. ForwardedAs(c)' = ForwardedAs(c)
      BY <2>1 DEF ForwardedAs, forced
    <3> QED BY <2>1, <3>1 DEF Redacted, Withheld
  <2>8. Seen(c)'
    BY <2>1, <2>3, <2>4, <2>5, <2>7 DEF Seen
  <2>9. Stage(c)'
    BY <2>5, <2>8 DEF Stage, Concluded
  <2> QED BY <2>5, <2>6, <2>9 DEF Governed
<1>9. ASSUME NEW c \in Calls, Record(c) \/ Respond(c) PROVE Governed'
  <2>1. /\ pc[c] \in {"record", "respond"}
        /\ pc'[c] \in {"respond", "done"}
        /\ UNCHANGED <<cfgVars, callVars, backendVars>>
    BY <1>0, <1>9 DEF Record, Respond, At, GoTo
  <2>2. Kept(c)
    BY <1>0, <1>9, <1>a, Frame DEF Record, Respond, GoTo
  <2>3. Stage(c)'
    <3>1. Forwarded(c)' <=> Forwarded(c)
      BY <2>1 DEF Forwarded, Forwards
    <3>2. ForwardedAs(c)' = ForwardedAs(c) /\ (shouldRedact(c)' <=> shouldRedact(c))
      BY <2>1 DEF ForwardedAs, forced, shouldRedact
    <3>3. \A a : Redacted(c, a)' = Redacted(c, a)
      BY <2>1, <3>2 DEF Redacted, Withheld
    <3>4. Invalid(c) => Invalid(c)'
      BY <2>1 DEF Invalid, Undealt, Untouched
    <3>5. Refused(c) => Refused(c)'
      BY <2>1, <3>1 DEF Refused, Forwarded, Untouched
    <3>6. Unseen(c) => Unseen(c)'
      BY <2>1, <3>1, <3>2 DEF Unseen
    <3>7. Seen(c) => Seen(c)'
      BY <2>1, <3>1, <3>3 DEF Seen
    <3> QED BY <1>a, <2>1, <3>4, <3>5, <3>6, <3>7 DEF Stage, Concluded
  <2>4. Written(c)'
    <3>1. CASE Record(c)
      <4>1. rows[c] = <<>> /\ answer[c] = NoAnswer
        BY <1>a, <3>1 DEF Record, At, Written
      <4>2. rows'[c] = Append(<<>>, outcome[c].row) /\ pc'[c] = "respond"
        BY <1>0, <3>1, <4>1 DEF Record, GoTo
      <4>3. rows'[c] = <<outcome'[c].row>>
        BY <2>1, <4>2
      <4> QED BY <3>1, <4>1, <4>2, <4>3 DEF Record, Written
    <3>2. CASE Respond(c)
      BY <1>0, <1>a, <3>2 DEF Respond, At, GoTo, Written
    <3> QED BY <1>9, <3>1, <3>2
  <2> QED BY <2>2, <2>3, <2>4 DEF Governed
<1>10. ASSUME UNCHANGED <<cfgVars, pc, callVars, outputVars, backendVars>> PROVE Governed'
  BY <1>10, <1>a, Frame DEF Governed
<1> QED
  BY <1>1, <1>2, <1>3, <1>5, <1>6, <1>7, <1>8, <1>9, <1>10
  DEF Next, Progress, PdpAnswered, RequestTooLarge, DecideTimesOut, EngineAnswered,
      ScanTimesOut, Stop, vars

\* The inductive invariant of the pipeline.
THEOREM GovernedCorrect == Spec => [](TypeInv /\ Configured /\ Governed)
<1>1. Init => TypeInv /\ Configured /\ Governed
  <2>1. ASSUME Init PROVE TypeInv
    BY <2>1, TypeInvInit
  <2>2. ASSUME Init PROVE Governed
    BY <2>2 DEF Init, Backend!Init, Governed, Stage, Undealt, Untouched, Written
  <2>3. ASSUME Init PROVE Configured
    BY <2>3 DEF Init, Configured
  <2> QED BY <2>1, <2>2, <2>3
<1>2. TypeInv /\ Configured /\ Governed /\ [Next]_vars => (TypeInv /\ Configured /\ Governed)'
  BY TypeInvStep, ConfiguredStep, GovernedStep
<1> QED BY <1>1, <1>2, PTL DEF Spec

-----------------------------------------------------------------------------
(* What follows from it. *)

\* A call that has executed has been forwarded.
LEMMA ExecutedForwarded ==
  ASSUME TypeInv, Governed, NEW c \in Calls, executed[c] # {}
  PROVE  Forwarded(c)
<1>1. Stage(c) /\ pc[c] \in {"unread", "route", "decide", "call", "redact", "record",
                             "respond", "done"}
  BY DEF Governed, TypeInv, ProxyTypeOK
<1> QED BY <1>1 DEF Stage, Concluded, Invalid, Refused, Unseen, Seen, Undealt, Untouched

\* No tool executes without an allow, or fail-open and no refusal.
THEOREM GovernedExecutionHolds == Spec => []GovernedExecution
<1>1. TypeInv /\ Configured /\ Governed => GovernedExecution
  <2> SUFFICES ASSUME TypeInv, Configured, Governed, NEW c \in Calls, executed[c] # {}
               PROVE  \/ pdp[c].status = 200 /\ pdp[c].verdict = "allow"
                      \/ env.failMode = "open" /\ pdp[c] # Unasked /\ ~SaidNo(pdp[c])
    BY DEF GovernedExecution
  <2>1. pdp[c] # Unasked /\ Forwards(Decide(pdp[c]))
    BY ExecutedForwarded DEF Forwarded
  <2> QED BY <2>1, ForwardsMeans DEF Configured, FailOpen
<1> QED BY <1>1, GovernedCorrect, PTL

\* A written answer or row is that of the outcome, which is one of four.
LEMMA AnsweredConcluded ==
  ASSUME TypeInv, Governed, NEW c \in Calls, Answered(c) \/ rows[c] # <<>>
  PROVE  /\ Concluded(c)
         /\ rows[c] = <<outcome[c].row>>
         /\ Answered(c) => answer[c] = outcome[c].response
<1>1. pc[c] \in {"respond", "done"}
  BY DEF Answered, Governed, Written
<1>2. Concluded(c)
  BY <1>1 DEF Governed, Stage
<1>3. rows[c] = <<outcome[c].row>> /\ (Answered(c) => answer[c] = outcome[c].response)
  BY <1>1 DEF Answered, Governed, Written
<1> QED BY <1>2, <1>3

LEMMA RefusalFields == \A r :
  /\ Refusal(r).response.code \in {"policyDeny", "needsApproval", "policyUnavailable"}
  /\ Refusal(r).response.text \in Causes \cup {"none"}
  /\ Refusal(r).row.verdict \in {"deny", "needs_approval"}
  /\ Refusal(r).row.redactions = 0
<1> DEFINE Fine(o) ==
      /\ o.response.code \in {"policyDeny", "needsApproval", "policyUnavailable"}
      /\ o.response.text \in Causes \cup {"none"}
      /\ o.row.verdict \in {"deny", "needs_approval"}
      /\ o.row.redactions = 0
<1>1. /\ Fine(Outcome("policyDeny", "none", "deny", 0))
      /\ Fine(Outcome("needsApproval", "none", "needs_approval", 0))
      /\ \A text \in Causes \cup {"none"} : Fine(Outcome("policyUnavailable", text, "deny", 0))
  BY DEF Outcome
<1>2. \A r : refusalMessage(r) \in Causes
  BY DEF refusalMessage, Causes
<1> HIDE DEF Fine
<1>3. \A r : Fine(Refusal(r))
  BY <1>1, <1>2 DEF Refusal
<1> QED BY <1>3 DEF Fine

\* A result is passed on as it is, masked, or kept back, and then the reason
\* given is the engine's.
LEMMA RedactedCases ==
  ASSUME NEW c, NEW r
  PROVE  \/ /\ CheckOutput(r) = "untouched"
            /\ Redacted(c, r) = Outcome("result", said[c], ForwardedAs(c), 0)
         \/ /\ CheckOutput(r) = "masked"
            /\ Redacted(c, r) = Outcome("result", "masked", ForwardedAs(c), 1)
         \/ /\ CheckOutput(r) = "blocked"
            /\ Redacted(c, r) = Outcome("policyDeny", "none", "deny", 0)
         \/ /\ CheckOutput(r) = "refused"
            /\ Redacted(c, r) =
                 Outcome("policyUnavailable", responseGovernanceRefusalMessage(r), "deny", 0)
         \/ /\ CheckOutput(r) \notin {"untouched", "masked", "blocked", "refused"}
            /\ Redacted(c, r) = Outcome("policyUnavailable", "none", "deny", 0)
BY DEF Redacted, Withheld

\* The engine leaves a result alone only by an HTTP 200 that says so.
LEMMA UntouchedMeans ==
  ASSUME NEW r \in EngineAnswers \cup {NoScan}, CheckOutput(r) = "untouched"
  PROVE  r = [status |-> 200, body |-> "untouched"]
<1>1. r \in [status : {0, 200, 400, 401, 403, 429, 500},
             body : {"undecodable", "unsaid", "limited", "blocked", "untouched", "masked",
                     "broken", "nonString"}]
  BY AnswersAssumption DEF EngineReplies, NoScan
<1>2. r.status = 200
  BY DEF CheckOutput
<1>3. r.body = "untouched"
  BY <1>1, <1>2 DEF CheckOutput
<1> QED BY <1>1, <1>2, <1>3

\* Personal data passes unseen only where the operator has waived the scan.
THEOREM NoUnseenPIIHolds == Spec => []NoUnseenPII
<1>1. TypeInv /\ Configured /\ Governed => NoUnseenPII
  <2> SUFFICES ASSUME TypeInv, Configured, Governed, NEW c \in Calls,
                      answer[c] = [code |-> "result", text |-> "pii"]
               PROVE  \/ engine[c] = [status |-> 200, body |-> "untouched"]
                      \/ env.redact = "off"
                      \/ /\ env.redact \in {"on-obligation", "on_obligation"}
                         /\ pdp[c].status = 200 /\ pdp[c].verdict = "allow"
                         /\ pdp[c].obligation # "redact_pii"
    BY DEF NoUnseenPII
  <2>1. Answered(c)
    BY DEF Answered, NoAnswer
  <2>2. /\ Concluded(c)
        /\ outcome[c].response.code = "result"
        /\ outcome[c].response.text = "pii"
    BY <2>1, AnsweredConcluded
  <2>3. ~Invalid(c)
    BY <2>2 DEF Invalid, Outcome
  <2>4. ~Refused(c)
    BY <2>2, RefusalFields DEF Refused
  <2>5. CASE Unseen(c)
    <3>1. ~shouldRedact(c) /\ Forwarded(c)
      BY <2>2, <2>5 DEF Unseen, Outcome
    <3>2. /\ redactResponses = RedactResponses(env)
          /\ redactResponses \in {"always", "on-obligation", "off", "invalid"}
      BY DEF Configured, TypeInv, ProxyTypeOK
    <3>3. pc[c] # "unread"
      BY <2>1 DEF Answered, Governed, Written
    <3>4. redactResponses # "invalid"
      BY <3>2, <3>3 DEF Configured, Accepted
    <3>5. CASE redactResponses = "on-obligation"
      <4>1. Decide(pdp[c]) = "allow" /\ pdp[c].obligation # "redact_pii"
        BY <3>1, <3>5 DEF shouldRedact, forced
      <4>2. pdp[c].status = 200 /\ pdp[c].verdict = "allow"
        BY <4>1 DEF Decide, ClientErrors
      <4>3. env.redact \in {"on-obligation", "on_obligation"}
        BY <3>2, <3>5 DEF RedactResponses
      <4> QED BY <4>1, <4>2, <4>3
    <3>6. CASE redactResponses = "off"
      BY <3>2, <3>6 DEF RedactResponses
    <3> QED BY <3>1, <3>2, <3>4, <3>5, <3>6 DEF shouldRedact
  <2>6. CASE Seen(c)
    <3>1. outcome[c] = Redacted(c, engine[c])
      BY <2>6 DEF Seen
    <3>2. CheckOutput(engine[c]) = "untouched"
      BY <2>2, <3>1, RedactedCases DEF Outcome
    <3>3. engine[c] \in EngineAnswers \cup {NoScan}
      BY <2>6 DEF Seen, TypeInv, ProxyTypeOK
    <3> QED BY <3>2, <3>3, UntouchedMeans
  <2> QED BY <2>2, <2>3, <2>4, <2>5, <2>6 DEF Concluded
<1> QED BY <1>1, GovernedCorrect, PTL

\* One row before each response, and the two agree.
THEOREM OneTrueRowHolds == Spec => []OneTrueRow
<1>1. TypeInv /\ Governed => OneTrueRow
  <2> SUFFICES ASSUME TypeInv, Governed, NEW c \in Calls
               PROVE  /\ Len(rows[c]) <= 1
                      /\ c \in filed => Len(rows[c]) = 1
                      /\ Answered(c) =>
                           /\ Len(rows[c]) = 1
                           /\ rows[c][1].redactions > 0 <=> answer[c].text = "masked"
                           /\ rows[c][1].verdict = "error" <=> pdp[c] = Unasked
                           /\ rows[c][1].verdict \in {"deny", "needs_approval"} <=>
                                answer[c].code \in {"policyDeny", "needsApproval",
                                                    "policyUnavailable"}
    BY DEF OneTrueRow
  <2>1. /\ rows[c] = IF pc[c] \in {"respond", "done"} THEN <<outcome[c].row>> ELSE <<>>
        /\ c \in filed => pc[c] \in {"respond", "done"}
    BY DEF Governed, Written
  <2>2. Len(rows[c]) <= 1 /\ (c \in filed => Len(rows[c]) = 1)
    BY <2>1
  <2> DEFINE Agree(o) ==
        /\ o.row.redactions > 0 <=> o.response.text = "masked"
        /\ o.row.verdict = "error" <=> pdp[c] = Unasked
        /\ o.row.verdict \in {"deny", "needs_approval"} <=>
             o.response.code \in {"policyDeny", "needsApproval", "policyUnavailable"}
  <2>3. ASSUME Answered(c) PROVE Agree(outcome[c])
    <3>1. Concluded(c)
      BY <2>3, AnsweredConcluded
    <3>2. CASE Invalid(c)
      BY <3>2 DEF Invalid, Undealt, Outcome
    <3>3. CASE Refused(c)
      BY <3>3, RefusalFields DEF Refused, Causes
    <3>4. CASE Unseen(c)
      <4>1. PICK code \in {"result", "backend", "internalError"}, text \in Texts \cup {"none"} :
              outcome[c] = Outcome(code, text, ForwardedAs(c), 0)
        BY <3>4 DEF Unseen
      <4>2. pdp[c] # Unasked
        BY <3>4 DEF Unseen, Forwarded
      <4> QED BY <4>1, <4>2, ForwardedType DEF Outcome, Texts
    <3>5. CASE Seen(c)
      <4>1. pdp[c] # Unasked /\ said[c] \in Texts
        BY <3>5 DEF Seen, Forwarded
      <4>2. outcome[c] = Redacted(c, engine[c])
        BY <3>5 DEF Seen
      <4> QED BY <4>1, <4>2, RedactedCases, ForwardedType
             DEF Outcome, Texts, responseGovernanceRefusalMessage
    <3> QED BY <3>1, <3>2, <3>3, <3>4, <3>5 DEF Concluded
  <2>4. ASSUME Answered(c)
        PROVE  rows[c] = <<outcome[c].row>> /\ answer[c] = outcome[c].response
    BY <2>4, AnsweredConcluded
  <2>5. ASSUME Answered(c) PROVE Len(rows[c]) = 1 /\ rows[c][1] = outcome[c].row
    BY <2>4, <2>5
  <2>6. ASSUME Answered(c)
        PROVE  /\ rows[c][1].redactions > 0 <=> answer[c].text = "masked"
               /\ rows[c][1].verdict = "error" <=> pdp[c] = Unasked
               /\ rows[c][1].verdict \in {"deny", "needs_approval"} <=>
                    answer[c].code \in {"policyDeny", "needsApproval", "policyUnavailable"}
    <3>1. rows[c][1] = outcome[c].row /\ answer[c] = outcome[c].response /\ Agree(outcome[c])
      BY <2>3, <2>4, <2>5, <2>6
    <3> QED BY <3>1
  <2> QED BY <2>2, <2>5, <2>6
<1> QED BY <1>1, GovernedCorrect, PTL

\* What a row says was refused has not run and will not.
THEOREM RefusedNeverRunsHolds == Spec => []RefusedNeverRuns
<1>1. TypeInv /\ Governed => RefusedNeverRuns
  <2> SUFFICES ASSUME TypeInv, Governed, NEW c \in Calls, rows[c] # <<>>,
                      rows[c][1].verdict \in {"deny", "needs_approval", "error"}
               PROVE  executed[c] = {} \/ engine[c] # Unscanned
    BY DEF RefusedNeverRuns
  <2>1. Concluded(c) /\ rows[c] = <<outcome[c].row>>
    BY AnsweredConcluded
  <2>2. outcome[c].row.verdict \in {"deny", "needs_approval", "error"}
    BY <2>1
  <2>3. ~Unseen(c)
    <3> SUFFICES ASSUME Unseen(c) PROVE FALSE
      OBVIOUS
    <3>1. PICK code, text : outcome[c] = Outcome(code, text, ForwardedAs(c), 0)
      BY DEF Unseen
    <3>2. outcome[c].row.verdict = ForwardedAs(c)
      BY <3>1 DEF Outcome
    <3> QED BY <2>2, <3>2, ForwardedType
  <2> QED BY <2>1, <2>3 DEF Concluded, Invalid, Refused, Seen, Undealt, Untouched
<1> QED BY <1>1, GovernedCorrect, PTL

\* A refusal of the policy service names its cause.
LEMMA RefusalCause ==
  ASSUME NEW r \in PdpAnswers \cup {NoVerdict, TooLarge, Unasked}
  PROVE  \/ /\ Refusal(r) = Outcome("policyDeny", "none", "deny", 0)
            /\ r.status = 200 /\ r.verdict = "deny"
         \/ Refusal(r) = Outcome("needsApproval", "none", "needs_approval", 0)
         \/ /\ Refusal(r) = Outcome("policyUnavailable", refusalMessage(r), "deny", 0)
            /\ r.verdict # "unreadable" /\ r.status \in ClientErrors
         \/ /\ Refusal(r) = Outcome("policyUnavailable", "none", "deny", 0)
            /\ r.verdict = "unreadable" \/ r.status \notin ClientErrors
<1>0. r.verdict # "clientError"
  BY AnswersAssumption DEF PdpReplies, NoVerdict, TooLarge, Unasked
<1>1. CASE Decide(r) = "deny"
  <2>1. r.status = 200 /\ r.verdict = "deny"
    BY <1>1 DEF Decide
  <2> QED BY <1>1, <2>1 DEF Refusal
<1>2. CASE Decide(r) = "needs_approval"
  BY <1>2 DEF Refusal
<1>3. CASE Decide(r) = "clientError"
  <2>1. Refusal(r) = Outcome("policyUnavailable", refusalMessage(r), "deny", 0)
    BY <1>3 DEF Refusal
  <2>2. r.verdict # "unreadable" /\ r.status \in ClientErrors
    BY <1>0, <1>3 DEF Decide
  <2> QED BY <2>1, <2>2
<1>4. CASE Decide(r) \notin {"deny", "needs_approval", "clientError"}
  <2>1. Refusal(r) = Outcome("policyUnavailable", "none", "deny", 0)
    BY <1>4 DEF Refusal
  <2>2. r.verdict = "unreadable" \/ r.status \notin ClientErrors
    BY <1>4 DEF Decide
  <2> QED BY <2>1, <2>2
<1> QED BY <1>1, <1>2, <1>3, <1>4

\* Whichever service refused, the client is not told a wrong cause; credentials are
\* always named, a limit of the policy service too, one of the engine if it comes
\* under the status of a limit.
THEOREM RefusalTellsCauseHolds == Spec => []RefusalTellsCause
<1> DEFINE Told(o, seen, p, e) ==
      LET status == IF seen THEN e.status
                    ELSE IF p.verdict = "unreadable" THEN 0 ELSE p.status IN
      /\ o.code = "policyDeny" =>
           IF seen THEN e.body # "undecodable" /\ status \in {200, 403}
           ELSE status = 200 /\ p.verdict = "deny"
      /\ o.code = "policyUnavailable" =>
           /\ o.text = "credentials" <=> status = 401
           /\ o.text = "limit" <=>
                \/ status = 429
                \/ ~seen /\ status = 400 /\ p.verdict = "limited"
<1>1. TypeInv /\ Governed => RefusalTellsCause
  <2> SUFFICES ASSUME TypeInv, Governed, NEW c \in Calls, Answered(c)
               PROVE  Told(answer[c], engine[c] # Unscanned, pdp[c], engine[c])
    BY DEF RefusalTellsCause
  <2>1. Concluded(c) /\ answer[c] = outcome[c].response
    BY AnsweredConcluded
  <2>2. CASE Invalid(c) \/ Unseen(c)
    <3>1. ASSUME NEW code, NEW text, NEW verdict,
                 outcome[c] = Outcome(code, text, verdict, 0),
                 code \notin {"policyDeny", "policyUnavailable"}
          PROVE  answer[c].code \notin {"policyDeny", "policyUnavailable"}
      BY <2>1, <3>1 DEF Outcome
    <3>2. CASE Invalid(c)
      <4>1. PICK code \in {"internalError", "invalidParams"} :
              outcome[c] = Outcome(code, "none", "error", 0)
        BY <3>2 DEF Invalid
      <4> QED BY <3>1, <4>1
    <3>3. CASE Unseen(c)
      <4>1. PICK code \in {"result", "backend", "internalError"}, text \in Texts \cup {"none"} :
              outcome[c] = Outcome(code, text, ForwardedAs(c), 0)
        BY <3>3 DEF Unseen
      <4> QED BY <3>1, <4>1
    <3> QED BY <2>2, <3>2, <3>3
  <2>3. CASE Refused(c)
    <3>1. outcome[c] = Refusal(pdp[c]) /\ engine[c] = Unscanned
      BY <2>3 DEF Refused, Untouched
    <3>p. pdp[c] \in PdpAnswers \cup {NoVerdict, TooLarge, Unasked}
      BY DEF TypeInv, ProxyTypeOK
    <3> DEFINE p == pdp[c]
               o == Refusal(p).response
               status == IF p.verdict = "unreadable" THEN 0 ELSE p.status
    <3>2. o.code = "policyDeny" => status = 200 /\ p.verdict = "deny"
      BY <3>p, RefusalCause DEF Outcome
    <3>3. o.code = "policyUnavailable" =>
            /\ o.text = "credentials" <=> status = 401
            /\ o.text = "limit" <=> status = 429 \/ (status = 400 /\ p.verdict = "limited")
      <4>1. CASE p.verdict = "unreadable"
        BY <3>p, <4>1, RefusalCause DEF Outcome
      <4>2. CASE p.verdict # "unreadable"
        BY <3>p, <4>2, RefusalCause DEF Outcome, refusalMessage, ClientErrors
      <4> QED BY <4>1, <4>2
    <3> QED BY <2>1, <3>1, <3>2, <3>3
  <2>4. CASE Seen(c)
    <3>1. /\ outcome[c] = Redacted(c, engine[c])
          /\ engine[c] # Unscanned
      BY <2>4 DEF Seen
    <3>2. Told(Redacted(c, engine[c]).response, TRUE, pdp[c], engine[c])
      <4>1. CASE CheckOutput(engine[c]) \in {"untouched", "masked"}
        BY <4>1, RedactedCases DEF Outcome
      <4>2. CASE CheckOutput(engine[c]) = "blocked"
        <5>1. engine[c].body # "undecodable" /\ engine[c].status \in {200, 403}
          BY <4>2 DEF CheckOutput
        <5> QED BY <4>2, <5>1, RedactedCases DEF Outcome
      <4>3. CASE CheckOutput(engine[c]) = "refused"
        BY <4>3, RedactedCases DEF Outcome, responseGovernanceRefusalMessage
      <4>4. CASE CheckOutput(engine[c]) \notin {"untouched", "masked", "blocked", "refused"}
        <5>1. engine[c].status \notin {401, 429}
          BY <4>4 DEF CheckOutput, ClientErrors
        <5> QED BY <4>4, <5>1, RedactedCases DEF Outcome
      <4> QED BY <4>1, <4>2, <4>3, <4>4
    <3> QED BY <2>1, <3>1, <3>2
  <2> QED BY <2>1, <2>2, <2>3, <2>4 DEF Concluded
<1> QED BY <1>1, GovernedCorrect, PTL

-----------------------------------------------------------------------------
(* How far the three disagreements between the code and its comments reach:  *)
(* nothing but the case that the runs show.                                  *)

\* A 4xx forwards only if its body has broken off and the operator has written
\* "open".
ForwardedClientErrors == \A c \in Calls :
  pdp[c].status \in ClientErrors /\ executed[c] # {} =>
    pdp[c].verdict = "unreadable" /\ env.failMode = "open"

\* With the default setting the text that the engine has not seen is that of an
\* error: a JSON-RPC error of the backend, or what it has said in an answer that
\* the proxy takes for a failure.
UnscannedResponses == \A c \in Calls :
  /\ redactResponses = "always"
  /\ answer[c].text \in {"clean", "pii"}
  /\ engine[c] = Unscanned
  => answer[c].code \in {"backend", "internalError"}

\* A declared redaction is left out only in the mode on-obligation, and only on a
\* plain allow.
UndischargedObligations == \A c \in Calls :
  /\ "field_redact" \in handshake.capabilities
  /\ pdp[c].obligation = "field_redact"
  /\ answer[c].code = "result" /\ answer[c].text # "empty"
  /\ engine[c] = Unscanned
  => redactResponses = "on-obligation" /\ Decide(pdp[c]) = "allow"

\* A 4xx that has been read to its end forwards nothing under either fail mode,
\* and none does unless the operator has chosen fail-open (proxy_client_error).
THEOREM ClientErrorConfined ==
  Spec => [](ForwardedClientErrors /\ (env.failMode # "open" => ClientErrorNeverForwards))
<1>1. GovernedExecution => ForwardedClientErrors
  BY DEF GovernedExecution, ForwardedClientErrors, SaidNo, ClientErrors
<1>2. ForwardedClientErrors => (env.failMode # "open" => ClientErrorNeverForwards)
  BY DEF ForwardedClientErrors, ClientErrorNeverForwards
<1> QED BY <1>1, <1>2, GovernedExecutionHolds, PTL

\* What a tool says reaches the client without the engine in an error, or if the
\* scan was not due.
LEMMA AnsweredUnseen ==
  ASSUME TypeInv, Configured, Governed, NEW c \in Calls, Answered(c), engine[c] = Unscanned
  PROVE  /\ redactResponses # "invalid"
         /\ answer[c].code = "result" => answer[c].text = "empty" \/ ~shouldRedact(c)
         /\ answer[c].code \notin {"result", "backend", "internalError"} =>
              answer[c].text \notin Texts
<1>1. Concluded(c) /\ answer[c] = outcome[c].response
  BY AnsweredConcluded
<1>2. redactResponses # "invalid"
  <2>1. pc[c] # "unread"
    BY DEF Answered, Governed, Written
  <2> QED BY <2>1 DEF Configured, Accepted
<1>3. CASE Invalid(c)
  BY <1>1, <1>2, <1>3 DEF Invalid, Outcome, Texts
<1>4. CASE Refused(c)
  BY <1>1, <1>2, <1>4, RefusalFields DEF Refused, Texts, Causes
<1>5. CASE Unseen(c)
  <2>1. PICK code \in {"result", "backend", "internalError"}, text \in Texts \cup {"none"} :
          /\ outcome[c] = Outcome(code, text, ForwardedAs(c), 0)
          /\ code = "result" => text = "empty" \/ ~shouldRedact(c)
    BY <1>5 DEF Unseen
  <2>2. answer[c].code = code /\ answer[c].text = text
    BY <1>1, <2>1 DEF Outcome
  <2> QED BY <1>2, <2>1, <2>2 DEF Texts
<1> QED BY <1>1, <1>3, <1>4, <1>5 DEF Concluded, Seen

\* Whatever a tool says in a result is scanned with the default setting: only an
\* error's text is not (proxy_unscanned).
THEOREM ResponseScanConfined == Spec => []UnscannedResponses
<1>1. TypeInv /\ Configured /\ Governed => UnscannedResponses
  <2> SUFFICES ASSUME TypeInv, Configured, Governed, NEW c \in Calls,
                      redactResponses = "always", answer[c].text \in {"clean", "pii"},
                      engine[c] = Unscanned
               PROVE  answer[c].code \in {"backend", "internalError"}
    BY DEF UnscannedResponses
  <2>1. Answered(c)
    BY DEF Answered, NoAnswer
  <2> QED BY <2>1, AnsweredUnseen DEF shouldRedact, Texts
<1> QED BY <1>1, GovernedCorrect, PTL

\* A declared redaction is discharged in the mode always and never declared in the
\* mode off (proxy_undischarged is the mode between).
THEOREM DischargeConfined ==
  Spec => [](/\ UndischargedObligations
             /\ redactResponses # "on-obligation" => DeclaredIsDischarged)
<1>1. TypeInv /\ Configured /\ Governed => UndischargedObligations
  <2> SUFFICES ASSUME TypeInv, Configured, Governed, NEW c \in Calls,
                      "field_redact" \in handshake.capabilities,
                      pdp[c].obligation = "field_redact",
                      answer[c].code = "result", answer[c].text # "empty",
                      engine[c] = Unscanned
               PROVE  redactResponses = "on-obligation" /\ Decide(pdp[c]) = "allow"
    BY DEF UndischargedObligations
  <2>1. Answered(c)
    BY DEF Answered, NoAnswer
  <2>2. redactResponses # "invalid" /\ ~shouldRedact(c)
    BY <2>1, AnsweredUnseen
  <2>3. redactResponses # "off"
    BY DEF Configured, buildPEPHandshake, declaredCapabilities
  <2>4. redactResponses \in {"always", "on-obligation", "off", "invalid"}
    BY DEF TypeInv, ProxyTypeOK
  <2> QED BY <2>2, <2>3, <2>4 DEF shouldRedact, forced
<1>2. UndischargedObligations => (redactResponses # "on-obligation" => DeclaredIsDischarged)
  BY DEF UndischargedObligations, DeclaredIsDischarged
<1> QED BY <1>1, <1>2, GovernedCorrect, PTL

-----------------------------------------------------------------------------
(* The configuration.                                                       *)

\* The ids of the backends, in the order configured.
BackendIds(e) ==
  [i \in DOMAIN loadBackends(e).list |-> loadBackends(e).list[i].id]

\* What Session assumes of BackendOrder, and newBackend of each backend.
Usable(e) ==
  /\ BackendIds(e) \in Seq(SlugIds) \ {<<>>}
  /\ \A i, j \in DOMAIN BackendIds(e) : BackendIds(e)[i] = BackendIds(e)[j] => i = j
  /\ \A i \in DOMAIN BackendIds(e) :
       LET b == loadBackends(e).list[i] IN b.command # b.url /\ (b.stdioOnly => b.command)

LEMMA AcceptedUsable ==
  ASSUME NEW e \in Environments, Accepted(e)
  PROVE  Usable(e)
<1> DEFINE list == loadBackends(e).list
<1>1. list \in Seq(Entries)
  BY DEF loadBackends, Environments, Sources
<1>2. BackendsAccepted(list)
  BY DEF Accepted
<1>3. BackendIds(e) = [i \in DOMAIN list |-> list[i].id]
  BY DEF BackendIds
<1> HIDE DEF list
<1>4. list # <<>> /\ DOMAIN list = 1..Len(list) /\ Len(list) \in Nat
  BY <1>1, <1>2 DEF BackendsAccepted
<1>5. ASSUME NEW i \in DOMAIN list
      PROVE  /\ list[i].id \in SlugIds
             /\ list[i].command # list[i].url
             /\ list[i].stdioOnly => list[i].command
  <2>1. list[i] \in Entries /\ validate(list[i])
    BY <1>1, <1>2, <1>4 DEF BackendsAccepted
  <2> QED BY <2>1 DEF Entries, validate, transport
<1>6. ASSUME NEW i \in DOMAIN list, NEW j \in DOMAIN list, list[i].id = list[j].id
      PROVE  i = j
  <2>1. ASSUME NEW m \in DOMAIN list, NEW n \in DOMAIN list, n < m
        PROVE  list[n].id # list[m].id
    <3>1. n \in 1..(m - 1)
      BY <1>4, <2>1
    <3> QED BY <1>2, <3>1 DEF BackendsAccepted
  <2>2. i < j \/ j < i \/ i = j
    BY <1>4
  <2> QED BY <1>6, <2>1, <2>2
<1>7. BackendIds(e) \in Seq(SlugIds)
  BY <1>3, <1>4, <1>5
<1>8. BackendIds(e) # <<>>
  BY <1>1, <1>3, <1>4
<1> QED BY <1>3, <1>5, <1>6, <1>7, <1>8 DEF Usable, list

\* Whatever the environment says, a proxy that handles a call has at least one
\* backend, no two under one id, each with exactly one transport (LoadConfig):
\* the tables that Session builds rest on it.
THEOREM ServedUsable == Spec => [](\A c \in Calls : pc[c] # "unread" => Usable(env))
<1>1. TypeInv /\ Configured => \A c \in Calls : pc[c] # "unread" => Usable(env)
  BY AcceptedUsable, AnswersAssumption DEF TypeInv, ProxyTypeOK, Configured
<1> QED BY <1>1, GovernedCorrect, PTL

-----------------------------------------------------------------------------
(* The backend.                                                             *)

\* Each step of the pipeline is one of the service or leaves it alone.
LEMMA BackendStep ==
  ASSUME [Next]_vars
  PROVE  [Backend!Next]_<<result, executed>>
<1> USE DEF cfgVars, callVars, outputVars, backendVars
<1>1. ASSUME NEW c \in Calls, NEW r \in {"answered", "unavailable", "gaveUp", "lost"},
             Backend!Return(c, r)
      PROVE  Backend!Next
  BY <1>1 DEF Backend!Next
<1>2. ASSUME NEW c \in Calls, ToolExecutes(c) PROVE Backend!Next
  BY <1>2 DEF ToolExecutes, Backend!Next, Backend!Tries
<1>3. ASSUME NEW c \in Calls,
             ToolResult(c) \/ ToolError(c) \/ ToolFails(c) \/ CallTimesOut(c)
      PROVE  Backend!Next
  BY <1>1, <1>3 DEF ToolResult, ToolError, ToolFails, CallTimesOut
<1>4. ASSUME NEW c \in Calls,
             \/ Receive(c) \/ Malformed(c) \/ Routed(c) \/ NotRouted(c)
             \/ (\E r : Enforce(c, r)) \/ (\E r : Scan(c, r)) \/ Record(c) \/ Respond(c)
      PROVE  UNCHANGED <<result, executed>>
  BY <1>4 DEF Receive, Malformed, Routed, NotRouted, Enforce, Scan, Record, Respond
<1> QED BY <1>2, <1>3, <1>4 DEF Next, Progress, PdpAnswered, RequestTooLarge,
           DecideTimesOut, EngineAnswered, ScanTimesOut, Stop, vars

\* The pipeline relies on no more than the abstract service, which StdioBackend
\* and HttpBackend provide.
THEOREM UsesBackend == Spec => Backend!Spec
<1>1. Init => Backend!Init
  BY DEF Init
<1>2. [Next]_vars => [Backend!Next]_<<result, executed>>
  BY BackendStep
<1> QED BY <1>1, <1>2, PTL DEF Spec, Backend!Spec, Backend!serviceVars

=============================================================================
