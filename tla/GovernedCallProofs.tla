-------------------------- MODULE GovernedCallProofs --------------------------
(***************************************************************************)
(* The pipeline implements GovernedCall: a refinement proof, step by step, *)
(* for any number of calls, any environment and any answers.               *)
(***************************************************************************)
EXTENDS ProxyProofs

-----------------------------------------------------------------------------
(* The invariant. *)

\* A call that the backend has answered has been executed.
Ran == \A c \in Calls : result[c] = "answered" => executed[c] # {}

CallInv == TypeInv /\ Configured /\ Governed /\ Ran

LEMMA CallInvInit == Init => CallInv
<1> SUFFICES ASSUME Init PROVE CallInv
  OBVIOUS
<1>1. TypeInv /\ Configured
  BY TypeInvInit DEF Init, Configured
<1>2. Governed
  BY DEF Init, Backend!Init, Governed, Stage, Undealt, Untouched, Written
<1>3. Ran
  BY DEF Init, Backend!Init, Ran
<1> QED BY <1>1, <1>2, <1>3 DEF CallInv

LEMMA CallInvStep ==
  ASSUME CallInv, [Next]_vars
  PROVE  CallInv'
<1>1. TypeInv' /\ Configured' /\ Governed'
  BY TypeInvStep, ConfiguredStep, GovernedStep DEF CallInv
<1>2. Ran'
  <2>1. /\ result \in [Calls -> {"none", "answered", "unavailable", "gaveUp", "lost"}]
        /\ executed \in [Calls -> SUBSET {1, 2}]
        /\ Ran
    BY DEF CallInv, TypeInv, ProxyTypeOK
  <2>2. ASSUME NEW c \in Calls, NEW n, Backend!Execute(c, n) PROVE Ran'
    BY <2>1, <2>2 DEF Ran, Backend!Execute
  <2>3. ASSUME NEW c \in Calls, NEW r, Backend!Return(c, r) PROVE Ran'
    BY <2>1, <2>3 DEF Ran, Backend!Return
  <2>4. CASE UNCHANGED <<result, executed>>
    BY <2>1, <2>4 DEF Ran
  <2> QED BY <2>2, <2>3, <2>4, BackendStep DEF Backend!Next
<1> QED BY <1>1, <1>2 DEF CallInv

-----------------------------------------------------------------------------
(* What the mapped variables say. *)

\* The opinion that stands in an answer is what Decide goes by.
LEMMA OpinionIs ==
  ASSUME NEW r \in PdpAnswers \cup {NoVerdict, TooLarge}
  PROVE  /\ OpinionIn(r) \in {"allow", "obliged", "no", "silence"}
         /\ OpinionIn(r) \in {"allow", "obliged"} <=> Decide(r) = "allow"
         /\ OpinionIn(r) = "obliged" <=> Decide(r) = "allow" /\ r.obligation = "redact_pii"
         /\ OpinionIn(r) = "silence" <=> Decide(r) \in {"error", "tripped", "other"}
<1>1. r # Unasked
  BY Distinct
<1>2. r.verdict \in {"allow", "deny", "needs_approval", "other", "limited", "undecodable",
                    "unreadable"}
  BY AnswersAssumption DEF PdpReplies, NoVerdict, TooLarge
<1>3. CASE SaidNo(r)
  <2>1. OpinionIn(r) = "no"
    BY <1>1, <1>3 DEF OpinionIn
  <2>2. Decide(r) \in {"clientError", "deny", "needs_approval"}
    BY <1>3 DEF SaidNo, Decide, ClientErrors
  <2> QED BY <2>1, <2>2
<1>4. CASE ~SaidNo(r) /\ r.status = 200 /\ r.verdict = "allow"
  <2>1. OpinionIn(r) = IF r.obligation = "redact_pii" THEN "obliged" ELSE "allow"
    BY <1>1, <1>4 DEF OpinionIn
  <2>2. Decide(r) = "allow"
    BY <1>4 DEF Decide, ClientErrors
  <2> QED BY <2>1, <2>2
<1>5. CASE ~SaidNo(r) /\ ~(r.status = 200 /\ r.verdict = "allow")
  <2>1. OpinionIn(r) = "silence"
    BY <1>1, <1>5 DEF OpinionIn
  <2>2. Decide(r) \in {"error", "tripped", "other"}
    BY <1>2, <1>5 DEF SaidNo, Decide, ClientErrors
  <2> QED BY <2>1, <2>2
<1> QED BY <1>3, <1>4, <1>5

LEMMA Unopined == OpinionIn(Unasked) = "none"
BY DEF OpinionIn

\* A call is permitted if and only if the pipeline forwards it.
LEMMA PermittedIs ==
  ASSUME CallInv, NEW c \in Calls
  PROVE  /\ pdp[c] = Unasked <=> opinion[c] = "none"
         /\ Forwarded(c) <=> Governance!Permitted(c)
         /\ Forwarded(c) => (Governance!Allowed(c) <=> ForwardedAs(c) = "allow")
<1>1. pdp[c] \in PdpAnswers \cup {NoVerdict, TooLarge, Unasked}
  BY DEF CallInv, TypeInv, ProxyTypeOK
<1>2. opinion[c] = OpinionIn(pdp[c])
  BY DEF opinion
<1>3. failOpen = lenient
  BY DEF CallInv, Configured, FailOpen, lenient
<1>4. CASE pdp[c] = Unasked
  <2>1. opinion[c] = "none"
    BY <1>2, <1>4, Unopined
  <2> QED BY <1>4, <2>1 DEF Forwarded, Governance!Permitted, Governance!Allowed
<1>5. CASE pdp[c] # Unasked
  <2>1. /\ opinion[c] \in {"allow", "obliged", "no", "silence"}
        /\ opinion[c] \in {"allow", "obliged"} <=> Decide(pdp[c]) = "allow"
        /\ opinion[c] = "silence" <=> Decide(pdp[c]) \in {"error", "tripped", "other"}
    BY <1>1, <1>2, <1>5, OpinionIs
  <2>2. Forwarded(c) <=> Governance!Permitted(c)
    BY <1>3, <1>5, <2>1 DEF Forwarded, Forwards, Governance!Permitted, Governance!Allowed
  <2>3. Governance!Allowed(c) <=> ForwardedAs(c) = "allow"
    BY <2>1 DEF Governance!Allowed, ForwardedAs, forced
  <2> QED BY <1>5, <2>1, <2>2, <2>3
<1> QED BY <1>4, <1>5
-----------------------------------------------------------------------------
(* What a concluded call is going to say, in its row and to the client. *)

Entry(verdict, redacted) == [verdict |-> verdict, redacted |-> redacted]

RowOf(c)   == RowIn(<<outcome[c].row>>)
ReplyOf(c) == ReplyIn(outcome[c].response)

LEMMA RowIs ==
  ASSUME NEW o, NEW code, NEW text, NEW verdict, NEW n, o = Outcome(code, text, verdict, n)
  PROVE  RowIn(<<o.row>>) =
           Entry(IF verdict \in {"deny", "needs_approval"} THEN "refused" ELSE verdict, n > 0)
<1>1. o.row = [verdict |-> verdict, redactions |-> n]
  BY DEF Outcome
<1>2. RowIn(<<[verdict |-> verdict, redactions |-> n]>>) =
        [verdict  |-> IF verdict \in {"deny", "needs_approval"} THEN "refused" ELSE verdict,
         redacted |-> n > 0]
  BY DEF RowIn
<1>3. RowIn(<<o.row>>) = RowIn(<<[verdict |-> verdict, redactions |-> n]>>)
  BY <1>1
<1> QED BY <1>2, <1>3 DEF Entry

LEMMA RefusedRow ==
  ASSUME NEW o, NEW code, NEW text, NEW verdict \in {"deny", "needs_approval"},
         o = Outcome(code, text, verdict, 0)
  PROVE  RowIn(<<o.row>>) = Entry("refused", FALSE)
<1>1. RowIn(<<o.row>>) = Entry("refused", 0 > 0)
  BY RowIs
<1>2. (0 > 0) = FALSE
  OBVIOUS
<1> QED BY <1>1, <1>2

LEMMA PlainRow ==
  ASSUME NEW o, NEW code, NEW text, NEW verdict, verdict \notin {"deny", "needs_approval"},
         o = Outcome(code, text, verdict, 0)
  PROVE  RowIn(<<o.row>>) = Entry(verdict, FALSE)
<1>1. RowIn(<<o.row>>) = Entry(verdict, 0 > 0)
  BY RowIs
<1>2. (0 > 0) = FALSE
  OBVIOUS
<1> QED BY <1>1, <1>2

LEMMA ForwardedRow ==
  ASSUME NEW c, NEW o, NEW code, NEW text, o = Outcome(code, text, ForwardedAs(c), 0)
  PROVE  RowIn(<<o.row>>) = Entry(ForwardedAs(c), FALSE)
<1>1. ForwardedAs(c) \notin {"deny", "needs_approval"}
  BY ForwardedType
<1> QED BY <1>1, PlainRow

LEMMA MaskedRow ==
  ASSUME NEW o, NEW code, NEW text, NEW verdict, verdict \notin {"deny", "needs_approval"},
         o = Outcome(code, text, verdict, 1)
  PROVE  RowIn(<<o.row>>) = Entry(verdict, TRUE)
<1>1. RowIn(<<o.row>>) = Entry(verdict, 1 > 0)
  BY RowIs
<1>2. (1 > 0) = TRUE
  OBVIOUS
<1> QED BY <1>1, <1>2

LEMMA ReplySays ==
  ASSUME NEW o, NEW code \in Codes, NEW text, NEW verdict, NEW n,
         o = Outcome(code, text, verdict, n)
  PROVE  ReplyIn(o.response) =
           IF code \in {"policyDeny", "needsApproval", "policyUnavailable"} THEN "refusal"
           ELSE IF code # "result" THEN "failure"
           ELSE IF text \in {"masked", "empty"} THEN text
           ELSE "said"
<1>1. o.response = [code |-> code, text |-> text]
  BY DEF Outcome
<1>2. [code |-> code, text |-> text] # NoAnswer
  BY DEF NoAnswer, Codes
<1> QED BY <1>1, <1>2 DEF ReplyIn

LEMMA RefusedSettles ==
  ASSUME NEW r
  PROVE  /\ RowIn(<<Refusal(r).row>>) = Entry("refused", FALSE)
         /\ ReplyIn(Refusal(r).response) = "refusal"
<1>1. \/ Refusal(r) = Outcome("policyDeny", "none", "deny", 0)
      \/ Refusal(r) = Outcome("needsApproval", "none", "needs_approval", 0)
      \/ \E text : Refusal(r) = Outcome("policyUnavailable", text, "deny", 0)
  BY DEF Refusal
<1>2. ASSUME NEW code \in {"policyDeny", "needsApproval", "policyUnavailable"}, NEW text,
             NEW verdict \in {"deny", "needs_approval"},
             Refusal(r) = Outcome(code, text, verdict, 0)
      PROVE  /\ RowIn(<<Refusal(r).row>>) = Entry("refused", FALSE)
             /\ ReplyIn(Refusal(r).response) = "refusal"
  <2>1. RowIn(<<Refusal(r).row>>) = Entry("refused", FALSE)
    BY <1>2, RefusedRow
  <2>2. ReplyIn(Refusal(r).response) = "refusal"
    BY <1>2, ReplySays DEF Codes
  <2> QED BY <2>1, <2>2
<1> QED BY <1>1, <1>2

\* Nothing was asked, executed or inspected.
LEMMA InvalidSays ==
  ASSUME CallInv, NEW c \in Calls, Invalid(c)
  PROVE  /\ opinion[c] = "none"
         /\ RowOf(c) = Entry("error", FALSE)
         /\ ReplyOf(c) = "failure"
<1>1. opinion[c] = "none"
  BY PermittedIs DEF Invalid, Undealt
<1>2. PICK code \in {"internalError", "invalidParams"} :
        outcome[c] = Outcome(code, "none", "error", 0)
  BY DEF Invalid
<1>3. RowIn(<<outcome[c].row>>) = Entry("error", FALSE)
  BY <1>2, PlainRow
<1>4. ReplyIn(outcome[c].response) = "failure"
  BY <1>2, ReplySays DEF Codes
<1> QED BY <1>1, <1>3, <1>4 DEF RowOf, ReplyOf

LEMMA RefusedSays ==
  ASSUME CallInv, NEW c \in Calls, Refused(c)
  PROVE  /\ opinion[c] # "none"
         /\ ~Governance!Permitted(c)
         /\ RowOf(c) = Entry("refused", FALSE)
         /\ ReplyOf(c) = "refusal"
<1>1. opinion[c] # "none" /\ ~Governance!Permitted(c)
  BY PermittedIs DEF Refused, Forwarded
<1> QED BY <1>1, RefusedSettles DEF Refused, RowOf, ReplyOf

\* A scan is left out only where it is waived.
LEMMA UnscannedWaived ==
  ASSUME CallInv, NEW c \in Calls, Forwarded(c), ~shouldRedact(c), pc[c] # "unread"
  PROVE  Governance!Waived(c)
<1>1. /\ redactResponses = RedactResponses(env)
      /\ redactResponses \in {"always", "on-obligation", "off", "invalid"}
      /\ redactResponses # "invalid"
  BY DEF CallInv, Configured, Accepted, TypeInv, ProxyTypeOK
<1>2. CASE redactResponses = "on-obligation"
  <2>1. env.redact \in {"on-obligation", "on_obligation"}
    BY <1>1, <1>2 DEF RedactResponses
  <2>2. scanning = "obliged"
    BY <2>1 DEF scanning, ScanningIn
  <2>3. Decide(pdp[c]) = "allow" /\ pdp[c].obligation # "redact_pii"
    BY <1>2 DEF shouldRedact, forced
  <2>4. pdp[c] \in PdpAnswers \cup {NoVerdict, TooLarge}
    BY DEF Forwarded, CallInv, TypeInv, ProxyTypeOK
  <2>5. OpinionIn(pdp[c]) = "allow"
    BY <2>3, <2>4, OpinionIs
  <2> QED BY <2>2, <2>5 DEF Governance!Waived, opinion
<1>3. CASE redactResponses = "off"
  <2>1. env.redact = "off"
    BY <1>1, <1>3 DEF RedactResponses
  <2> QED BY <2>1 DEF Governance!Waived, scanning, ScanningIn
<1> QED BY <1>1, <1>2, <1>3 DEF shouldRedact

LEMMA UnseenSays ==
  ASSUME CallInv, NEW c \in Calls, Unseen(c), pc[c] # "unread"
  PROVE  /\ Governance!Permitted(c)
         /\ RowOf(c) = Entry(ForwardedAs(c), FALSE)
         /\ ReplyOf(c) \in {"said", "empty", "failure"}
         /\ ReplyOf(c) # "failure" => result[c] = "answered"
         /\ ReplyOf(c) = "said" => Governance!Waived(c)
<1>1. Governance!Permitted(c)
  BY PermittedIs DEF Unseen
<1>2. PICK code \in {"result", "backend", "internalError"}, text \in Texts \cup {"none"} :
        /\ outcome[c] = Outcome(code, text, ForwardedAs(c), 0)
        /\ code = "result" => result[c] = "answered" /\ (text = "empty" \/ ~shouldRedact(c))
  BY DEF Unseen
<1>3. RowOf(c) = Entry(ForwardedAs(c), FALSE)
  BY <1>2, ForwardedRow DEF RowOf
<1>4. ReplyOf(c) = IF code # "result" THEN "failure"
                   ELSE IF text = "empty" THEN "empty" ELSE "said"
  BY <1>2, ReplySays DEF ReplyOf, Codes, Texts
<1>5. ReplyOf(c) = "said" => Governance!Waived(c)
  BY <1>2, <1>4, UnscannedWaived DEF Unseen
<1> QED BY <1>1, <1>2, <1>3, <1>4, <1>5

LEMMA SeenSays ==
  ASSUME CallInv, NEW c \in Calls, Seen(c)
  PROVE  /\ Governance!Permitted(c)
         /\ executed[c] # {}
         /\ \/ /\ RowOf(c) = Entry(ForwardedAs(c), FALSE)
               /\ ReplyOf(c) \in {"said", "empty"}
            \/ /\ RowOf(c) = Entry(ForwardedAs(c), TRUE)
               /\ ReplyOf(c) = "masked"
            \/ /\ RowOf(c) = Entry("refused", FALSE)
               /\ ReplyOf(c) = "refusal"
<1>1. Governance!Permitted(c)
  BY PermittedIs DEF Seen
<1>2. executed[c] # {}
  BY DEF Seen, CallInv, Ran
<1>3. said[c] \in Texts
  BY DEF Seen
<1>4. \/ outcome[c] = Outcome("result", said[c], ForwardedAs(c), 0)
      \/ outcome[c] = Outcome("result", "masked", ForwardedAs(c), 1)
      \/ outcome[c] = Outcome("policyDeny", "none", "deny", 0)
      \/ \E text : outcome[c] = Outcome("policyUnavailable", text, "deny", 0)
  BY RedactedCases DEF Seen
<1>5. ForwardedAs(c) \notin {"deny", "needs_approval"}
  BY ForwardedType
<1>6. CASE outcome[c] = Outcome("result", said[c], ForwardedAs(c), 0)
  <2>1. RowIn(<<outcome[c].row>>) = Entry(ForwardedAs(c), FALSE)
    BY <1>6, ForwardedRow
  <2>2. ReplyIn(outcome[c].response) \in {"said", "empty"}
    BY <1>3, <1>6, ReplySays DEF Codes, Texts
  <2> QED BY <1>1, <1>2, <2>1, <2>2 DEF RowOf, ReplyOf
<1>7. CASE outcome[c] = Outcome("result", "masked", ForwardedAs(c), 1)
  <2>1. RowIn(<<outcome[c].row>>) = Entry(ForwardedAs(c), TRUE)
    BY <1>5, <1>7, MaskedRow
  <2>2. ReplyIn(outcome[c].response) = "masked"
    BY <1>7, ReplySays DEF Codes
  <2> QED BY <1>1, <1>2, <2>1, <2>2 DEF RowOf, ReplyOf
<1>8. ASSUME NEW code \in {"policyDeny", "policyUnavailable"}, NEW text,
             outcome[c] = Outcome(code, text, "deny", 0)
      PROVE  RowOf(c) = Entry("refused", FALSE) /\ ReplyOf(c) = "refusal"
  <2>1. RowIn(<<outcome[c].row>>) = Entry("refused", FALSE)
    BY <1>8, RefusedRow
  <2>2. ReplyIn(outcome[c].response) = "refusal"
    BY <1>8, ReplySays DEF Codes
  <2> QED BY <2>1, <2>2 DEF RowOf, ReplyOf
<1> QED BY <1>1, <1>2, <1>4, <1>6, <1>7, <1>8

-----------------------------------------------------------------------------
(* Each step of the pipeline is a step of a governed call, or none. *)

\* Where the position in the code puts a call.
LEMMA PositionSays ==
  ASSUME CallInv, NEW c \in Calls
  PROVE  /\ pc[c] \in {"unread", "route", "decide"} => opinion[c] = "none"
         /\ pc[c] \notin {"respond", "done"} => log[c] = Governance!NoRow
         /\ pc[c] \in {"respond", "done"} => log[c] = RowOf(c)
         /\ reply[c] = IF pc[c] = "done" THEN ReplyOf(c) ELSE "none"
         /\ pc[c] \in {"record", "respond", "done"} => Concluded(c)
<1>1. Stage(c) /\ Written(c)
  BY DEF CallInv, Governed
<1>2. pc[c] \in {"unread", "route", "decide"} => opinion[c] = "none"
  BY <1>1, PermittedIs DEF Stage, Undealt
<1>3. log[c] = RowIn(rows[c]) /\ reply[c] = ReplyIn(answer[c])
  BY DEF log, reply
<1>4. RowIn(<<>>) = Governance!NoRow /\ ReplyIn(NoAnswer) = "none"
  BY DEF RowIn, Governance!NoRow, ReplyIn
<1> QED BY <1>1, <1>2, <1>3, <1>4 DEF Written, Stage, RowOf, ReplyOf

LEMMA ConsultStep ==
  ASSUME CallInv, NEW c \in Calls, NEW r \in PdpAnswers \cup {NoVerdict, TooLarge}, Enforce(c, r)
  PROVE  Governance!Consult(c)
<1>1. opinion[c] = "none" /\ log[c] = Governance!NoRow
  BY PositionSays DEF Enforce, At
<1>2. OpinionIn(r) \in Governance!Opinions
  BY OpinionIs DEF Governance!Opinions
<1>3. opinion' = [opinion EXCEPT ![c] = OpinionIn(r)]
  BY DEF Enforce, opinion, CallInv, TypeInv, ProxyTypeOK
<1>4. UNCHANGED <<lenient, scanning, executed, inspected, log, reply>>
  BY DEF Enforce, lenient, scanning, inspected, log, reply, cfgVars, outputVars, backendVars
<1> QED BY <1>1, <1>2, <1>3, <1>4 DEF Governance!Consult

LEMMA ExecuteStep ==
  ASSUME CallInv, NEW c \in Calls, ToolExecutes(c)
  PROVE  Governance!Execute(c)
<1>1. PICK n \in {1, 2} : Backend!Execute(c, n)
  BY DEF ToolExecutes
<1>2. result[c] # "answered"
  BY <1>1, AnswersAssumption DEF Backend!Execute
<1>3. pc[c] = "call" \/ (Unseen(c) /\ pc[c] \in {"record", "respond", "done"})
  <2>1. Stage(c) /\ (pc[c] = "call" \/ result[c] # "none")
    BY DEF CallInv, Governed, ToolExecutes
  <2>2. pc[c] \in {"unread", "route", "decide", "call", "redact", "record", "respond", "done"}
    BY DEF CallInv, TypeInv, ProxyTypeOK
  <2>3. CASE pc[c] \in {"unread", "route", "decide", "redact"}
    BY <1>2, <2>1, <2>3 DEF Stage, Undealt, Untouched
  <2>4. CASE pc[c] \in {"record", "respond", "done"}
    <3>1. Concluded(c) /\ result[c] # "none"
      BY <2>1, <2>4 DEF Stage
    <3>2. ~Invalid(c) /\ ~Refused(c)
      BY <3>1 DEF Invalid, Undealt, Refused, Untouched
    <3>3. ~Seen(c)
      BY <1>2 DEF Seen
    <3> QED BY <2>4, <3>1, <3>2, <3>3 DEF Concluded
  <2> QED BY <2>2, <2>3, <2>4
<1>4. Forwarded(c) /\ engine[c] = Unscanned
  BY <1>3 DEF Unseen, CallInv, Governed, Stage
<1>5. Governance!Permitted(c) /\ c \notin inspected
  BY <1>4, PermittedIs DEF inspected
<1>6. log[c].verdict \in {"none", "allow", "allow_failopen"}
  <2>1. CASE pc[c] \notin {"respond", "done"}
    BY <2>1, PositionSays DEF Governance!NoRow
  <2>2. CASE pc[c] \in {"respond", "done"}
    <3>1. log[c] = Entry(ForwardedAs(c), FALSE)
      BY <1>3, <2>2, PositionSays, UnseenSays
    <3> QED BY <3>1, ForwardedType DEF Entry
  <2> QED BY <2>1, <2>2
<1>7. reply[c] \notin Governance!Results
  <2>1. CASE pc[c] # "done"
    BY <2>1, PositionSays DEF Governance!Results
  <2>2. CASE pc[c] = "done"
    <3>1. reply[c] = "failure"
      BY <1>2, <1>3, <2>2, PositionSays, UnseenSays
    <3> QED BY <3>1 DEF Governance!Results
  <2> QED BY <2>1, <2>2
<1>8. n \notin executed[c] /\ executed' = [executed EXCEPT ![c] = @ \cup {n}]
  BY <1>1 DEF Backend!Execute
<1>9. UNCHANGED <<lenient, scanning, opinion, inspected, log, reply>>
  BY DEF ToolExecutes, lenient, scanning, opinion, inspected, log, reply, cfgVars, callVars,
     outputVars
<1> QED BY <1>5, <1>6, <1>7, <1>8, <1>9 DEF Governance!Execute

LEMMA InspectStep ==
  ASSUME CallInv, NEW c \in Calls, NEW r \in EngineAnswers \cup {NoScan}, Scan(c, r)
  PROVE  Governance!Inspect(c)
<1>1. pc[c] = "redact"
  BY DEF Scan, At
<1>2. Forwarded(c) /\ engine[c] = Unscanned /\ result[c] = "answered"
  BY <1>1 DEF CallInv, Governed, Stage
<1>3. Governance!Permitted(c) /\ executed[c] # {} /\ c \notin inspected
  BY <1>2, PermittedIs DEF inspected, CallInv, Ran
<1>4. log[c] = Governance!NoRow
  BY <1>1, PositionSays
<1>5. inspected' = inspected \cup {c}
  <2>1. engine' = [engine EXCEPT ![c] = r] /\ r # Unscanned
    BY Distinct DEF Scan
  <2>2. engine \in [Calls -> EngineAnswers \cup {NoScan, Unscanned}]
    BY DEF CallInv, TypeInv, ProxyTypeOK
  <2> QED BY <2>1, <2>2 DEF inspected
<1>6. UNCHANGED <<lenient, scanning, opinion, executed, log, reply>>
  BY DEF Scan, lenient, scanning, opinion, log, reply, cfgVars, outputVars, backendVars
<1> QED BY <1>3, <1>4, <1>5, <1>6 DEF Governance!Inspect

LEMMA RecordStep ==
  ASSUME CallInv, NEW c \in Calls, Record(c)
  PROVE  Governance!Record(c)
<1>1. pc[c] = "record"
  BY DEF Record, At
<1>2. log[c] = Governance!NoRow /\ Concluded(c)
  BY <1>1, PositionSays
<1>3. log' = [log EXCEPT ![c] = RowOf(c)]
  <2>1. rows[c] = <<>> /\ rows' = [rows EXCEPT ![c] = Append(@, outcome[c].row)]
    BY <1>1 DEF Record, CallInv, Governed, Written
  <2>2. rows \in [Calls -> Seq(Rows)]
    BY DEF CallInv, TypeInv, ProxyTypeOK
  <2>3. rows' = [rows EXCEPT ![c] = <<outcome[c].row>>]
    BY <2>1, <2>2
  <2> QED BY <2>2, <2>3 DEF log, RowOf
<1>4. \E v \in {"error", "allow", "allow_failopen", "refused"}, redacted \in BOOLEAN :
        /\ Governance!Verdict(c, v)
        /\ redacted => c \in inspected /\ v \in {"allow", "allow_failopen"}
        /\ RowOf(c) = Entry(v, redacted)
  <2>1. CASE Invalid(c)
    <3>1. RowOf(c) = Entry("error", FALSE) /\ Governance!Verdict(c, "error")
      BY <2>1, InvalidSays DEF Governance!Verdict
    <3> QED BY <3>1
  <2>2. CASE Refused(c)
    <3>1. RowOf(c) = Entry("refused", FALSE) /\ Governance!Verdict(c, "refused")
      BY <2>2, RefusedSays DEF Governance!Verdict
    <3> QED BY <3>1
  <2>3. ASSUME Forwarded(c) PROVE Governance!Verdict(c, ForwardedAs(c))
    BY <2>3, PermittedIs, ForwardedType DEF Governance!Verdict
  <2>4. ForwardedAs(c) \in {"allow", "allow_failopen"}
    BY ForwardedType
  <2>5. CASE Unseen(c)
    <3>1. RowOf(c) = Entry(ForwardedAs(c), FALSE) /\ Governance!Verdict(c, ForwardedAs(c))
      BY <1>1, <2>3, <2>5, UnseenSays DEF Unseen
    <3> QED BY <2>4, <3>1
  <2>6. CASE Seen(c)
    <3>1. c \in inspected /\ Governance!Verdict(c, ForwardedAs(c))
      BY <2>3, <2>6 DEF Seen, inspected
    <3>2. Governance!Verdict(c, "refused")
      BY <2>6, <3>1, PermittedIs DEF Seen, Forwarded, Governance!Verdict
    <3>3. RowOf(c) \in {Entry(ForwardedAs(c), FALSE), Entry(ForwardedAs(c), TRUE),
                        Entry("refused", FALSE)}
      BY <2>6, SeenSays
    <3> QED BY <2>4, <3>1, <3>2, <3>3
  <2> QED BY <1>2, <2>1, <2>2, <2>5, <2>6 DEF Concluded
<1>5. UNCHANGED <<lenient, scanning, opinion, executed, inspected, reply>>
  BY DEF Record, lenient, scanning, opinion, inspected, reply, cfgVars, callVars, backendVars
<1> QED BY <1>2, <1>3, <1>4, <1>5 DEF Governance!Record, Entry

LEMMA ReplyStep ==
  ASSUME CallInv, NEW c \in Calls, Respond(c)
  PROVE  Governance!Reply(c)
<1>1. pc[c] = "respond"
  BY DEF Respond, At
<1>2. log[c] = RowOf(c) /\ reply[c] = "none" /\ Concluded(c)
  BY <1>1, PositionSays
<1>3. reply' = [reply EXCEPT ![c] = ReplyOf(c)]
  <2>1. answer' = [answer EXCEPT ![c] = outcome[c].response]
    BY DEF Respond
  <2>2. answer \in [Calls -> Responses \cup {NoAnswer}]
    BY DEF CallInv, TypeInv, ProxyTypeOK
  <2> QED BY <2>1, <2>2 DEF reply, ReplyOf
<1> DEFINE Agrees(w, r) ==
      /\ w # Governance!NoRow
      /\ r \in Governance!Replies
      /\ r = "refusal" <=> w.verdict = "refused"
      /\ r = "masked" <=> w.redacted
      /\ r \in Governance!Results => executed[c] # {} /\ w.verdict # "error"
      /\ r = "said" => c \in inspected \/ Governance!Waived(c)
      /\ r = "failure" => c \notin inspected
<1>4. Agrees(RowOf(c), ReplyOf(c))
  <2> USE DEF Entry, Governance!NoRow, Governance!Replies, Governance!Results
  <2>1. CASE Invalid(c)
    <3>1. c \notin inspected
      BY <2>1 DEF Invalid, Undealt, Untouched, inspected
    <3> QED BY <2>1, <3>1, InvalidSays
  <2>2. CASE Refused(c)
    BY <2>2, RefusedSays
  <2>3. CASE Unseen(c)
    <3>1. c \notin inspected
      BY <2>3 DEF Unseen, inspected
    <3>2. ForwardedAs(c) \in {"allow", "allow_failopen"}
      BY ForwardedType
    <3>3. ReplyOf(c) # "failure" => executed[c] # {}
      BY <1>1, <2>3, UnseenSays DEF CallInv, Ran
    <3> QED BY <1>1, <2>3, <3>1, <3>2, <3>3, UnseenSays
  <2>4. CASE Seen(c)
    <3>1. c \in inspected
      BY <2>4 DEF Seen, inspected
    <3>2. ForwardedAs(c) \in {"allow", "allow_failopen"}
      BY ForwardedType
    <3> QED BY <2>4, <3>1, <3>2, SeenSays
  <2> QED BY <1>2, <2>1, <2>2, <2>3, <2>4 DEF Concluded
<1>5. UNCHANGED <<lenient, scanning, opinion, executed, inspected, log>>
  BY DEF Respond, lenient, scanning, opinion, inspected, log, cfgVars, callVars, backendVars
<1> QED BY <1>2, <1>3, <1>4, <1>5 DEF Governance!Reply

LEMMA GovernanceStep ==
  ASSUME CallInv, [Next]_vars
  PROVE  [Governance!Next]_(Governance!govVars)
<1> USE DEF cfgVars, callVars, outputVars, backendVars
<1>1. ASSUME NEW c \in Calls, NEW r \in PdpAnswers \cup {NoVerdict, TooLarge}, Enforce(c, r)
      PROVE  Governance!Next
  BY <1>1, ConsultStep DEF Governance!Next
<1>2. ASSUME NEW c \in Calls, ToolExecutes(c) PROVE Governance!Next
  BY <1>2, ExecuteStep DEF Governance!Next
<1>3. ASSUME NEW c \in Calls, NEW r \in EngineAnswers \cup {NoScan}, Scan(c, r)
      PROVE  Governance!Next
  BY <1>3, InspectStep DEF Governance!Next
<1>4. ASSUME NEW c \in Calls, Record(c) PROVE Governance!Next
  BY <1>4, RecordStep DEF Governance!Next
<1>5. ASSUME NEW c \in Calls, Respond(c) PROVE Governance!Next
  BY <1>5, ReplyStep DEF Governance!Next
<1>6. ASSUME UNCHANGED <<env, pdp, engine, rows, answer, executed>>
      PROVE  UNCHANGED Governance!govVars
  BY <1>6 DEF Governance!govVars, lenient, scanning, opinion, inspected, log, reply
<1>7. ASSUME NEW c \in Calls,
             \/ Receive(c) \/ Malformed(c) \/ Routed(c) \/ NotRouted(c)
             \/ ToolResult(c) \/ ToolError(c) \/ ToolFails(c) \/ CallTimesOut(c)
      PROVE  UNCHANGED <<env, pdp, engine, rows, answer, executed>>
  BY <1>7 DEF Receive, Malformed, Routed, NotRouted, ToolResult, ToolError, ToolFails,
     CallTimesOut, BackendError, Backend!Return
<1>8. CASE Stop \/ UNCHANGED vars
  BY <1>6, <1>8 DEF Stop, vars
<1> QED
  BY <1>1, <1>2, <1>3, <1>4, <1>5, <1>6, <1>7, <1>8
  DEF Next, Progress, PdpAnswered, RequestTooLarge, DecideTimesOut, EngineAnswered, ScanTimesOut

\* Refinement: whatever the services, the engine and the backend do and whenever
\* the proxy ends, a tools/call is consulted on, executed, inspected, recorded and
\* answered in that order, each by what came before it, and each but the execution
\* at most once.
THEOREM GovernedSpecHolds == Spec => GovernedSpec
<1>1. Init => Governance!Init
  <2> SUFFICES ASSUME Init PROVE Governance!Init
    OBVIOUS
  <2>1. lenient \in BOOLEAN /\ scanning \in {"always", "obliged", "never"}
    BY DEF lenient, scanning, ScanningIn
  <2>2. opinion = [c \in Calls |-> "none"]
    BY Unopined DEF Init, opinion
  <2>3. executed = [c \in Calls |-> {}]
    BY DEF Init, Backend!Init
  <2>4. inspected = {}
    BY DEF Init, inspected
  <2>5. log = [c \in Calls |-> Governance!NoRow]
    BY DEF Init, log, RowIn, Governance!NoRow
  <2>6. reply = [c \in Calls |-> "none"]
    BY DEF Init, reply, ReplyIn
  <2> QED BY <2>1, <2>2, <2>3, <2>4, <2>5, <2>6 DEF Governance!Init
<1>2. CallInv /\ [Next]_vars => CallInv'
  BY CallInvStep
<1>3. CallInv /\ [Next]_vars => [Governance!Next]_(Governance!govVars)
  BY GovernanceStep
<1> QED BY <1>1, <1>2, <1>3, CallInvInit, PTL DEF Spec, GovernedSpec, Governance!Spec

=============================================================================
