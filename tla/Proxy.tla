-------------------------------- MODULE Proxy --------------------------------
(***************************************************************************)
(* The path of a tools/call through the proxy: Serve reads it, enforce     *)
(* asks the policy service (decide) and the backend, forwardAndRedact has  *)
(* the response engine (check-output) look at the result, HandleToolsCall  *)
(* writes the audit row, Serve writes the response (main.go, proxy.go,     *)
(* decide.go, checkoutput.go, audit.go).                                   *)
(*                                                                         *)
(* Serve handles one message at a time.  What runs beside it is the world: *)
(* the policy service, the engine and the backend answer what they like,   *)
(* late or never, a tool may execute after its caller has given up, and    *)
(* the proxy may end at any moment.  The backend is module BackendService, *)
(* which StdioBackend and HttpBackend implement.                           *)
(*                                                                         *)
(* An HTTP exchange is its status and what the proxy reads in the body.    *)
(* Status 429 stands for 402 as well, 400 for every 4xx not listed and 500 *)
(* for every other status not listed; 0 is no answer: a transport error, a *)
(* timeout or a cancelled context.  Both services may answer with the      *)
(* envelope of a limit (limit_type), under any status.                     *)
(***************************************************************************)
EXTENDS Integers, Sequences, FiniteSets, Config

CONSTANTS
  Settings,       \* the environments that the operator may have set
  Calls,          \* tools/call messages
  PdpAnswers,     \* what the policy service may answer
  EngineAnswers,  \* what the response engine may answer
  LateResults     \* see BackendService

PdpReplies ==
  [status : {200, 400, 401, 429, 500, 503},
   verdict : {"allow", "deny", "needs_approval", "other",
              "limited",      \* no decision but the envelope of a limit
              "undecodable",  \* the body does not decode
              "unreadable"},  \* the connection breaks before its end
   obligation : {"none", "redact_pii", "field_redact"}]  \* the one attached

EngineReplies ==
  [status : {200, 400, 401, 403, 429, 500},
   body : {"undecodable",
           "unsaid",      \* no field allowed
           "limited",     \* no field allowed, the envelope of a limit
           "blocked",     \* allowed: false
           "untouched",   \* allowed, and no redacted_data or an empty one
           "masked",      \* allowed, redacted_data is a JSON text
           "broken",      \* allowed, redacted_data is a text that is not JSON
           "nonString"}]  \* allowed, redacted_data is not a string

ASSUME AnswersAssumption ==
  /\ PdpAnswers \subseteq PdpReplies
  /\ EngineAnswers \subseteq EngineReplies
  /\ Settings \subseteq Environments
  /\ LateResults \subseteq {"gaveUp", "lost"}

NoVerdict == [status |-> 0, verdict |-> "undecodable", obligation |-> "none"]
TooLarge  == [NoVerdict EXCEPT !.status = -1]   \* the request was not sent
Unasked   == [NoVerdict EXCEPT !.status = -2]

NoScan    == [status |-> 0, body |-> "undecodable"]
Unscanned == [NoScan EXCEPT !.status = -2]

\* What a tool says, in a result or in a JSON-RPC error.
Texts == {"clean", "pii", "empty"}

VARIABLES
  env,              \* the environment variables
  failOpen,         \* cfg.FailOpen
  redactResponses,  \* cfg.RedactResponses
  handshake,        \* cfg.PEPHandshake
  serving,          \* Serve has not returned and the process is up
  pc,               \* pc[c]: where call c stands
  pdp,              \* pdp[c]: what the policy service answered
  said,             \* said[c]: the text of the tool's result
  engine,           \* engine[c]: what the response engine answered
  outcome,          \* outcome[c]: the callOutcome of c
  rows,             \* rows[c]: audit rows written for c
  filed,            \* the calls whose row is in the audit file as well
  answer,           \* answer[c]: the response written to stdout
  result,           \* result[c]: how the backend's CallTool returned
  executed          \* executed[c]: the tries of c the tool has executed

cfgVars     == <<env, failOpen, redactResponses, handshake>>
callVars    == <<pdp, said, engine, outcome>>
outputVars  == <<rows, filed, answer>>
backendVars == <<result, executed>>
vars        == <<cfgVars, serving, pc, callVars, outputVars, backendVars>>

Backend == INSTANCE BackendService WITH Callers <- Calls, Initializers <- {}

Codes == {"result", "backend", "policyDeny", "needsApproval",
          "policyUnavailable", "internalError", "invalidParams"}

\* What the message of a refusal tells the user to be the cause.
Causes == {"credentials", "limit", "other"}

Responses == [code : Codes, text : Texts \cup {"none", "masked"} \cup Causes]
NoAnswer  == [code |-> "none", text |-> "none"]

Rows == [verdict : {"allow", "allow_failopen", "deny", "needs_approval", "error"},
         redactions : {0, 1}]   \* 1 stands for any positive count

Outcomes  == [response : Responses, row : Rows]
Undecided == [response |-> NoAnswer, row |-> [verdict |-> "none", redactions |-> 0]]

ProxyTypeOK ==
  /\ env \in Settings
  /\ failOpen \in BOOLEAN
  /\ redactResponses \in {"always", "on-obligation", "off", "invalid"}
  /\ handshake \in [sent : BOOLEAN, capabilities : SUBSET {"field_redact"}]
  /\ serving \in BOOLEAN
  /\ pc \in [Calls -> {"unread", "route", "decide", "call", "redact", "record",
                       "respond", "done"}]
  /\ pdp \in [Calls -> PdpAnswers \cup {NoVerdict, TooLarge, Unasked}]
  /\ said \in [Calls -> Texts \cup {"none"}]
  /\ engine \in [Calls -> EngineAnswers \cup {NoScan, Unscanned}]
  /\ outcome \in [Calls -> Outcomes \cup {Undecided}]
  /\ rows \in [Calls -> Seq(Rows)]
  /\ filed \in SUBSET Calls
  /\ answer \in [Calls -> Responses \cup {NoAnswer}]
  /\ result \in [Calls -> {"none", "answered", "unavailable", "gaveUp", "lost"}]
  /\ executed \in [Calls -> SUBSET {1, 2}]

\* main: a configuration that is not accepted ends the process.
Init ==
  /\ env \in Settings
  /\ failOpen = FailOpen(env)
  /\ redactResponses = RedactResponses(env)
  /\ handshake = buildPEPHandshake(env)
  /\ serving = Accepted(env)
  /\ pc = [c \in Calls |-> "unread"]
  /\ pdp = [c \in Calls |-> Unasked]
  /\ said = [c \in Calls |-> "none"]
  /\ engine = [c \in Calls |-> Unscanned]
  /\ outcome = [c \in Calls |-> Undecided]
  /\ rows = [c \in Calls |-> <<>>]
  /\ filed = {}
  /\ answer = [c \in Calls |-> NoAnswer]
  /\ Backend!Init

At(c, label)   == serving /\ pc[c] = label
GoTo(c, label) == pc' = [pc EXCEPT ![c] = label]

\* A callOutcome: what is answered and what the audit row says.
Outcome(code, text, verdict, redactions) ==
  [response |-> [code |-> code, text |-> text],
   row      |-> [verdict |-> verdict, redactions |-> redactions]]

Conclude(c, o) ==
  /\ outcome' = [outcome EXCEPT ![c] = o]
  /\ GoTo(c, "record")

-----------------------------------------------------------------------------
(* Serve reads a message; handleToolsCallMessage and lookupRoute. *)

Idle == \A c \in Calls : pc[c] \in {"unread", "done"}

Receive(c) ==
  /\ At(c, "unread")
  /\ Idle
  /\ GoTo(c, "route")
  /\ UNCHANGED <<cfgVars, serving, callVars, outputVars, backendVars>>

\* The parameters do not parse, or they name no tool.
Malformed(c) ==
  /\ At(c, "unread")
  /\ Idle
  /\ Conclude(c, Outcome("invalidParams", "none", "error", 0))
  /\ UNCHANGED <<cfgVars, serving, pdp, said, engine, outputVars, backendVars>>

Routed(c) ==
  /\ At(c, "route")
  /\ GoTo(c, "decide")
  /\ UNCHANGED <<cfgVars, serving, callVars, outputVars, backendVars>>

\* Aggregation fails, or no backend exposes a tool of that name.
NotRouted(c) ==
  /\ At(c, "route")
  /\ \E code \in {"internalError", "invalidParams"} :
       Conclude(c, Outcome(code, "none", "error", 0))
  /\ UNCHANGED <<cfgVars, serving, pdp, said, engine, outputVars, backendVars>>

-----------------------------------------------------------------------------
(* Decide and the verdict switch of enforce. *)

ClientErrors == {400, 401, 429}

\* Mutant: a 4xx is an error like any other.
DecideLumps4xx(r) ==
  IF r.status \notin {200, 503} \/ r.verdict \in {"undecodable", "unreadable"} THEN "error"
  ELSE IF r.status = 503 THEN "tripped"
  ELSE IF r.verdict = "limited" THEN "other"
  ELSE r.verdict

\* Mutant: a body that says deny is a deny, whatever the status.
DecideByBody(r) ==
  IF r.verdict \in {"unreadable", "undecodable"} \/ r.status = 500 THEN "error"
  ELSE IF r.status = 503 THEN "tripped"
  ELSE IF r.verdict = "limited" THEN "other"
  ELSE r.verdict

\* What Decide makes of the policy service's answer.
Decide(r) ==
  IF r.verdict = "unreadable" THEN "error"
  ELSE IF r.status \in ClientErrors THEN "clientError"
  ELSE IF r.status \notin {200, 503} \/ r.verdict = "undecodable" THEN "error"
  ELSE IF r.status = 503 THEN "tripped"
  ELSE IF r.verdict = "limited" THEN "other"
  ELSE r.verdict

\* The cause that is named for a 4xx of the policy service.
refusalMessage(r) ==
  CASE r.status = 401 -> "credentials"
    [] r.status # 401 /\ (r.status = 429 \/ r.verdict = "limited") -> "limit"
    [] OTHER -> "other"

Forwards(d) ==
  \/ d = "allow"
  \/ failOpen /\ d \in {"error", "tripped", "other"}

\* Mutant: an unknown verdict goes into the audit row as it came.
RefusalUnknownKept(r) ==
  CASE Decide(r) = "deny" -> Outcome("policyDeny", "none", "deny", 0)
    [] Decide(r) = "other" -> Outcome("policyUnavailable", "none", "other", 0)
    [] OTHER -> Outcome("policyUnavailable", "none", "deny", 0)

Refusal(r) ==
  CASE Decide(r) = "deny" -> Outcome("policyDeny", "none", "deny", 0)
    [] Decide(r) = "needs_approval" -> Outcome("needsApproval", "none", "needs_approval", 0)
    [] Decide(r) = "clientError" ->
         Outcome("policyUnavailable", refusalMessage(r), "deny", 0)
    [] OTHER -> Outcome("policyUnavailable", "none", "deny", 0)

\* enforce, once Decide has returned on answer r.
Enforce(c, r) ==
  /\ At(c, "decide")
  /\ pdp' = [pdp EXCEPT ![c] = r]
  /\ IF Forwards(Decide(r))
     THEN GoTo(c, "call") /\ UNCHANGED outcome
     ELSE Conclude(c, Refusal(r))
  /\ UNCHANGED <<cfgVars, serving, said, engine, outputVars, backendVars>>

PdpAnswered(c) == \E r \in PdpAnswers : Enforce(c, r)

\* The request exceeds maxDecideRequestBytes.
RequestTooLarge(c) == Enforce(c, TooLarge)

\* Mutant: the HTTP client of the policy service has no timeout.
NeverTimesOut(c) == FALSE

DecideTimesOut(c) == Enforce(c, NoVerdict)

-----------------------------------------------------------------------------
(* forwardAndRedact, up to the return of CallTool. *)

\* The argument forced: the call is forwarded without an allow.
forced(c) == Decide(pdp[c]) # "allow"

\* The verdict of the audit row of a call that is forwarded.
ForwardedAs(c) == IF forced(c) THEN "allow_failopen" ELSE "allow"

\* Mutant: an obligation is needed for a forced forward as well.
shouldRedactIfObliged(c) ==
  \/ redactResponses = "always"
  \/ redactResponses = "on-obligation" /\ pdp[c].obligation = "redact_pii"

shouldRedact(c) ==
  \/ redactResponses = "always"
  \/ redactResponses = "on-obligation" /\ (forced(c) \/ pdp[c].obligation = "redact_pii")

\* The backend executes a call handed to it, once or twice, maybe late.
ToolExecutes(c) ==
  /\ pc[c] = "call" \/ result[c] # "none"
  /\ \E n \in {1, 2} : Backend!Execute(c, n)
  /\ UNCHANGED <<cfgVars, serving, pc, callVars, outputVars>>

\* A result.  An empty one is not scanned even if it should be.
ToolResult(c) ==
  /\ At(c, "call")
  /\ Backend!Return(c, "answered")
  /\ \E text \in Texts :
       /\ said' = [said EXCEPT ![c] = text]
       /\ IF shouldRedact(c) /\ text # "empty"
          THEN GoTo(c, "redact") /\ UNCHANGED outcome
          ELSE Conclude(c, Outcome("result", text, ForwardedAs(c), 0))
  /\ UNCHANGED <<cfgVars, serving, pdp, engine, outputVars>>

\* A JSON-RPC error of the backend, to the call or, if it had to be connected,
\* to the handshake: code and message are passed on.
ToolError(c) ==
  /\ At(c, "call")
  /\ Backend!Return(c, "answered") \/ Backend!Return(c, "unavailable")
  /\ \E text \in Texts : Conclude(c, Outcome("backend", text, ForwardedAs(c), 0))
  /\ UNCHANGED <<cfgVars, serving, pdp, said, engine, outputVars>>

\* Any other error of CallTool.  Its text goes into the message, and it may hold
\* what the backend has said: the body of an HTTP answer other than 200.
BackendError(c, verdict) ==
  \E text \in Texts \cup {"none"} :
    Conclude(c, Outcome("internalError", text, verdict, 0))

\* The backend cannot be reached, or what came back is no answer.
ToolFails(c) ==
  /\ At(c, "call")
  /\ Backend!Return(c, "unavailable") \/ Backend!Return(c, "lost")
  /\ BackendError(c, ForwardedAs(c))
  /\ UNCHANGED <<cfgVars, serving, pdp, said, engine, outputVars>>

\* Mutant: the audit row says that the call was refused.
CallTimesOutAsDeny(c) ==
  /\ At(c, "call")
  /\ Backend!Return(c, "gaveUp")
  /\ BackendError(c, "deny")
  /\ UNCHANGED <<cfgVars, serving, pdp, said, engine, outputVars>>

\* callCtx has run out, after cfg.BackendTimeout or its default, and the backend
\* gives the call back for it.
CallTimesOut(c) ==
  /\ At(c, "call")
  /\ Backend!Return(c, "gaveUp")
  /\ BackendError(c, ForwardedAs(c))
  /\ UNCHANGED <<cfgVars, serving, pdp, said, engine, outputVars>>

-----------------------------------------------------------------------------
(* CheckOutput, redactResponse and redactionFailClosed. *)

\* What CheckOutput and redactResponse make of the engine's answer.
CheckOutput(r) ==
  IF r.status = 200 THEN
    CASE r.body \in {"untouched", "masked"} -> r.body
      [] r.body \in {"blocked", "unsaid", "limited"} -> "blocked"
      [] OTHER -> "unavailable"
  ELSE IF r.status = 403 /\ r.body = "blocked" THEN "blocked"
  ELSE IF r.status \in ClientErrors \cup {403} THEN "refused"
  ELSE "unavailable"

\* The cause that is named for a 4xx of the engine.  The body is not looked at: it
\* may repeat the result that is being kept back.
responseGovernanceRefusalMessage(r) ==
  CASE r.status = 401 -> "credentials"
    [] r.status = 429 -> "limit"
    [] OTHER -> "other"

\* Mutant: the verdict of the audit row is left as it was.
WithheldAsAllow(c, r) ==
  Outcome(IF CheckOutput(r) = "blocked" THEN "policyDeny" ELSE "policyUnavailable",
          "none", ForwardedAs(c), 0)

\* redactionFailClosed: the tool has executed, its result is kept back.
Withheld(c, r) ==
  CASE CheckOutput(r) = "blocked" -> Outcome("policyDeny", "none", "deny", 0)
    [] CheckOutput(r) = "refused" ->
         Outcome("policyUnavailable", responseGovernanceRefusalMessage(r), "deny", 0)
    [] OTHER -> Outcome("policyUnavailable", "none", "deny", 0)

\* What becomes of the tool's result, given the engine's answer.
Redacted(c, r) ==
  CASE CheckOutput(r) = "untouched" -> Outcome("result", said[c], ForwardedAs(c), 0)
    [] CheckOutput(r) = "masked" -> Outcome("result", "masked", ForwardedAs(c), 1)
    [] OTHER -> Withheld(c, r)

Scan(c, r) ==
  /\ At(c, "redact")
  /\ engine' = [engine EXCEPT ![c] = r]
  /\ Conclude(c, Redacted(c, r))
  /\ UNCHANGED <<cfgVars, serving, pdp, said, outputVars, backendVars>>

EngineAnswered(c) == \E r \in EngineAnswers : Scan(c, r)

\* No answer in time, or a result too large to be sent.
ScanTimesOut(c) == Scan(c, NoScan)

-----------------------------------------------------------------------------
(* The audit row and the response. *)

\* Record: the row goes to stderr, and to the file if there is one and it can
\* be written.
Record(c) ==
  /\ At(c, "record")
  /\ rows' = [rows EXCEPT ![c] = Append(@, outcome[c].row)]
  /\ filed' \in {filed, filed \cup {c}}
  /\ GoTo(c, "respond")
  /\ UNCHANGED <<cfgVars, serving, callVars, answer, backendVars>>

\* Mutant: the response does not wait for the row.
RespondBeforeRow(c) ==
  /\ At(c, "record") \/ At(c, "respond")
  /\ answer' = [answer EXCEPT ![c] = outcome[c].response]
  /\ GoTo(c, "done")
  /\ UNCHANGED <<cfgVars, serving, callVars, rows, filed, backendVars>>

Respond(c) ==
  /\ At(c, "respond")
  /\ answer' = [answer EXCEPT ![c] = outcome[c].response]
  /\ GoTo(c, "done")
  /\ UNCHANGED <<cfgVars, serving, callVars, rows, filed, backendVars>>

\* Serve returns: end of input, a cancelled context seen at the next line, an
\* error on stdout; or the process is killed, at any moment.
Stop ==
  /\ serving
  /\ serving' = FALSE
  /\ UNCHANGED <<cfgVars, pc, callVars, outputVars, backendVars>>

-----------------------------------------------------------------------------

\* What the proxy does by itself in the end, whoever does not answer.  That a
\* backend gives a call back at its deadline is not among it.
Progress(c) ==
  \/ Routed(c)
  \/ NotRouted(c)
  \/ DecideTimesOut(c)
  \/ ScanTimesOut(c)
  \/ Record(c)
  \/ Respond(c)

Next ==
  \/ \E c \in Calls :
       \/ Receive(c)
       \/ Malformed(c)
       \/ PdpAnswered(c)
       \/ RequestTooLarge(c)
       \/ ToolExecutes(c)
       \/ ToolResult(c)
       \/ ToolError(c)
       \/ ToolFails(c)
       \/ CallTimesOut(c)
       \/ EngineAnswered(c)
       \/ Progress(c)
  \/ Stop

Spec == Init /\ [][Next]_vars

\* The goroutine of Serve runs, and the timeouts of the HTTP clients end the waits
\* for the policy service and the engine.
FairSpec == Spec /\ \A c \in Calls : WF_vars(Progress(c))

-----------------------------------------------------------------------------
(* Properties *)

Answered(c) == answer[c] # NoAnswer

\* The policy service has said no: a verdict to deny or to hold (HTTP 200), or
\* a 4xx, which no fail mode overrides once it has been read to its end.
SaidNo(r) ==
  \/ r.status \in ClientErrors /\ r.verdict # "unreadable"
  \/ r.status = 200 /\ r.verdict \in {"deny", "needs_approval"}

\* A tool executes, however late, only for a call that the policy service has
\* allowed or, if the operator has written "open", has not said no to (README,
\* "What it enforces": "the backend is never called", "never forwarded, under
\* either fail mode").
GovernedExecution ==
  \A c \in Calls : executed[c] # {} =>
    \/ pdp[c].status = 200 /\ pdp[c].verdict = "allow"
    \/ env.failMode = "open" /\ pdp[c] # Unasked /\ ~SaidNo(pdp[c])

\* Personal data in a result (for errors see EveryResponseScanned) reaches the
\* client only if the engine has seen it and left it, or the operator has waived
\* the scan in so many words: never without, or never for an allow without
\* obligation.  A fail-open forward does not waive it, and neither does a mode that
\* is misspelt ("a typo'd alway must not quietly disable a compliance control").
NoUnseenPII ==
  \A c \in Calls : answer[c] = [code |-> "result", text |-> "pii"] =>
    \/ engine[c] = [status |-> 200, body |-> "untouched"]
    \/ env.redact = "off"
    \/ /\ env.redact \in {"on-obligation", "on_obligation"}
       /\ pdp[c].status = 200 /\ pdp[c].verdict = "allow"
       /\ pdp[c].obligation # "redact_pii"

\* The client is not told a wrong cause of a refusal.  A policy deny is a verdict
\* of the policy service or a block by the engine, never the envelope of a 4xx;
\* credentials are named if and only if they are what has been refused ("a quota
\* is never described as a credential problem and a credential problem never as a
\* policy deny", refusalMessage).  A limit of the policy service is always named;
\* one of the engine only if the status tells it: a 403 that carries the envelope
\* is a rejection without a cause, since that body is not looked at.
RefusalTellsCause ==
  \A c \in Calls : Answered(c) =>
    LET seen   == engine[c] # Unscanned
        status == IF seen THEN engine[c].status
                  ELSE IF pdp[c].verdict = "unreadable" THEN 0 ELSE pdp[c].status IN
    /\ answer[c].code = "policyDeny" =>
         IF seen THEN engine[c].body # "undecodable" /\ status \in {200, 403}
         ELSE status = 200 /\ pdp[c].verdict = "deny"
    /\ answer[c].code = "policyUnavailable" =>
         /\ answer[c].text = "credentials" <=> status = 401
         /\ answer[c].text = "limit" <=>
              \/ status = 429
              \/ ~seen /\ status = 400 /\ pdp[c].verdict = "limited"

\* A response is preceded by exactly one audit row, whatever has failed on the
\* way, and the row agrees with the response.
OneTrueRow ==
  \A c \in Calls :
    /\ Len(rows[c]) <= 1
    /\ c \in filed => Len(rows[c]) = 1
    /\ Answered(c) =>
         /\ Len(rows[c]) = 1
         /\ rows[c][1].redactions > 0 <=> answer[c].text = "masked"
         /\ rows[c][1].verdict = "error" <=> pdp[c] = Unasked
         /\ rows[c][1].verdict \in {"deny", "needs_approval"} <=>
              answer[c].code \in {"policyDeny", "needsApproval", "policyUnavailable"}

\* A row that says a call was refused is true for good: the tool has not run
\* and will not, unless it is its result that the engine has kept back.
RefusedNeverRuns ==
  \A c \in Calls :
    /\ rows[c] # <<>>
    /\ rows[c][1].verdict \in {"deny", "needs_approval", "error"}
    => executed[c] = {} \/ engine[c] # Unscanned

\* How a call looks to the operator and the client: the fail mode and the scan as
\* they are written, the opinion as it stands in the answer, read to its end.
OpinionIn(r) ==
  IF r = Unasked THEN "none"
  ELSE IF SaidNo(r) THEN "no"
  ELSE IF r.status # 200 \/ r.verdict # "allow" THEN "silence"
  ELSE IF r.obligation = "redact_pii" THEN "obliged"
  ELSE "allow"

ScanningIn(e) ==
  CASE e.redact = "off" -> "never"
    [] e.redact \in {"on-obligation", "on_obligation"} -> "obliged"
    [] OTHER -> "always"

RowIn(written) ==
  IF written = <<>> THEN [verdict |-> "none", redacted |-> FALSE]
  ELSE [verdict  |-> IF written[1].verdict \in {"deny", "needs_approval"} THEN "refused"
                     ELSE written[1].verdict,
        redacted |-> written[1].redactions > 0]

ReplyIn(a) ==
  IF a = NoAnswer THEN "none"
  ELSE IF a.code \in {"policyDeny", "needsApproval", "policyUnavailable"} THEN "refusal"
  ELSE IF a.code # "result" THEN "failure"
  ELSE IF a.text \in {"masked", "empty"} THEN a.text
  ELSE "said"

lenient   == env.failMode = "open"
scanning  == ScanningIn(env)
opinion   == [c \in Calls |-> OpinionIn(pdp[c])]
inspected == {c \in Calls : engine[c] # Unscanned}
log       == [c \in Calls |-> RowIn(rows[c])]
reply     == [c \in Calls |-> ReplyIn(answer[c])]

Governance == INSTANCE GovernedCall

\* Every run of the pipeline is a run of governed calls, module GovernedCall: the
\* policy service, the tool, the engine, the audit row and the response come in
\* that order, each goes by those before it, and what is written is final.
GovernedSpec == Governance!Spec

\* Every call that Serve has read is answered, or the proxy ends, or the backend
\* keeps the call for ever: neither the policy service nor the engine can wedge the
\* proxy, and a backend only if it does not give the call back at its deadline.
EveryCallAnswered ==
  \A c \in Calls :
    pc[c] # "unread" ~> (Answered(c) \/ ~serving \/ [](pc[c] = "call"))

\* "A 4xx is misconfiguration [...] so it is NEVER fail-open regardless of
\* posture" (enforce).  Decide reads the body before it looks at the status, and
\* a body that cannot be read is an error like a transport error.
ClientErrorNeverForwards ==
  \A c \in Calls : pdp[c].status \in ClientErrors => executed[c] = {}

\* A redaction that the proxy has declared it can discharge is discharged: a
\* result with that obligation reaches the client through the engine ("Declaring
\* field_redact anyway would be the worst outcome available: the platform would
\* allow the request believing a redaction was going to happen, and none would").
DeclaredIsDischarged ==
  \A c \in Calls :
    /\ "field_redact" \in handshake.capabilities
    /\ pdp[c].obligation = "field_redact"
    /\ answer[c].code = "result" /\ answer[c].text # "empty"
    => engine[c] # Unscanned

\* With the default setting whatever text of a backend reaches the client has
\* been sent to the engine ("every response is scanned regardless of
\* verdict/obligation", forwardAndRedact).  Errors are passed on before any scan: a
\* JSON-RPC error, and one that quotes the body of an HTTP answer other than 200.
EveryResponseScanned ==
  \A c \in Calls : redactResponses = "always" /\ answer[c].text \in {"clean", "pii"} =>
    engine[c] # Unscanned

=============================================================================
