----------------------------- MODULE GovernedCall -----------------------------
(***************************************************************************)
(* What the proxy promises about a tools/call, whoever answers what and    *)
(* when (README, "What it enforces"; the comments of HandleToolsCall,      *)
(* enforce, forwardAndRedact and redactResponse).                          *)
(*                                                                         *)
(* The policy service is consulted first and once.  The tool executes only *)
(* by its leave or, if the operator says so, when it has nothing to say.   *)
(* The result is inspected unless that may be omitted.  Then one audit row *)
(* is written, and then the client is told, in accordance with the row;    *)
(* what has been told is final.  A tool may execute late, after its caller *)
(* has given up, but never once a refusal or its result has been settled.  *)
(***************************************************************************)
CONSTANT Calls

VARIABLES
  lenient,    \* without a verdict a call is forwarded
  scanning,   \* which results are inspected: "always", "obliged" or "never"
  opinion,    \* opinion[c]: what the policy service has to say about c
  executed,   \* executed[c]: the tries of c the tool has executed
  inspected,  \* the calls whose result has been put to the engine
  log,        \* log[c]: the audit row of c
  reply       \* reply[c]: what the client is told

govVars == <<lenient, scanning, opinion, executed, inspected, log, reply>>

\* An obligation to redact makes a leave "obliged".
Opinions == {"allow", "obliged", "no", "silence"}
NoRow    == [verdict |-> "none", redacted |-> FALSE]
Results  == {"said", "masked", "empty"}   \* as the tool said it, or redacted
Replies  == Results \cup {"refusal", "failure"}

Init ==
  /\ lenient \in BOOLEAN
  /\ scanning \in {"always", "obliged", "never"}
  /\ opinion = [c \in Calls |-> "none"]
  /\ executed = [c \in Calls |-> {}]
  /\ inspected = {}
  /\ log = [c \in Calls |-> NoRow]
  /\ reply = [c \in Calls |-> "none"]

Allowed(c)   == opinion[c] \in {"allow", "obliged"}
Permitted(c) == Allowed(c) \/ (opinion[c] = "silence" /\ lenient)

\* The result of c may be passed on without inspection.
Waived(c) == scanning = "never" \/ (scanning = "obliged" /\ opinion[c] = "allow")

Consult(c) ==
  /\ opinion[c] = "none"
  /\ log[c] = NoRow
  /\ \E o \in Opinions : opinion' = [opinion EXCEPT ![c] = o]
  /\ UNCHANGED <<lenient, scanning, executed, inspected, log, reply>>

\* At most twice: a backend may retry.
Execute(c) ==
  /\ Permitted(c)
  /\ c \notin inspected
  /\ log[c].verdict \in {"none", "allow", "allow_failopen"}
  /\ reply[c] \notin Results
  /\ \E n \in {1, 2} \ executed[c] : executed' = [executed EXCEPT ![c] = @ \cup {n}]
  /\ UNCHANGED <<lenient, scanning, opinion, inspected, log, reply>>

Inspect(c) ==
  /\ Permitted(c)
  /\ executed[c] # {}
  /\ c \notin inspected
  /\ log[c] = NoRow
  /\ inspected' = inspected \cup {c}
  /\ UNCHANGED <<lenient, scanning, opinion, executed, log, reply>>

\* The verdict that the row of c may bear.
Verdict(c, v) ==
  \/ v = "error" /\ opinion[c] = "none"
  \/ v = "allow" /\ Allowed(c)
  \/ v = "allow_failopen" /\ Permitted(c) /\ ~Allowed(c)
  \/ v = "refused" /\ opinion[c] # "none" /\ (~Permitted(c) \/ c \in inspected)

Record(c) ==
  /\ log[c] = NoRow
  /\ \E v \in {"error", "allow", "allow_failopen", "refused"}, redacted \in BOOLEAN :
       /\ Verdict(c, v)
       /\ redacted => c \in inspected /\ v \in {"allow", "allow_failopen"}
       /\ log' = [log EXCEPT ![c] = [verdict |-> v, redacted |-> redacted]]
  /\ UNCHANGED <<lenient, scanning, opinion, executed, inspected, reply>>

\* A failure is the proxy's or the backend's, whose error is passed on.
Reply(c) ==
  /\ log[c] # NoRow
  /\ reply[c] = "none"
  /\ \E r \in Replies :
       /\ r = "refusal" <=> log[c].verdict = "refused"
       /\ r = "masked" <=> log[c].redacted
       /\ r \in Results => executed[c] # {} /\ log[c].verdict # "error"
       /\ r = "said" => c \in inspected \/ Waived(c)
       /\ r = "failure" => c \notin inspected
       /\ reply' = [reply EXCEPT ![c] = r]
  /\ UNCHANGED <<lenient, scanning, opinion, executed, inspected, log>>

Next == \E c \in Calls :
  Consult(c) \/ Execute(c) \/ Inspect(c) \/ Record(c) \/ Reply(c)

Spec == Init /\ [][Next]_govVars
=============================================================================
