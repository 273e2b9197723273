-------------------------------- MODULE Config --------------------------------
(***************************************************************************)
(* What main makes of the operator's environment variables before it       *)
(* serves (config.go, handshake.go): the settings of the pipeline, the     *)
(* backends, and the capabilities it declares to the policy service; or    *)
(* nothing, and the process ends.  LoadConfig stops at the first error;    *)
(* which one it is makes no difference but to the message.                 *)
(***************************************************************************)
EXTENDS Naturals, Sequences

CONSTANTS
  SlugIds,      \* ids of backends that match slugRE
  OtherIds      \* ids that do not, the empty one among them

\* The texts of a variable: "unset" if it is empty, and "typo" for any text that
\* is none of those listed.  Case does not matter.
FailTexts   == {"unset", "open", "closed", "typo"}
RedactTexts == {"unset", "always", "on-obligation", "on_obligation", "off", "typo"}
Audiences   == {"unset", "valid", "malformed"}
Durations   == {"unset", "positive", "bad"}

\* One backend as configured; stdioOnly: args or env are given.
Entries == [id : SlugIds \cup OtherIds, command : BOOLEAN, url : BOOLEAN, stdioOnly : BOOLEAN]

\* AXONFLOW_BACKENDS_FILE or AXONFLOW_BACKENDS: "bad" cannot be read or parsed.
Sources == [kind : {"unset", "bad", "list"}, list : Seq(Entries)]

Environments ==
  [failMode : FailTexts, redact : RedactTexts, audience : Audiences,
   decideTimeout : Durations, backendTimeout : Durations,
   file : Sources, inline : Sources]

FailOpen(e) == e.failMode = "open"

\* cfg.RedactResponses, or "invalid".
RedactResponses(e) ==
  CASE e.redact \in {"unset", "always"} -> "always"
    [] e.redact \in {"on-obligation", "on_obligation"} -> "on-obligation"
    [] e.redact = "off" -> "off"
    [] OTHER -> "invalid"

transport(b) == IF b.command THEN "stdio" ELSE IF b.url THEN "http" ELSE "none"

validate(b) ==
  /\ b.id \in SlugIds
  /\ \/ transport(b) = "stdio" /\ ~b.url
     \/ transport(b) = "http" /\ ~b.stdioOnly

\* The file, if one is named, whatever the inline text says.
loadBackends(e) == IF e.file.kind # "unset" THEN e.file ELSE e.inline

\* The loop over the backends: each is valid and its id not seen before.
BackendsAccepted(list) ==
  /\ list # <<>>
  /\ \A i \in DOMAIN list :
       /\ validate(list[i])
       /\ \A j \in 1..(i - 1) : list[j].id # list[i].id

\* What the proxy declares to the policy service on every call.
declaredCapabilities(e) == IF RedactResponses(e) # "off" THEN {"field_redact"} ELSE {}

\* The header X-Axonflow-PEP-Handshake: none without an audience.
buildPEPHandshake(e) ==
  [sent |-> e.audience # "unset",
   capabilities |-> IF e.audience = "unset" THEN {} ELSE declaredCapabilities(e)]

\* LoadConfig returns no error.
Accepted(e) ==
  /\ RedactResponses(e) # "invalid"
  /\ e.decideTimeout # "bad"
  /\ e.backendTimeout # "bad"
  /\ loadBackends(e).kind = "list"
  /\ BackendsAccepted(loadBackends(e).list)
  /\ e.audience # "malformed"

=============================================================================
