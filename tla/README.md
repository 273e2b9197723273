# A TLA+ model of axonflow-mcp-proxy

axonflow-mcp-proxy (`src/cmd/axonflow-mcp-proxy`, Go) sits between Claude
Desktop and one or more MCP servers ("backends").  It reads JSON-RPC messages
on stdin, asks a policy service for a verdict on each `tools/call`, forwards
the call if it may, has a response engine scan the result for personal data,
writes an audit row and answers on stdout.  This directory models what the
proxy does, checks the models with TLC and proves the most important
properties with TLAPS.

## 1. Inventory

| Component | Source | State | Operations | Model |
|---|---|---|---|---|
| stdio connection | `backend.go` `stdioConn` | id counter, table of pending requests, `closed` channel; child, pipes, reader goroutine | `call`, `notify`, `writeMessage`, `readLoop`, `shutdown`, `markDead`, `alive` | `StdioConn` |
| stdio backend | `backend.go` `stdioBackend` | current connection, backoff, gate, mutex | `ensureConn`, `connect`, `initialize`, `invalidate`, `callWithReconnect`, `Initialize`, `ListTools`, `CallTool`, `Close` | `StdioBackend` |
| HTTP backend | `backend.go` `httpBackend` | session id, id counter | `Initialize`, `postNotify`, `ListTools`, `CallTool`, `post`, `decodeBackendResponse` | `HttpBackend` |
| governance pipeline | `proxy.go`, `decide.go`, `checkoutput.go` | none between calls; a `callOutcome` per call | `HandleToolsCall`, `enforce`, `Decide`, `forwardAndRedact`, `CheckOutput`, `redactResponse`, `redactionFailClosed` | `Proxy` |
| audit trail | `audit.go` | rows on stderr and in a file | `Record`, `appendLocked`, `Close` | in `Proxy` (the choice to be filed or not) |
| aggregation and routing | `proxy.go` | exposed tools, routes, flag `aggregated` | `Aggregate`, `rewriteToolName`, `exposedName`, `ToolsList`, `lookupRoute` | `Session` |
| message loop | `main.go`, `jsonrpc.go` | position in the input | `main`, `Serve`, `dispatch`, handlers, `lineWriter.write` | `Session` |
| configuration | `config.go` | none after start | `LoadConfig`, `validate`, `transport`, `loadBackends` | `Config` |
| refusal texts | `refusal.go` | none | `refusalMessage`, `responseGovernanceRefusalMessage` | in `Proxy`: the cause that is named, not the wording |
| handshake document | `handshake.go` | none | `declaredCapabilities`, `buildPEPHandshake` | in `Config`: what is declared, not its encoding |
| shell lint, end-to-end harness, packaging | `cmd/internal/shelllint`, `runtime-e2e`, `build.sh`, `scripts`, `.github`, `manifest.json` | none of the proxy's | | not modelled: tools around the program |

How they interact: `main` builds a `Proxy`, aggregates the backends' tools and
runs `Serve`, the only loop, which handles one message at a time.  A
`tools/call` is dispatched to `HandleToolsCall`, which calls the policy service
over HTTP, the backend through the `Backend` interface, the engine over HTTP,
then the audit logger, and returns the response that `Serve` writes.  The
concurrency of the program is in the stdio backend: the callers' goroutines
(the interface promises "All methods are safe for concurrent use", and the
tests use it so), one reader goroutine per connection and the child process.
An HTTP backend has no such machinery: each request is one exchange on its
caller's goroutine, and what the callers share is the session id.
`Serve` itself never has two calls in flight; what runs beside it is the world:
services that answer late or never, tools that execute after their caller has
given up, signals, and the end of the process.

What is hard, component by component, and what makes each correct:

- *connection*: answers late, twice, out of order; a caller that gives up while
  the reader is about to send to it; a child that dies with answers in the
  pipe.  Correct if every answer goes to the call it belongs to, the reader
  never blocks, the table holds exactly the calls that wait.
- *backend*: concurrent callers that find the connection dead, replace it and
  invalidate it; retries of requests that may have executed.  Correct if there
  is one child, a working one is kept, a request is executed at most twice and
  never on two children that run, and every request with a deadline returns.
- *HTTP backend*: a server that keeps sessions and is redeployed, an answer on a
  stream that stays open, a body that breaks off, a request that executes after
  its exchange has failed.  Correct if the session id is captured and replayed,
  an answer or the deadline ends the wait, and each result tells the truth about
  the execution.
- *pipeline*: any answer of three parties, under two fail modes and three
  redaction modes.  Correct if nothing executes against a refusal, nothing
  unscanned leaks from a result, a refusal is given no wrong cause, and each
  response has one audit row that tells the truth.
- *configuration*: settings that are misspelt or contradict each other.  Correct
  if none of them loosens a control without a word, and what is declared to the
  policy service is what the pipeline does.
- *session*: name clashes, backends that come and go, messages of all kinds.
  Correct if what is listed is what is routed, for the whole session, and every
  request is answered.

The file `PROJECT.json` lists 40 hazards, each with its line and the properties
that would catch it going wrong, or the reason why none does.

## 2. Modules

```
                                                           GovernedCall
                                                                ^ implements
StdioConn <-- StdioBackend --implements--> BackendService <-- Proxy --> Config
    |              |                             ^              |
StdioConnProofs <- StdioBackendProofs            | implements  ProxyProofs
                   |                             |              |
               StdioServiceProofs           HttpBackend   GovernedCallProofs
                                                 |
Session --- SessionProofs                  HttpBackendProofs
```

Each `MC*` module extends the module it is named after and adds only the values
the `.cfg` files need.  Operators headed `Mutant:` are plausible bugs, put next
to the definition they would replace; no specification uses them.

**StdioConn** is the connections of one backend.  An element of `Calls` is one
invocation of `stdioConn.call`.  `Register` is the allocation of the id and the
entry in the table; `WriteRequest`/`WriteFails` is `writeMessage`;
`SelectCtx`, `SelectClosed`, `SelectResponse` are the three cases of the
`select`, any of which may be taken when several are ready.  The reader is
`ReadAnswer` (the entry is taken out, under the lock) and then `Deliver` (the
send, outside it), `ReadDropped`, `ReadOversized`, and `markDead`, which waits
for the process.  The environment is the child: `ChildTakes`, `ChildAnswers`,
`ChildChatters`, `ChildClosesStdin`, `ChildDies`.  A line is represented by the
call it belongs to, or is `Oversized`, an answer or not.  A child is `up`; `deaf`
when it lives and has closed its stdin, so that a write fails although nothing has
died; `killed` when `shutdown` has sent it the kill, which nobody there waits for;
and `down` when it has ended, which `readLoop` waits for (`cmd.Wait`).  A child
that has been killed still has to end, but executes nothing more (section 6).
The two critical sections of `idM` in `call` are one step because nothing can
read the id between them.

**StdioBackend** composes it with the reconnect machinery.  Each caller makes
one request.  `mu` is a variable only while a caller connects, the one critical
section that blocks; the others are one step.  `b.nextRetry` is the Boolean
`gated`, opened by `WindowElapses`.  A caller's second try is its `Request(t, 2)`.
A context may be cancelled at any time; only that of `CallTool` (`Bounded`) has a
deadline, since `Aggregate` calls `ListTools` with one that has none
(`proxy.go:103`).

**BackendService** is the abstract promise to the callers of a backend: at most
two executions, an answer only for a request that was executed, and for each
result whether a later execution is still possible.  `StdioBackend` implements
it with `LateResults = {"gaveUp"}` (property `ServiceSpec`, refinement mapping
`executed`): after any other failure the child has died or been killed.  `HttpBackend` implements
it with `LateResults = {"gaveUp", "lost"}`, since a server may execute a request
whose exchange has failed, and never needs the second execution.  `Proxy` uses
the weaker of the two.

**HttpBackend** is one HTTP backend.  A caller runs through `post`: `Send` puts
the session id in force into the request, `ReadHeaders` is the return of
`client.Do` with the look at the header, `setSession` the adoption of the id in
a critical section of its own, `Decoded` and `Undecoded` are
`decodeBackendResponse`, and `ContextDone` is the end of the context at any point
of it.  An answer counts as come once a JSON body has ended or, on a stream, once
its event has.  The server, the network and what is between them are
environment: `Serve` and `Refuse` with or without sessions, `Reply` with any
status, `EndBody` in good order or not, `Redeploy`.  Only `CallTool` has a
deadline (`Bounded`): `Aggregate` calls the others with a context that has none.

**Proxy** is the path of a `tools/call`.  `pc[c]` is the position in the code:
`route` (`lookupRoute`), `decide`, `call` (inside `CallTool`), `redact` (inside
`CheckOutput`), `record`, `respond`.  `Decide`, `CheckOutput`, `shouldRedact`,
`Refusal`, `refusalMessage`, `Withheld` and `Redacted` are the functions of those
or similar names, over answers reduced to an HTTP status and the kind of body.
Either service may answer with the envelope of a limit under any status:
`refusalMessage` sees it, `responseGovernanceRefusalMessage` does not look at the
body.  `BackendError` is the message of any error of `CallTool` but a JSON-RPC one,
with what the error quotes of the backend.
`Stop` ends the proxy between any two steps.

**GovernedCall** is the abstract promise to the operator about one `tools/call`:
`Consult`, `Execute`, `Inspect`, `Record`, `Reply`.  The tool executes only by
leave of the policy service or, if the operator is lenient, without its verdict;
the result is inspected unless that is waived; one row is written, then the
client is told in accordance with it, and both are final.  An execution that
comes late is part of it, with what it must not follow: a refusal, an inspection,
a result already given.  `Proxy` implements it (property `GovernedSpec`) under
a mapping from `env`, `pdp`, `engine`, `rows` and `answer`; routing, timeouts,
statuses, error codes and the ways to refuse are all stutter or detail.

**Config** is what `LoadConfig` and `buildPEPHandshake` make of the operator's
environment variables, as operators: `Accepted` is a `LoadConfig` without an
error, `FailOpen`, `RedactResponses` and `buildPEPHandshake` are the settings and
the declaration.  `Proxy` starts from an environment and serves only if it is
accepted; its properties speak of what the operator has written, its actions
read what was made of that.

**Session** is a run from the start: `Aggregate` backend by backend and tool by
tool, `Serve` and `dispatch` message by message, the client and the signals.
The locals of `Aggregate` are the variables `todo`, `step`, `queue`,
`building`, `healthy`.  Names are sequences of parts, so that `id + "__" + tool`
can clash in the ways strings can: ids and tools may themselves contain `__`
(`config.go`'s pattern for ids allows it), so the comment on `exposedName`
("Namespacing guarantees uniqueness across backends") needs the clash check of
`Aggregate`, and the check runs with such ids.  `attempts` and `listed` are history variables, read by
properties only.  `ParseError` is apart from `Refuse` because `Serve` ignores it
if the answer to a line that is not JSON cannot be written (`main.go:138`), while
any other write that fails ends the session.

## 3. Runs

All runs set `CHECK_DEADLOCK FALSE`: the system really stops, when every call
has returned or `Serve` has.

| Run | Question | Bounds | States |
|---|---|---|---|
| `stdio_service` | `TypeOK`, `OwnAnswer`, `SendNeverBlocks`, `TableIsExact`, `DeadMeansGone`, `NoOrphanChild`, `HandshakeFirst`, `RetryOnlyAcrossRestart`, `ConnectedMeansNoBackoff`, `SpawnOnlyWhenDown`, `WorkingConnKept`, refinement `ServiceSpec` | a caller and an `Initialize`, 2 connections, 1 expiry, pipes of 1 line, 1 line that is too long or repeated | 1.3 M |
| `stdio_liveness` | `EveryCallReturns`, `MutexReleased`, `DeathDetected` | 1 caller with a deadline, 2 connections, every context expires | 38 k |
| `proxy_governance` | `ProxyTypeOK`, `GovernedExecution`, `NoUnseenPII`, `RefusalTellsCause`, `OneTrueRow`, `RefusedNeverRuns`, `EveryCallAnswered`, refinement `GovernedSpec` | 1 call, every answer of both services, 18 environments | 579 k |
| `http_backend` | `HttpTypeOK`, `RefusedOnlyAfterRedeploy`, `CallsReturn`, `AnswerEndsWait`, refinement `ServiceSpec` | `Initialize`, `ListTools` and a tool call, 1 redeployment | 225 k |
| `session_routes` | `SessionTypeOK`, `ListedIsRouted`, `NothingLost`, `CallMeansListed`, `AnsweredInTurn`, `ToolsFixed`, `RequestsAnswered` | 2 backends whose names clash, 3 lists, 2 messages | 170 k |

Why the bounds are enough.  Every hazard of the connection is between two
calls, or between a call and the reader; a third call adds no new pair.  Two
connections are the stale one and the fresh one.  Pipes of one line make both
ends block.  Two callers are the one that replaces and the one that
invalidates; that one of them is `Initialize` and makes no second try keeps the
run small, and the theorems of section 5 are for any number of callers, tries
and connections.  Over HTTP `Initialize` brings the session id, the other two
replay it, one with a deadline and one without.  The environments have every mode
with each way to write it, and one of each error that stops the start.  One call of the pipeline meets every combination of answers and
settings; calls do not overlap (`Serve` is sequential), share no state but the
settings, and the proofs of section 5 are for any number of them.  Two messages
are a `tools/list` and the call after it; two backends with ids `a` and `a__w`
give every kind of clash.  Bounds in guards: `MaxConns`, `MaxChatter`,
`MaxExpiries`, `MaxLines`, `MaxRedeploys`.

Seven runs end in a violation on purpose; each shows that the code does not do
what it, or its documentation, says.

| Run | What it shows |
|---|---|
| `stdio_reader_stops` | a line over 1 MiB, an answer or not, ends the reader of a living child: no call is answered any more and nothing reconnects until the child dies (`backend.go:193`, comment at 189) |
| `stdio_write_blocks` | a child that stops reading blocks the write of a request, which no context bounds (`backend.go:285`, comment at `proxy.go:384`) |
| `proxy_client_error` | a 4xx whose body cannot be read is a plain error, and fail-open forwards the call (`decide.go:213`, comments at `decide.go:137` and `proxy.go:295`) |
| `proxy_unscanned` | the text of a backend's error is passed on without a scan, be it a JSON-RPC error (`proxy.go:401`) or the body of an HTTP answer other than 200, which the error quotes (`proxy.go:415`, `backend.go:705`; comment at `proxy.go:420`, README line 60) |
| `proxy_undischarged` | with `on-obligation` the proxy declares that it discharges `field_redact`, and passes a result with that obligation on unscanned (`proxy.go:541`, comment at `handshake.go:129`, README line 215) |
| `session_retry` | after an aggregation that found no backend nothing is retried (`proxy.go:127`, message at `main.go:107`) |
| `session_cancel` | a signal is not seen until a line arrives or the input ends (`main.go:126`, comment at 117) |

Met while modelling and not made into runs: a request sent without an id is
answered all the same unless its method is unknown (`main.go:153-171`); a retry
is dispatched even if its context ran out during the reconnect
(`backend.go:472`); under fail-open a request too large to send and a 200 that
does not decode are forwarded like an outage (`proxy.go:306`); the answer to a line
that is not JSON is best effort (`main.go:138`), so `RequestsAnswered` leaves it out;
a check-output 403 with the envelope of a tier limit is told as no more than a
rejection (`refusal.go:67`, and `refusal_test.go:388` expects it), although
`checkoutput.go:234-236` says it is "named by refusalMessage": `RefusalTellsCause`
says of the limits of the engine what the code does.

## 4. Fairness

`StdioBackend.Fairness`: a goroutine that can run runs (weak fairness of each
caller and each reader), and deadlines fire: that of the handshake, and that of
each `Bounded` caller.  `EveryCallReturns` is about those only; a `ListTools` may
wait for ever for a child that says nothing.  Nothing is assumed of the child
in `FairSpec`; `ReadingSpec`, used by `stdio_liveness`, adds that a child that
has not closed its stdin reads it, without which the run `stdio_write_blocks`
fails.  Nor is it assumed that a child answers, dies or is ever reachable.

`HttpBackend.Fairness`: `post` goes on when it can, and the deadline of a
`Bounded` caller passes.  The server owes nothing, not even the end of a body: a
`tools/list` without a deadline may wait for ever, and `AnswerEndsWait` says no
more than that a stream which has brought the answer is not waited for.

`Proxy.FairSpec`: weak fairness of `Progress`, which contains only what the
proxy does by itself: its own steps and the timeouts of the HTTP clients
(`NewDecideClient`, `NewCheckOutputClient`).  No service has to answer.  That the
backend gives a call back once `callCtx` has run out is not part of it, because a
stdio child that stops reading keeps the call (`stdio_write_blocks`):
`EveryCallAnswered` therefore allows for a call that stays in the backend for ever.
That a backend does give it back is what `EveryCallReturns` shows of the stdio
backend, under `ReadingSpec`, and `CallsReturn` of the HTTP backend.

`Session.FairSpec`: weak fairness of `aggregation \/ Serve`.  Here it is an
assumption that a backend being aggregated answers or fails: `Aggregate` passes
a context without a deadline, so a backend that answers `initialize` and never
`tools/list` does hold up the start.

## 5. Proofs

For every number of calls, callers, connections, backends and messages, every
capacity of the pipes and every set of answers.  The assumptions are the named
`ASSUME`s of the modules, which TLC evaluates in every run.

- `StdioConnProofs`.  `ConnCorrect`: `OwnAnswer`, `SendNeverBlocks`,
  `TableIsExact` and `DeadMeansGone`.  They are not inductive.  The invariant
  adds that ids are unique on a connection and not greater than `nextID`, that
  what is in a pipe, being worked on or in hand belongs to a call made on that
  connection, and that a call which has not been registered appears nowhere.
  `ReaderStopsConfined`: in a run in which no line exceeds the scanner's buffer
  (`[]NoLongLine`), the reader outlives the child, as the comment on `readLoop`
  says.  A line that does exceed it may be an answer.
- `StdioBackendProofs`.  `UsesConnections`: each step of the backend is a step
  of its connections or leaves them alone, hence `BackendConnCorrect`, the
  safety of the connections inside the backend (`SendNeverBlocksHolds` and
  `DeadMeansGoneHolds` name two of its parts, `BackendReaderStopsConfined` is the
  theorem above); and `TypeCorrect`.
- `StdioServiceProofs`.  `BackendSafe` (`NoOrphanChild`, `HandshakeFirst`,
  `RetryOnlyAcrossRestart`, `ConnectedMeansNoBackoff`, of which the last three have
  theorems of their own names, too), `SpawnOnlyWhenDownHolds`,
  `WorkingConnKeptHolds` and the refinement `StdioServiceHolds`, from one
  invariant `Inv` that adds to those of the two modules above:
  `Traced` (the outcome of a call tells the truth: a deadline was a deadline, a
  connection closed or not written to has a child that hears nothing more
  (`Unhearing`), an answer is to a line that the child took),
  `MutexInv` (whoever connects holds the mutex, with no connection and the gate
  open), `ChildInv` (which children run), `TryInv` (how far each try of a caller
  has come, and that the child of the first has died or been killed once the
  second is made), `InOrder` and `UsedWelcomed` (the `initialized` line is ahead of every
  request in the pipe, and a connection in use has been sent it).  The refinement
  needs them because what makes a result final is the end of a child, or of its
  hearing, that another goroutine has seen.  Two consequences of the refinement:
  `ResultsAreFinal` (an answer is to a request that was executed, and after any
  result but an expired deadline no try of it executes any more), and
  `StdioServesProxy` (the stdio backend implements the weaker service that `Proxy`
  is built on, `LateResults = {"gaveUp", "lost"}`).
- `HttpBackendProofs`.  `HttpTypeCorrect`, the refinement `HttpServiceHolds`
  (an answer in hand was executed, and once, since a request is sent once), and
  `RefusedOnlyAfterRedeployHolds`: until the server is redeployed a request is
  sent only after `Initialize` has adopted the id it was given, and the server
  still knows it.
- `ProxyProofs`.  The invariant `Governed` says for each stage of a call what
  has been asked, executed, scanned and written, that a concluded call is one of
  four things: invalid, refused, passed on unseen, or seen by the engine, and
  that the settings are those of an accepted environment.
  From it follow `GovernedExecution`, `NoUnseenPII`, `RefusalTellsCause` (by
  `RefusalCause`, what each answer of the policy service is told as),
  `OneTrueRow` and `RefusedNeverRuns`; the type invariant is proved first, with
  the fact that a concluded call has an outcome.  `UsesBackend`: the pipeline is
  an implementation of the abstract service, so that it relies on nothing that
  the two backends do not provide.
  Three theorems say exactly when the statements that the violation runs refute
  do hold.  `ClientErrorConfined`: a 4xx is forwarded only if its body could not be
  read and the operator chose fail-open.  `ResponseScanConfined`: by default the only
  text that passes unscanned is that of an error of the backend, a JSON-RPC one or
  one that quotes the body of an HTTP answer.  `DischargeConfined`: a
  declared redaction is left out only in the mode `on-obligation`, on a plain allow.
  `ServedUsable`: a proxy that handles a call has a backend, no two with one id, each
  with one transport, which is what `Session` assumes of `BackendOrder`
  (`OrderAssumption`).
- `GovernedCallProofs`.  The refinement `GovernedSpecHolds`: every step of the
  pipeline is a step of `GovernedCall` or a stutter.  It uses `Governed` and adds
  `Ran` (what the backend has answered was executed).  The two steps that need it
  are the late `ToolExecutes`, which must be shown to come only to a call passed on
  unseen whose row is an allow and whose reply is a failure, and `Respond`, where
  each of the four ways to conclude has to give a reply that agrees with its row.
- `SessionProofs`.  `ListedIsRouted` from the invariant `Tables` (the tables
  agree while they are built, too), and `CallMeansListed` from `Tables` with
  `History`: once aggregated the routes never change, every list that was given
  is the present one, and calls answered after it went by it.  `NothingLost` from
  `Progress` (how far `Aggregate` has come) and `Merged` (what has been dealt
  with so far is routed or shadowed), under `NamesAssumption`: two tools with
  different names are not given the same name by the same id, as is so for
  strings.  `SessionTypeCorrect` from the same.  `AnsweredInTurnHolds` from `InTurn`
  (it adds that a message under way has no answer yet), `ToolsFixedHolds` from the guard that
  every aggregation shares, and `AggregatesOnce`: there is at most one aggregation,
  also if it finds no backend, which is why the run `session_retry` fails.

All safety properties of the passing runs are proved, and the three refinements
(`ServiceSpec` by either backend, `GovernedSpec` by the pipeline).  Of the seven
violation runs five have a theorem that confines them (`ReaderStopsConfined`,
`ClientErrorConfined`, `ResponseScanConfined`, `DischargeConfined`,
`AggregatesOnce`); the other two are about liveness.
Only model-checked: liveness, which is out of the prover's reach
(`EveryCallReturns`, `MutexReleased`, `DeathDetected`, `CallsReturn`,
`AnswerEndsWait`, `EveryCallAnswered`, `RequestsAnswered`).

## 6. Not modelled

- A request that a server sends to the proxy.  Without an id that is in flight
  it is dropped, which is modelled as noise.  With one, `readLoop`
  (`backend.go:211`) and `decodeBackendResponse` (`backend.go:752`) would take it
  for the answer; the modules assume that it does not occur, and say so.
- The time between the kill of a child and its end, as far as the child's own
  program goes.  It is assumed of the system that the kill of a process which the
  proxy has started succeeds, and that a process which has been sent it runs no
  more of its program; `RetryOnlyAcrossRestart`, `NoOrphanChild` and the refinement
  rest on that.  What the child has written before stays in the pipe.
- The text of messages, names and refusals, their cleaning and shortening; the
  hashing of arguments; the encoding of JSON-RPC, of event streams and of the
  handshake header.  No property depends on them.
- The content of the audit file.  A row is filed or not; a write that stops
  midway and leaves part of a line is listed as a hazard.
- `forwardStderr`: its effect, a child that hangs, is among what a child may do.
- Other fields of the configuration (identity, paths, client version): they are
  copied.
- `cmd/internal/shelllint`, `runtime-e2e`, the build and release scripts: tools
  around the proxy, which keep no state of it.

What could be added: the composition of `Session` and `Proxy`, which would tie
each audit row to a message of the client; today `Proxy` may route a call or not
as it likes, which covers every session.
