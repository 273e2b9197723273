------------------------------ MODULE StdioConn ------------------------------
(***************************************************************************)
(* The connections of one stdio backend (backend.go, type stdioConn).      *)
(*                                                                         *)
(* A connection is a child process, the pipes to and from it, the table of *)
(* requests that wait for an answer, and the reader goroutine that hands   *)
(* the answers out.  Any number of goroutines may be inside                *)
(* stdioConn.call on any connection; each such invocation is an element of *)
(* Calls and is used at most once.  Which connections are spawned, shut    *)
(* down and called, and when a context expires, is decided by the          *)
(* environment here and by module StdioBackend when it is composed.        *)
(*                                                                         *)
(* Atomicity: a critical section of idM is one step, and so is the write   *)
(* of one line, which writeM makes exclusive.  The allocation of the id    *)
(* and its registration are one step: nothing reads an id in between.      *)
(* A line written by call k is represented by k (its id is id[k]), and so  *)
(* is the child's answer to it: a child answers only lines it has taken,   *)
(* under the id they carry, and sends no request of its own under an id in *)
(* flight, which readLoop would take for the answer.                       *)
(*                                                                         *)
(* A child is "up"; "deaf" when it lives but has closed its stdin;         *)
(* "killed" when the kernel has been told to end it; and "down" when it    *)
(* has ended.  The proxy sends the kill and does not wait.  Assumed of the *)
(* system: the kill of a process that the proxy has started succeeds, and  *)
(* a process that has been sent it runs no more of its program.            *)
(***************************************************************************)
EXTENDS Naturals, Sequences, FiniteSets

CONSTANTS
  Calls,       \* invocations of stdioConn.call
  MaxConns,    \* bound: connections ever spawned
  PipeCap,     \* capacity of a pipe between proxy and child, in lines
  MaxChatter   \* bound: lines of the child that bring no new answer

ASSUME BoundsAssumption ==
  /\ MaxConns \in Nat \ {0}
  /\ PipeCap \in Nat \ {0}
  /\ MaxChatter \in Nat

\* Lines that belong to no call.
CONSTANTS
  Initialized, \* the notifications/initialized line, proxy to child
  Noise,       \* blank, undecodable or id-less line, child to proxy
  Oversized    \* a line longer than the reader's buffer (1 MiB)

ASSUME LinesAssumption ==
  /\ {Initialized, Noise, Oversized} \cap Calls = {}
  /\ Cardinality({Initialized, Noise, Oversized}) = 3

Conns == 1..MaxConns

VARIABLES
  step,     \* step[k]: where call k stands
  on,       \* on[k]: the connection k was made on, 0 before
  id,       \* id[k]: the request id allocated to k, 0 before
  chan,     \* chan[k]: the answers in k's channel, which holds one
  out,      \* out[k]: how k returned
  expired,  \* the calls whose context is done
  closed,   \* closed[c]: the closed channel of c has been closed
  nextID,   \* nextID[c]: last id allocated on c
  pending,  \* pending[c]: the calls registered in c's table
  reader,   \* reader[c]: where c's reader goroutine stands
  hand,     \* hand[c]: {<<j, k>>}, answer k taken for channel j, not yet sent
  proc,     \* proc[c]: the child process
  stdin,    \* stdin[c]: lines written, not yet taken by the child
  stdout,   \* stdout[c]: lines of the child, not yet scanned
  taken,    \* taken[c]: the lines the child has taken, and so executed
  working,  \* working[c]: the calls taken and not yet answered
  chatter   \* number of lines of the child that brought no new answer

callVars  == <<step, on, id, chan, out, expired>>
tableVars == <<closed, nextID, pending, reader, hand>>
childVars == <<proc, stdin, stdout, taken, working, chatter>>
connVars  == <<callVars, tableVars, childVars>>

Outcomes == {"none", "response", "ctx", "closed", "write"}

ConnTypeOK ==
  /\ step \in [Calls -> {"new", "write", "wait", "returned"}]
  /\ on \in [Calls -> {0} \cup Conns]
  /\ id \in [Calls -> Nat]
  /\ chan \in [Calls -> SUBSET Calls]
  /\ out \in [Calls -> Outcomes]
  /\ expired \in SUBSET Calls
  /\ closed \in [Conns -> BOOLEAN]
  /\ nextID \in [Conns -> Nat]
  /\ pending \in [Conns -> SUBSET Calls]
  /\ reader \in [Conns -> {"none", "scan", "reap", "done"}]
  /\ hand \in [Conns -> SUBSET (Calls \X Calls)]
  /\ proc \in [Conns -> {"none", "up", "deaf", "killed", "down"}]
  /\ stdin \in [Conns -> Seq(Calls \cup {Initialized})]
  /\ stdout \in [Conns -> Seq(Calls \cup {Noise, Oversized})]
  /\ taken \in [Conns -> SUBSET (Calls \cup {Initialized})]
  /\ working \in [Conns -> SUBSET Calls]
  /\ chatter \in Nat

ConnInit ==
  /\ step = [k \in Calls |-> "new"]
  /\ on = [k \in Calls |-> 0]
  /\ id = [k \in Calls |-> 0]
  /\ chan = [k \in Calls |-> {}]
  /\ out = [k \in Calls |-> "none"]
  /\ expired = {}
  /\ closed = [c \in Conns |-> FALSE]
  /\ nextID = [c \in Conns |-> 0]
  /\ pending = [c \in Conns |-> {}]
  /\ reader = [c \in Conns |-> "none"]
  /\ hand = [c \in Conns |-> {}]
  /\ proc = [c \in Conns |-> "none"]
  /\ stdin = [c \in Conns |-> <<>>]
  /\ stdout = [c \in Conns |-> <<>>]
  /\ taken = [c \in Conns |-> {}]
  /\ working = [c \in Conns |-> {}]
  /\ chatter = 0

-----------------------------------------------------------------------------
(* Life of a connection. *)

\* spawn, once cmd.Start has succeeded: the child runs and so does its reader.
SpawnConn(c) ==
  /\ proc[c] = "none"
  /\ proc' = [proc EXCEPT ![c] = "up"]
  /\ reader' = [reader EXCEPT ![c] = "scan"]
  /\ UNCHANGED <<callVars, closed, nextID, pending, hand,
                 stdin, stdout, taken, working, chatter>>

Runs(c) == proc[c] \in {"up", "deaf"}
Gone(c) == proc[c] \in {"killed", "down"}

\* A process that has been killed or has ended leaves behind what it had not
\* read or finished; what it has written stays in the pipe for the reader.
ProcessEnds(c, as) ==
  /\ proc' = [proc EXCEPT ![c] = as]
  /\ stdin' = [stdin EXCEPT ![c] = <<>>]
  /\ working' = [working EXCEPT ![c] = {}]
  /\ UNCHANGED <<stdout, taken, chatter>>

\* shutdown: close stdin, send the kill, mark the connection dead.  Nobody waits
\* for the child here.
shutdown(c) ==
  /\ proc[c] # "none"
  /\ ProcessEnds(c, IF proc[c] = "down" THEN "down" ELSE "killed")
  /\ closed' = [closed EXCEPT ![c] = TRUE]
  /\ UNCHANGED <<callVars, nextID, pending, reader, hand>>

\* alive: the closed channel has not been closed.
alive(c) == ~closed[c]

-----------------------------------------------------------------------------
(* stdioConn.call and stdioConn.notify, on the caller's goroutine. *)

\* The entries of c's table under call k's id.
Keyed(c, k) == {j \in pending[c] : id[j] = id[k]}

\* Mutant: the id is read but not advanced.
RegisterSameId(k, c) ==
  /\ step[k] = "new"
  /\ proc[c] # "none"
  /\ step' = [step EXCEPT ![k] = "write"]
  /\ on' = [on EXCEPT ![k] = c]
  /\ id' = [id EXCEPT ![k] = nextID[c] + 1]
  /\ pending' = [pending EXCEPT ![c] =
                   {j \in @ : id[j] # nextID[c] + 1} \cup {k}]
  /\ UNCHANGED <<nextID, chan, out, expired, closed, reader, hand, childVars>>

\* Allocate the next id and enter the response channel under it; an entry
\* already there under the same id would be replaced.
Register(k, c) ==
  /\ step[k] = "new"
  /\ proc[c] # "none"
  /\ step' = [step EXCEPT ![k] = "write"]
  /\ on' = [on EXCEPT ![k] = c]
  /\ nextID' = [nextID EXCEPT ![c] = @ + 1]
  /\ id' = [id EXCEPT ![k] = nextID[c] + 1]
  /\ pending' = [pending EXCEPT ![c] =
                   {j \in @ : id[j] # nextID[c] + 1} \cup {k}]
  /\ UNCHANGED <<chan, out, expired, closed, reader, hand, childVars>>

\* A line fits into the child's stdin; until it does, the writer blocks.
CanWrite(c) == proc[c] = "up" /\ Len(stdin[c]) < PipeCap

\* call, writeMessage succeeds.
WriteRequest(k) ==
  /\ step[k] = "write"
  /\ CanWrite(on[k])
  /\ stdin' = [stdin EXCEPT ![on[k]] = Append(@, k)]
  /\ step' = [step EXCEPT ![k] = "wait"]
  /\ UNCHANGED <<on, id, chan, out, expired, tableVars,
                 proc, stdout, taken, working, chatter>>

\* notify("notifications/initialized"), writeMessage succeeds.
WriteInitialized(c) ==
  /\ CanWrite(c)
  /\ stdin' = [stdin EXCEPT ![c] = Append(@, Initialized)]
  /\ UNCHANGED <<callVars, tableVars, proc, stdout, taken, working, chatter>>

\* call k returns with outcome o.
Return(k, o) ==
  /\ step' = [step EXCEPT ![k] = "returned"]
  /\ out' = [out EXCEPT ![k] = o]
  /\ UNCHANGED <<on, id, chan, expired>>

\* Mutant: the entry stays in the table.
GiveUpKeepsEntry(k, o) ==
  /\ Return(k, o)
  /\ UNCHANGED <<tableVars, childVars>>

\* ... and takes its entry out of the table first.
GiveUp(k, o) ==
  /\ pending' = [pending EXCEPT ![on[k]] = @ \ Keyed(on[k], k)]
  /\ Return(k, o)
  /\ UNCHANGED <<closed, nextID, reader, hand, childVars>>

\* Writing fails if the child is gone or has closed its end of the pipe.
WriteFails(k) ==
  /\ step[k] = "write"
  /\ proc[on[k]] # "up"
  /\ GiveUp(k, "write")

\* Mutant: the caller's context is looked at only once the connection is dead.
SelectCtxLate(k) ==
  /\ step[k] = "wait"
  /\ k \in expired
  /\ closed[on[k]]
  /\ GiveUp(k, "ctx")

\* The select of call.  When several cases are ready Go picks one at random.
SelectCtx(k) ==
  /\ step[k] = "wait"
  /\ k \in expired
  /\ GiveUp(k, "ctx")

SelectClosed(k) ==
  /\ step[k] = "wait"
  /\ closed[on[k]]
  /\ GiveUp(k, "closed")

SelectResponse(k) ==
  /\ step[k] = "wait"
  /\ chan[k] # {}
  /\ Return(k, "response")
  /\ UNCHANGED <<tableVars, childVars>>

\* The context shared by the calls in K is cancelled or runs out.
Expire(K) ==
  /\ expired' = expired \cup K
  /\ UNCHANGED <<step, on, id, chan, out, tableVars, childVars>>

-----------------------------------------------------------------------------
(* readLoop, on the reader's goroutine. *)

Scanned(c) ==
  /\ reader[c] = "scan"
  /\ hand[c] = {}
  /\ stdout[c] # <<>>
  /\ stdout' = [stdout EXCEPT ![c] = Tail(@)]
  /\ UNCHANGED <<callVars, closed, nextID, proc, stdin, taken, working, chatter>>

\* Mutant: the entry is not taken out.
ReadAnswerKeepsEntry(c) ==
  /\ Scanned(c)
  /\ Head(stdout[c]) \in Calls
  /\ \E j \in Keyed(c, Head(stdout[c])) :
       hand' = [hand EXCEPT ![c] = {<<j, Head(stdout[c])>>}]
  /\ UNCHANGED <<pending, reader>>

\* A line whose id is in the table: take the entry out, keep its channel.
ReadAnswer(c) ==
  /\ Scanned(c)
  /\ Head(stdout[c]) \in Calls
  /\ \E j \in Keyed(c, Head(stdout[c])) :
       hand' = [hand EXCEPT ![c] = {<<j, Head(stdout[c])>>}]
  /\ pending' = [pending EXCEPT ![c] = @ \ Keyed(c, Head(stdout[c]))]
  /\ UNCHANGED reader

\* A line that nobody waits for is dropped.
ReadDropped(c) ==
  /\ Scanned(c)
  /\ \/ Head(stdout[c]) = Noise
     \/ Head(stdout[c]) \in Calls /\ Keyed(c, Head(stdout[c])) = {}
  /\ UNCHANGED <<pending, reader, hand>>

\* Scan gives up on a line that exceeds its buffer; the loop ends.
ReadOversized(c) ==
  /\ Scanned(c)
  /\ Head(stdout[c]) = Oversized
  /\ reader' = [reader EXCEPT ![c] = "reap"]
  /\ UNCHANGED <<pending, hand>>

\* Mutant: the channel is unbuffered.
DeliverUnbuffered(c) ==
  /\ \E p \in hand[c] :
       /\ chan[p[1]] = {}
       /\ step[p[1]] = "wait"
       /\ chan' = [chan EXCEPT ![p[1]] = {p[2]}]
  /\ hand' = [hand EXCEPT ![c] = {}]
  /\ UNCHANGED <<step, on, id, out, expired, closed, nextID, pending, reader, childVars>>

\* ch <- &resp: the channel has room for one response.
Deliver(c) ==
  /\ \E p \in hand[c] :
       /\ chan[p[1]] = {}
       /\ chan' = [chan EXCEPT ![p[1]] = {p[2]}]
  /\ hand' = [hand EXCEPT ![c] = {}]
  /\ UNCHANGED <<step, on, id, out, expired, closed, nextID, pending, reader, childVars>>

\* Mutant: the child is not waited for.
markDeadAtOnce(c) ==
  /\ \/ reader[c] = "reap"
     \/ reader[c] = "scan" /\ hand[c] = {} /\ stdout[c] = <<>> /\ proc[c] = "down"
  /\ reader' = [reader EXCEPT ![c] = "done"]
  /\ closed' = [closed EXCEPT ![c] = TRUE]
  /\ UNCHANGED <<callVars, nextID, pending, hand, childVars>>

\* The loop has ended, because stdout is at its end or because Scan gave up:
\* cmd.Wait returns once the child is gone, and markDead closes the channel.
markDead(c) ==
  /\ \/ reader[c] = "reap"
     \/ reader[c] = "scan" /\ hand[c] = {} /\ stdout[c] = <<>>
  /\ proc[c] = "down"
  /\ reader' = [reader EXCEPT ![c] = "done"]
  /\ closed' = [closed EXCEPT ![c] = TRUE]
  /\ UNCHANGED <<callVars, nextID, pending, hand, childVars>>

readLoop(c) ==
  \/ ReadAnswer(c)
  \/ ReadDropped(c)
  \/ ReadOversized(c)
  \/ Deliver(c)
  \/ markDead(c)

-----------------------------------------------------------------------------
(* The child process: takes lines in order, works on several at once,      *)
(* answers in any order or never, says other things, closes its stdin and  *)
(* dies at any moment.                                                     *)

ChildTakes(c) ==
  /\ proc[c] = "up"
  /\ stdin[c] # <<>>
  /\ stdin' = [stdin EXCEPT ![c] = Tail(@)]
  /\ taken' = [taken EXCEPT ![c] = @ \cup {Head(stdin[c])}]
  /\ working' = [working EXCEPT ![c] = @ \cup ({Head(stdin[c])} \cap Calls)]
  /\ UNCHANGED <<callVars, tableVars, proc, stdout, chatter>>

ChildWrites(c, line) ==
  /\ Runs(c)
  /\ Len(stdout[c]) < PipeCap
  /\ stdout' = [stdout EXCEPT ![c] = Append(@, line)]
  /\ UNCHANGED <<callVars, tableVars, proc, stdin, taken>>

Chatter ==
  /\ chatter < MaxChatter
  /\ chatter' = chatter + 1

\* The answer to k, which may be too long for the reader.
ChildAnswers(c, k) ==
  /\ k \in working[c]
  /\ \/ ChildWrites(c, k) /\ UNCHANGED chatter
     \/ ChildWrites(c, Oversized) /\ Chatter
  /\ working' = [working EXCEPT ![c] = @ \ {k}]

\* An answer given once more, or a line that is no answer.
ChildChatters(c) ==
  /\ Chatter
  /\ \E line \in ((taken[c] \cap Calls) \ working[c]) \cup {Noise, Oversized} :
       ChildWrites(c, line)
  /\ UNCHANGED working

\* The child lives on without its stdin: the lines in the pipe are lost.
ChildClosesStdin(c) ==
  /\ proc[c] = "up"
  /\ proc' = [proc EXCEPT ![c] = "deaf"]
  /\ stdin' = [stdin EXCEPT ![c] = <<>>]
  /\ UNCHANGED <<callVars, tableVars, stdout, taken, working, chatter>>

\* Of itself, or because it has been killed.
ChildDies(c) ==
  /\ Runs(c) \/ proc[c] = "killed"
  /\ ProcessEnds(c, "down")
  /\ UNCHANGED <<callVars, tableVars>>

child(c) ==
  \/ ChildTakes(c)
  \/ \E k \in Calls : ChildAnswers(c, k)
  \/ ChildChatters(c)
  \/ ChildClosesStdin(c)
  \/ ChildDies(c)

-----------------------------------------------------------------------------

\* What a goroutine does inside call k once it is registered.
call(k) ==
  \/ WriteRequest(k)
  \/ WriteFails(k)
  \/ SelectCtx(k)
  \/ SelectClosed(k)
  \/ SelectResponse(k)

ConnNext ==
  \/ \E c \in Conns : SpawnConn(c) \/ shutdown(c) \/ WriteInitialized(c)
  \/ \E k \in Calls, c \in Conns : Register(k, c)
  \/ \E k \in Calls : call(k)
  \/ \E K \in SUBSET Calls : Expire(K)
  \/ \E c \in Conns : readLoop(c) \/ child(c)

ConnSpec == ConnInit /\ [][ConnNext]_connVars

-----------------------------------------------------------------------------
(* Properties *)

\* The channel of a call holds no answer but the one to the call itself, made
\* on its own connection: neither the calls of one connection nor a stale
\* connection and a fresh one are ever mixed up (stdioConn's comment).
OwnAnswer ==
  /\ \A k \in Calls : chan[k] \subseteq {k}
  /\ \A c \in Conns : \A p \in hand[c] : p[1] = p[2] /\ on[p[1]] = c

\* The reader goroutine finds room in every channel it sends on, however late
\* or often the child answers: ch <- &resp never blocks readLoop.
SendNeverBlocks == \A c \in Conns : \A p \in hand[c] : chan[p[1]] = {}

\* Call k is inside stdioConn.call on c and no answer has been taken for it.
Awaits(k, c) ==
  /\ on[k] = c
  /\ step[k] \in {"write", "wait"}
  /\ chan[k] = {}
  /\ \A p \in hand[c] : p[1] # k

\* The table of a connection holds exactly the calls that await an answer: the
\* reader finds every one of them, so that no answer is dropped while its caller
\* waits, and returning calls leave no entry behind.
TableIsExact == \A k \in Calls, c \in Conns : k \in pending[c] <=> Awaits(k, c)

\* Only a connection whose child has died or been killed is marked dead, so that
\* after an error "closed before responding" the child executes nothing more.
DeadMeansGone == \A c \in Conns : closed[c] => Gone(c)

\* readLoop reads until the child's stdout closes, that is until the child has
\* exited (readLoop's comment).  A line longer than the scanner's buffer, be it
\* an answer or not, ends the loop as well.
ReaderEndsWithChild ==
  \A c \in Conns : reader[c] \in {"reap", "done"} => proc[c] = "down"

=============================================================================
