------------------------------- MODULE Session -------------------------------
(***************************************************************************)
(* A run of the proxy as its client sees it: main aggregates the backends' *)
(* tools, Serve reads messages one at a time, dispatches them and writes   *)
(* the answers (main.go, and Aggregate, ToolsList and lookupRoute of       *)
(* proxy.go).                                                              *)
(*                                                                         *)
(* What a tools/call goes through once its route is known is module Proxy; *)
(* here it is dispatched to the route in one step.  A backend answers      *)
(* tools/list as it likes: it may have been redeployed with other tools    *)
(* since the last time.                                                    *)
(***************************************************************************)
EXTENDS Naturals, Sequences, FiniteSets

CONSTANTS
  BackendOrder,  \* the ids of the backends, in config order
  ToolLists,     \* what a backend may answer to tools/list
  Nameless,      \* a descriptor that is undecodable or has no name
  CallNames,     \* the names that the client may call
  MaxLines       \* bound: messages the client sends

\* An id, a tool's name or an exposed name is the sequence of its parts between
\* "__", which is what joins an id and a name.
Ids == {BackendOrder[i] : i \in DOMAIN BackendOrder}

Descriptors == UNION {{list[i] : i \in DOMAIN list} : list \in ToolLists}

ASSUME OrderAssumption ==
  /\ BackendOrder \in Seq(Ids) \ {<<>>}
  /\ ToolLists \subseteq Seq(Descriptors)
  /\ \A i, j \in DOMAIN BackendOrder : BackendOrder[i] = BackendOrder[j] => i = j
  /\ MaxLines \in Nat

exposedName(id, tool) == IF Len(BackendOrder) > 1 THEN id \o tool ELSE tool

\* Two tools with different names are not joined to the same one with one id.
ASSUME NamesAssumption ==
  \A id \in Ids : \A s, t \in Descriptors \ {Nameless} : id \o s = id \o t => s = t

\* A route, and the descriptor listed for it.
Route(id, tool) == [name |-> exposedName(id, tool), backend |-> id, tool |-> tool]

VARIABLES
  startup,       \* "aggregate", or "skip" as in the tests
  phase,         \* "aggregate", "serve", "handle" or "stopped"
  todo,          \* Aggregate: the backends still to do, the first under way
  step,          \* Aggregate: "initialize", "list" or "merge" for that backend
  queue,         \* Aggregate: its descriptors still to merge
  building,      \* Aggregate: the locals exposed and routes
  healthy,       \* Aggregate: backends that have listed their tools
  exposedTools,  \* p.exposedTools
  routes,        \* p.routes
  aggregated,    \* p.aggregated
  lines,         \* the messages sent by the client
  read,          \* how many of them Serve has read
  eof,           \* the client has closed its end
  cancelled,     \* SIGINT or SIGTERM has arrived
  answers,       \* what Serve has written
  attempts,      \* history: how often Aggregate was begun
  listed         \* history: per backend, what it listed in the last Aggregate

localVars  == <<todo, step, queue, building, healthy, attempts, listed>>
proxyVars  == <<exposedTools, routes, aggregated>>
clientVars == <<lines, eof, cancelled>>
vars       == <<startup, phase, localVars, proxyVars, clientVars, read, answers>>

\* initialize and ping are answered alike; "garbage" is not JSON, "malformed" a
\* tools/call whose parameters are no good, "oversized" a line longer than the
\* scanner's buffer.  A message without id is a notification.
Messages ==
  [kind : {"ping", "initialized", "tools/list", "malformed", "unknown",
           "garbage", "blank", "oversized"}, name : {<<>>}, note : {FALSE}]
  \cup [kind : {"initialized", "unknown", "tools/list"}, name : {<<>>}, note : {TRUE}]
  \cup [kind : {"tools/call"}, name : CallNames, note : {FALSE}]

Init ==
  /\ startup \in {"aggregate", "skip"}
  /\ phase = IF startup = "aggregate" THEN "aggregate" ELSE "serve"
  /\ todo = BackendOrder
  /\ step = "initialize"
  /\ queue = <<>>
  /\ building = [exposed |-> <<>>, routes |-> {}]
  /\ healthy = 0
  /\ attempts = IF startup = "aggregate" THEN 1 ELSE 0
  /\ listed = [id \in Ids |-> <<>>]
  /\ exposedTools = <<>>
  /\ routes = {}
  /\ aggregated = FALSE
  /\ lines = <<>>
  /\ read = 0
  /\ eof = FALSE
  /\ cancelled = FALSE
  /\ answers = <<>>

-----------------------------------------------------------------------------
(* Aggregate. *)

Aggregate ==
  /\ phase' = "aggregate"
  /\ todo' = BackendOrder
  /\ step' = "initialize"
  /\ queue' = <<>>
  /\ building' = [exposed |-> <<>>, routes |-> {}]
  /\ healthy' = 0
  /\ attempts' = attempts + 1
  /\ listed' = [id \in Ids |-> <<>>]

Aggregating(s) == phase = "aggregate" /\ todo # <<>> /\ step = s

Initialized ==
  /\ Aggregating("initialize")
  /\ step' = "list"
  /\ UNCHANGED <<startup, phase, todo, queue, building, healthy, attempts, listed,
                 proxyVars, clientVars, read, answers>>

\* A backend that fails to initialize or to list is skipped.
BackendFails ==
  /\ Aggregating("initialize") \/ Aggregating("list")
  /\ todo' = Tail(todo)
  /\ step' = "initialize"
  /\ UNCHANGED <<startup, phase, queue, building, healthy, attempts, listed,
                 proxyVars, clientVars, read, answers>>

\* Mutant: what is counted is tools.
ToolsListedCounted ==
  /\ Aggregating("list")
  /\ \E tools \in ToolLists :
       /\ queue' = tools
       /\ listed' = [listed EXCEPT ![Head(todo)] = tools]
       /\ healthy' = healthy + Len(tools)
  /\ step' = "merge"
  /\ UNCHANGED <<startup, phase, todo, building, attempts,
                 proxyVars, clientVars, read, answers>>

ToolsListed ==
  /\ Aggregating("list")
  /\ \E tools \in ToolLists :
       /\ queue' = tools
       /\ listed' = [listed EXCEPT ![Head(todo)] = tools]
  /\ healthy' = healthy + 1
  /\ step' = "merge"
  /\ UNCHANGED <<startup, phase, todo, building, attempts,
                 proxyVars, clientVars, read, answers>>

Taken(name) == \E r \in building.routes : r.name = name

\* Mutant: a bad descriptor ends the backend's list.
SkipRest ==
  /\ Aggregating("merge")
  /\ queue # <<>>
  /\ \/ Head(queue) = Nameless
     \/ Head(queue) # Nameless /\ Taken(exposedName(Head(todo), Head(queue)))
  /\ queue' = <<>>
  /\ UNCHANGED <<startup, phase, todo, step, building, healthy, attempts, listed,
                 proxyVars, clientVars, read, answers>>

\* A descriptor without a name, or with an exposed name that is taken.
SkipTool ==
  /\ Aggregating("merge")
  /\ queue # <<>>
  /\ \/ Head(queue) = Nameless
     \/ Head(queue) # Nameless /\ Taken(exposedName(Head(todo), Head(queue)))
  /\ queue' = Tail(queue)
  /\ UNCHANGED <<startup, phase, todo, step, building, healthy, attempts, listed,
                 proxyVars, clientVars, read, answers>>

\* Mutant: a name that is taken goes to the later tool.
AddToolReplaces ==
  /\ Aggregating("merge")
  /\ queue # <<>>
  /\ Head(queue) # Nameless
  /\ LET r == Route(Head(todo), Head(queue)) IN
       building' = [exposed |-> Append(building.exposed, r),
                    routes  |-> {o \in building.routes : o.name # r.name} \cup {r}]
  /\ queue' = Tail(queue)
  /\ UNCHANGED <<startup, phase, todo, step, healthy, attempts, listed,
                 proxyVars, clientVars, read, answers>>

AddTool ==
  /\ Aggregating("merge")
  /\ queue # <<>>
  /\ Head(queue) # Nameless
  /\ ~Taken(exposedName(Head(todo), Head(queue)))
  /\ LET r == Route(Head(todo), Head(queue)) IN
       building' = [exposed |-> Append(building.exposed, r),
                    routes  |-> building.routes \cup {r}]
  /\ queue' = Tail(queue)
  /\ UNCHANGED <<startup, phase, todo, step, healthy, attempts, listed,
                 proxyVars, clientVars, read, answers>>

BackendMerged ==
  /\ Aggregating("merge")
  /\ queue = <<>>
  /\ todo' = Tail(todo)
  /\ step' = "initialize"
  /\ UNCHANGED <<startup, phase, queue, building, healthy, attempts, listed,
                 proxyVars, clientVars, read, answers>>

\* Publish the tools and routes, whether or not any backend is healthy.
Publish(ok) ==
  /\ phase = "aggregate"
  /\ todo = <<>>
  /\ ok = (healthy > 0)
  /\ exposedTools' = building.exposed
  /\ routes' = building.routes
  /\ aggregated' = TRUE
  /\ UNCHANGED <<startup, localVars, clientVars, read>>

\* At startup main only logs a failure.
AggregatedAtStartup ==
  /\ read = 0
  /\ \E ok \in BOOLEAN : Publish(ok)
  /\ phase' = "serve"
  /\ UNCHANGED answers

aggregation ==
  \/ Initialized
  \/ BackendFails
  \/ ToolsListed
  \/ SkipTool
  \/ AddTool
  \/ BackendMerged
  \/ AggregatedAtStartup

-----------------------------------------------------------------------------
(* Serve and dispatch. *)

Serving == phase = "serve"

Returns ==
  /\ phase' = "stopped"
  /\ UNCHANGED <<startup, localVars, proxyVars, clientVars, answers>>

\* The input is at its end, or its next line does not fit the scanner's buffer.
EndOfInput ==
  /\ Serving
  /\ \/ eof /\ read = Len(lines) /\ UNCHANGED read
     \/ /\ read < Len(lines)
        /\ lines[read + 1].kind = "oversized"
        /\ read' = read + 1
  /\ Returns

\* The context is looked at once a line has been read.
SeesCancel ==
  /\ Serving
  /\ cancelled
  /\ read < Len(lines)
  /\ lines[read + 1].kind # "oversized"
  /\ read' = read + 1
  /\ Returns

ReadLine ==
  /\ Serving
  /\ ~cancelled
  /\ read < Len(lines)
  /\ lines[read + 1].kind # "oversized"
  /\ read' = read + 1
  /\ phase' = "handle"
  /\ UNCHANGED <<startup, localVars, proxyVars, clientVars, answers>>

Handling(kinds) == phase = "handle" /\ lines[read].kind \in kinds

\* A blank line, a notification that is known or of an unknown method.
Ignore ==
  /\ \/ Handling({"blank", "initialized"})
     \/ Handling({"unknown"}) /\ lines[read].note
  /\ phase' = "serve"
  /\ UNCHANGED <<startup, localVars, proxyVars, clientVars, read, answers>>

\* Mutant: an error is not worth an answer.
WriteGoodNews(kind, about) ==
  /\ answers' = IF kind = "error" THEN answers
                ELSE Append(answers, [to |-> read, kind |-> kind, about |-> about])
  /\ phase' = "serve"

\* Write the answer to the message under way, with the routes it is about;
\* Serve returns if it cannot be written.
Write(kind, about) ==
  \/ /\ answers' = Append(answers, [to |-> read, kind |-> kind, about |-> about])
     /\ phase' = "serve"
  \/ phase' = "stopped" /\ UNCHANGED answers

Answer(kind, about) ==
  /\ Write(kind, about)
  /\ UNCHANGED <<startup, localVars, proxyVars, clientVars, read>>

HandlePing == Handling({"ping"}) /\ Answer("ok", {})

\* A line that is not JSON.  That its answer cannot be written is ignored, unless
\* the signal of the broken pipe ends the process.
ParseError ==
  /\ Handling({"garbage"})
  /\ \/ Write("error", {})
     \/ phase' = "serve" /\ UNCHANGED answers
  /\ UNCHANGED <<startup, localVars, proxyVars, clientVars, read>>

Refuse ==
  /\ \/ Handling({"malformed"})
     \/ Handling({"unknown"}) /\ ~lines[read].note
  /\ Answer("error", {})

\* Mutant: the flag is not looked at.
LazyAggregateAlways ==
  /\ Handling({"tools/list", "tools/call"})
  /\ Aggregate
  /\ UNCHANGED <<startup, proxyVars, clientVars, read, answers>>

\* ToolsList and lookupRoute aggregate first if that has not been done,
LazyAggregate ==
  /\ Handling({"tools/list", "tools/call"})
  /\ ~aggregated
  /\ Aggregate
  /\ UNCHANGED <<startup, proxyVars, clientVars, read, answers>>

\* ... and then fail
LazyFails ==
  /\ read > 0
  /\ Publish(FALSE)
  /\ Write("error", {})

\* ... or go on.
LazyDone ==
  /\ read > 0
  /\ Publish(TRUE)
  /\ phase' = "handle"
  /\ UNCHANGED answers

ToolsList ==
  /\ Handling({"tools/list"})
  /\ aggregated
  /\ Answer("tools", {exposedTools[i] : i \in DOMAIN exposedTools})

ToolsCall ==
  /\ Handling({"tools/call"})
  /\ aggregated
  /\ \E r \in routes : r.name = lines[read].name /\ Answer("called", {r})

UnknownTool ==
  /\ Handling({"tools/call"})
  /\ aggregated
  /\ \A r \in routes : r.name # lines[read].name
  /\ Answer("error", {})

Serve ==
  \/ EndOfInput
  \/ SeesCancel
  \/ ReadLine
  \/ Ignore
  \/ HandlePing
  \/ ParseError
  \/ Refuse
  \/ LazyAggregate
  \/ LazyFails
  \/ LazyDone
  \/ ToolsList
  \/ ToolsCall
  \/ UnknownTool

-----------------------------------------------------------------------------
(* The client and the signals. *)

Send ==
  /\ ~eof
  /\ Len(lines) < MaxLines
  /\ \E m \in Messages : lines' = Append(lines, m)
  /\ UNCHANGED <<startup, phase, localVars, proxyVars, eof, cancelled, read, answers>>

CloseInput ==
  /\ ~eof
  /\ eof' = TRUE
  /\ UNCHANGED <<startup, phase, localVars, proxyVars, lines, cancelled, read, answers>>

Signal ==
  /\ ~cancelled
  /\ cancelled' = TRUE
  /\ UNCHANGED <<startup, phase, localVars, proxyVars, lines, eof, read, answers>>

-----------------------------------------------------------------------------

Next == aggregation \/ Serve \/ Send \/ CloseInput \/ Signal

Spec == Init /\ [][Next]_vars

\* main's goroutine runs.  That a backend being aggregated answers or fails is
\* assumed: Aggregate sets no time limit.
FairSpec == Spec /\ WF_vars(aggregation \/ Serve)

-----------------------------------------------------------------------------
(* Properties *)

Names == {exposedName(id, tool) : id \in Ids, tool \in Descriptors \ {Nameless}}

SessionTypeOK ==
  /\ phase \in {"aggregate", "serve", "handle", "stopped"}
  /\ \E i \in 0..Len(BackendOrder) : todo = SubSeq(BackendOrder, i + 1, Len(BackendOrder))
  /\ step \in {"initialize", "list", "merge"}
  /\ healthy \in 0..Len(BackendOrder)
  /\ {r.name : r \in routes} \subseteq Names
  /\ aggregated \in BOOLEAN
  /\ lines \in Seq(Messages)
  /\ read \in 0..Len(lines)
  /\ \A i \in DOMAIN answers : answers[i].to \in 1..read

\* The descriptors that the client is given and the routes correspond one to
\* one, and no two have the same name, whatever the backends list.
ListedIsRouted ==
  /\ routes = {exposedTools[i] : i \in DOMAIN exposedTools}
  /\ \A i, j \in DOMAIN exposedTools : exposedTools[i].name = exposedTools[j].name => i = j
  /\ \A r, o \in routes : r.name = o.name => r = o

\* Every tool that a healthy backend lists under a name is routed, unless a tool
\* before it, of the same or of an earlier backend, has its name.
NothingLost ==
  aggregated /\ phase # "aggregate" =>
    \A i \in DOMAIN BackendOrder : \A n \in DOMAIN listed[BackendOrder[i]] :
      LET tool == listed[BackendOrder[i]][n] IN
      tool = Nameless \/
        \E r \in routes :
          /\ r.name = exposedName(BackendOrder[i], tool)
          /\ \/ r = Route(BackendOrder[i], tool)
             \/ \E j \in 1..(i - 1) : r.backend = BackendOrder[j]

\* A call reaches the tool whose descriptor the client was given under that
\* name, in the answer to any tools/list before.
CallMeansListed ==
  \A i, j \in DOMAIN answers :
    /\ i < j
    /\ answers[i].kind = "tools"
    /\ lines[answers[j].to].kind = "tools/call"
    => \A d \in answers[i].about :
         d.name = lines[answers[j].to].name => answers[j].about = {d}

\* dispatch gives message m an answer.
Expected(m) ==
  /\ m.kind \notin {"blank", "garbage", "initialized", "oversized"}
  /\ m.kind = "unknown" => ~m.note

\* Serve takes messages one at a time: it never reads the next one before the
\* one under way is answered, whatever aggregation comes between, no answer
\* overtakes another, and none is given twice.
AnsweredInTurn ==
  /\ \A i, j \in DOMAIN answers : i < j => answers[i].to < answers[j].to
  /\ \A i \in 1..read : Expected(lines[i]) /\ (i < read \/ phase = "serve") =>
       \E n \in DOMAIN answers : answers[n].to = i

\* The tools of the first aggregation stand for the life of the process: no later
\* message changes the list or the routes (ToolsList and lookupRoute aggregate
\* only if that has not been done).
ToolsFixed == [][aggregated => UNCHANGED <<exposedTools, routes>>]_vars

\* Every request gets its answer, unless the session ends: nothing a backend
\* lists and nothing a client sends stops Serve but the end of its input, a
\* line that is too long, a signal or an error on stdout.
RequestsAnswered ==
  \A i \in 1..MaxLines :
    /\ i <= read
    /\ ~lines[i].note
    /\ Expected(lines[i])
    ~> phase = "stopped" \/ \E n \in DOMAIN answers : answers[n].to = i

\* "will retry on first tools/list" (main's warning after an aggregation that
\* found no backend).  The flag is set all the same, so it never does.
RetriesAggregation ==
  \A i \in DOMAIN answers :
    answers[i].kind = "tools" /\ startup = "aggregate" /\ healthy = 0 => attempts > 1

\* "It returns when in reaches EOF or ctx is cancelled" (Serve's comment).  The
\* context is looked at only when a line arrives.
CancelStops == cancelled ~> phase = "stopped"

=============================================================================
