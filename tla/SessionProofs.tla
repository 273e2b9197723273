---------------------------- MODULE SessionProofs ----------------------------
(***************************************************************************)
(* Proofs about a session: for any number of backends and messages, and    *)
(* whatever the backends list, the list the client is given and the routes *)
(* agree, and a call means what the list said.                             *)
(***************************************************************************)
EXTENDS Session, SequenceTheorems, TLAPS

Entries == {Route(id, tool) : id \in Ids, tool \in Descriptors}

Listed(exposed) == {exposed[i] : i \in DOMAIN exposed}

\* A table of routes is what is exposed, without two of the same name.
Matches(exposed, table) ==
  /\ table = Listed(exposed)
  /\ \A i, j \in DOMAIN exposed : exposed[i].name = exposed[j].name => i = j

\* The tables, while they are built and once they are published.
Tables ==
  /\ todo \in Seq(Ids)
  /\ queue \in Seq(Descriptors)
  /\ building.exposed \in Seq(Entries)
  /\ Matches(building.exposed, building.routes)
  /\ exposedTools \in Seq(Entries)
  /\ Matches(exposedTools, routes)

LEMMA AddedMatches ==
  ASSUME NEW exposed \in Seq(Entries), NEW table, NEW r \in Entries,
         Matches(exposed, table), \A o \in table : o.name # r.name
  PROVE  /\ Append(exposed, r) \in Seq(Entries)
         /\ Matches(Append(exposed, r), table \cup {r})
<1> DEFINE longer == Append(exposed, r)
<1>1. /\ longer \in Seq(Entries)
      /\ DOMAIN longer = 1..(Len(exposed) + 1)
      /\ DOMAIN exposed = 1..Len(exposed)
      /\ Len(exposed) \in Nat
      /\ \A i \in 1..Len(exposed) : longer[i] = exposed[i]
      /\ longer[Len(exposed) + 1] = r
  OBVIOUS
<1> HIDE DEF longer
<1>2. Listed(longer) = Listed(exposed) \cup {r}
  BY <1>1 DEF Listed
<1>3. \A i \in DOMAIN exposed : exposed[i].name # r.name
  BY DEF Matches, Listed
<1>4. \A i, j \in DOMAIN longer : longer[i].name = longer[j].name => i = j
  <2> SUFFICES ASSUME NEW i \in DOMAIN longer, NEW j \in DOMAIN longer,
                      longer[i].name = longer[j].name
               PROVE  i = j
    OBVIOUS
  <2>1. CASE i \in DOMAIN exposed /\ j \in DOMAIN exposed
    BY <1>1, <2>1 DEF Matches
  <2>2. CASE i \in DOMAIN exposed /\ j = Len(exposed) + 1
    BY <1>1, <1>3, <2>2
  <2>3. CASE i = Len(exposed) + 1 /\ j \in DOMAIN exposed
    BY <1>1, <1>3, <2>3
  <2>4. CASE i = Len(exposed) + 1 /\ j = Len(exposed) + 1
    BY <2>4
  <2> QED BY <1>1, <2>1, <2>2, <2>3, <2>4
<1>5. Matches(longer, table \cup {r})
  BY <1>2, <1>4 DEF Matches
<1> QED BY <1>1, <1>5 DEF longer

LEMMA EmptyMatches == Matches(<<>>, {})
BY DEF Matches, Listed

LEMMA TablesStep ==
  ASSUME Tables, [Next]_vars
  PROVE  Tables'
<1> USE DEF localVars, proxyVars, clientVars
<1>1. ASSUME LazyAggregate PROVE Tables'
  BY <1>1, EmptyMatches, OrderAssumption DEF LazyAggregate, Aggregate, Tables, Matches, Listed
<1>2. ASSUME Initialized PROVE Tables'
  BY <1>2 DEF Initialized, Tables, Matches, Listed
<1>3. ASSUME BackendFails \/ BackendMerged PROVE Tables'
  <2>1. /\ todo # <<>>
        /\ todo' = Tail(todo)
        /\ UNCHANGED <<queue, building, proxyVars>>
    BY <1>3 DEF BackendFails, BackendMerged, Aggregating
  <2>2. todo' \in Seq(Ids)
    BY <2>1 DEF Tables
  <2> QED BY <2>1, <2>2 DEF Tables, Matches, Listed
<1>4. ASSUME ToolsListed PROVE Tables'
  BY <1>4, OrderAssumption DEF ToolsListed, Tables, Matches, Listed
<1>5. ASSUME SkipTool PROVE Tables'
  BY <1>5 DEF SkipTool, Tables, Matches, Listed
<1>6. ASSUME AddTool PROVE Tables'
  <2> DEFINE r == Route(Head(todo), Head(queue))
  <2>1. r \in Entries
    BY <1>6 DEF AddTool, Aggregating, Tables, Entries
  <2>2. \A o \in building.routes : o.name # r.name
    BY <1>6 DEF AddTool, Taken, Route
  <2>3. /\ building'.exposed = Append(building.exposed, r)
        /\ building'.routes = building.routes \cup {r}
    BY <1>6 DEF AddTool
  <2>4. building'.exposed \in Seq(Entries) /\ Matches(building'.exposed, building'.routes)
    <3>1. building.exposed \in Seq(Entries) /\ Matches(building.exposed, building.routes)
      BY DEF Tables
    <3> HIDE DEF r
    <3>2. /\ Append(building.exposed, r) \in Seq(Entries)
          /\ Matches(Append(building.exposed, r), building.routes \cup {r})
      BY <2>1, <2>2, <3>1, AddedMatches
    <3> QED BY <2>3, <3>2
  <2>5. queue' \in Seq(Descriptors)
    BY <1>6 DEF AddTool, Tables
  <2>6. UNCHANGED <<todo, proxyVars>>
    BY <1>6 DEF AddTool
  <2>7. Matches(exposedTools, routes)'
    BY <2>6 DEF Tables, Matches, Listed
  <2>8. Matches(building.exposed, building.routes)'
    BY <2>4 DEF Matches, Listed
  <2> QED BY <2>4, <2>5, <2>6, <2>7, <2>8 DEF Tables
<1>7. ASSUME NEW ok, Publish(ok) PROVE Tables'
  BY <1>7 DEF Publish, Tables, Matches, Listed
<1>8. ASSUME UNCHANGED <<localVars, proxyVars>> PROVE Tables'
  BY <1>8 DEF Tables, Matches, Listed
<1>9. ASSUME Serve PROVE Tables'
  BY <1>1, <1>7, <1>8, <1>9 DEF Serve, EndOfInput, SeesCancel, ReadLine, Returns, Ignore,
     HandlePing, ParseError, Refuse, Answer, LazyFails, LazyDone, ToolsList, ToolsCall, UnknownTool
<1>10. ASSUME aggregation PROVE Tables'
  BY <1>2, <1>3, <1>4, <1>5, <1>6, <1>7, <1>10 DEF aggregation, AggregatedAtStartup
<1> QED
  BY <1>8, <1>9, <1>10 DEF Next, Send, CloseInput, Signal, vars

\* The descriptors given to the client and the routes agree.
THEOREM ListedIsRoutedHolds == Spec => []ListedIsRouted
<1>1. Init => Tables
  BY EmptyMatches, OrderAssumption DEF Init, Tables
<1>2. Tables /\ [Next]_vars => Tables'
  BY TablesStep
<1>3. Tables => ListedIsRouted
  BY DEF Tables, Matches, Listed, ListedIsRouted
<1> QED BY <1>1, <1>2, <1>3, PTL DEF Spec

-----------------------------------------------------------------------------
(* What has been read and answered. *)

Answers == [to : Nat, kind : {"ok", "error", "tools", "called"}, about : SUBSET Entries]

\* Once the tools are aggregated they are never aggregated again.
Positions ==
  /\ lines \in Seq(Messages)
  /\ read \in 0..Len(lines)
  /\ phase = "handle" => read > 0
  /\ aggregated => phase # "aggregate"
  /\ answers \in Seq(Answers)
  /\ \A i \in DOMAIN answers : answers[i].to \in 1..read

\* The answer to a tools/call is about the route of its name, if there is one.
Right(a) ==
  \/ \E r \in routes : r.name = lines[a.to].name /\ a.about = {r}
  \/ a.about = {} /\ \A r \in routes : r.name # lines[a.to].name

\* The lists given to the client are the routes of today, and the calls answered
\* after the first of them went by these routes.
Means(j) ==
  /\ answers[j].kind = "tools" => aggregated /\ answers[j].about = routes
  /\ lines[answers[j].to].kind = "tools/call" =>
       (\A i \in 1..(j - 1) : answers[i].kind # "tools") \/ Right(answers[j])

History == \A j \in DOMAIN answers : Means(j)

\* The routes stay, unless they are not yet aggregated.
RoutesKept == UNCHANGED <<routes, aggregated>> \/ ~aggregated

LEMMA NoAnswerStep ==
  ASSUME Positions, History, UNCHANGED answers, RoutesKept,
         UNCHANGED lines \/ (\E m \in Messages : lines' = Append(lines, m))
  PROVE  History'
<1> SUFFICES ASSUME NEW j \in DOMAIN answers PROVE Means(j)'
  BY DEF History
<1>1. Means(j) /\ answers \in Seq(Answers) /\ answers[j].to \in 1..Len(lines)
  BY DEF History, Positions
<1>2. lines'[answers[j].to] = lines[answers[j].to]
  BY <1>1 DEF Positions
<1>3. CASE UNCHANGED <<routes, aggregated>>
  BY <1>1, <1>2, <1>3 DEF Means, Right
<1>4. CASE ~aggregated
  <2>1. \A i \in DOMAIN answers : answers[i].kind # "tools"
    BY <1>4 DEF History, Means
  <2>2. DOMAIN answers = 1..Len(answers) /\ j \in 1..Len(answers) /\ Len(answers) \in Nat
    BY <1>1
  <2>3. \A i \in 1..(j - 1) : i \in DOMAIN answers
    BY <2>2
  <2> QED BY <2>1, <2>3 DEF Means
<1> QED BY <1>3, <1>4 DEF RoutesKept

LEMMA AnswerStep ==
  ASSUME Positions, History, RoutesKept, UNCHANGED lines, read > 0,
         NEW a \in Answers, a.to = read, answers' = Append(answers, a),
         a.kind = "tools" => aggregated' /\ a.about = routes',
         lines[read].kind = "tools/call" => Right(a)' \/ ~aggregated
  PROVE  History'
<1> SUFFICES ASSUME NEW j \in DOMAIN answers' PROVE Means(j)'
  BY DEF History
<1>1. /\ Len(answers) \in Nat
      /\ DOMAIN answers = 1..Len(answers)
      /\ DOMAIN answers' = 1..(Len(answers) + 1)
      /\ \A i \in 1..Len(answers) : answers'[i] = answers[i]
      /\ answers'[Len(answers) + 1] = a
  BY DEF Positions
<1>2. ASSUME ~aggregated PROVE \A i \in 1..Len(answers) : answers'[i].kind # "tools"
  BY <1>1, <1>2 DEF History, Means
<1>3. CASE j \in 1..Len(answers)
  <2>1. Means(j) /\ answers'[j] = answers[j]
    BY <1>1, <1>3 DEF History
  <2>2. \A i \in 1..(j - 1) : answers'[i] = answers[i] /\ i \in 1..Len(answers)
    BY <1>1, <1>3
  <2>3. CASE UNCHANGED <<routes, aggregated>>
    BY <2>1, <2>2, <2>3 DEF Means, Right
  <2>4. CASE ~aggregated
    <3>1. answers'[j].kind # "tools" /\ \A i \in 1..(j - 1) : answers'[i].kind # "tools"
      BY <1>2, <1>3, <2>2, <2>4
    <3> QED BY <3>1 DEF Means
  <2> QED BY <2>3, <2>4 DEF RoutesKept
<1>4. CASE j = Len(answers) + 1
  <2>1. answers'[j] = a /\ j - 1 = Len(answers)
    BY <1>1, <1>4
  <2>2. CASE lines[read].kind = "tools/call" /\ ~aggregated
    BY <1>2, <2>1, <2>2 DEF Means
  <2>3. CASE lines[read].kind = "tools/call" => Right(a)'
    BY <2>1, <2>3 DEF Means, Right
  <2> QED BY <2>2, <2>3
<1> QED BY <1>1, <1>3, <1>4

LEMMA PositionsKept ==
  ASSUME Positions, UNCHANGED answers, RoutesKept,
         UNCHANGED lines \/ (\E m \in Messages : lines' = Append(lines, m)),
         read' \in read..Len(lines'), phase' = "handle" => read' > 0,
         aggregated' => phase' # "aggregate"
  PROVE  Positions'
<1>1. lines' \in Seq(Messages) /\ Len(lines) <= Len(lines') /\ Len(lines) \in Nat
  <2>1. lines \in Seq(Messages)
    BY DEF Positions
  <2>2. ASSUME NEW m \in Messages, lines' = Append(lines, m)
        PROVE  lines' \in Seq(Messages) /\ Len(lines') = Len(lines) + 1
    BY <2>1, <2>2
  <2> QED BY <2>1, <2>2
<1>2. read' \in 0..Len(lines')
  BY <1>1 DEF Positions
<1>3. \A i \in DOMAIN answers : answers[i].to \in 1..read'
  BY <1>1 DEF Positions
<1> QED BY <1>1, <1>2, <1>3 DEF Positions

\* Writing an answer to the message under way.
LEMMA WriteStep ==
  ASSUME Positions, History, RoutesKept, UNCHANGED <<lines, read>>, read > 0,
         NEW kind \in {"ok", "error", "tools", "called"}, NEW about \in SUBSET Entries,
         Write(kind, about),
         kind = "tools" => aggregated' /\ about = routes',
         lines[read].kind = "tools/call" =>
           \/ ~aggregated
           \/ \E r \in routes' : r.name = lines[read].name /\ about = {r}
           \/ about = {} /\ \A r \in routes' : r.name # lines[read].name
  PROVE  Positions' /\ History'
<1> DEFINE a == [to |-> read, kind |-> kind, about |-> about]
<1>1. CASE answers' = Append(answers, a) /\ phase' = "serve"
  <2>1. a \in Answers /\ a.to = read
    BY DEF Answers, Positions
  <2>2. lines[read].kind = "tools/call" => Right(a)' \/ ~aggregated
    BY DEF Right
  <2>3. History'
    BY <1>1, <2>1, <2>2, AnswerStep
  <2>4. answers' \in Seq(Answers) /\ \A i \in DOMAIN answers' : answers'[i].to \in 1..read
    BY <1>1, <2>1 DEF Positions
  <2> QED BY <1>1, <2>3, <2>4 DEF Positions
<1>2. CASE phase' = "stopped" /\ UNCHANGED answers
  BY <1>2, NoAnswerStep, PositionsKept DEF Positions
<1> QED BY <1>1, <1>2 DEF Write

LEMMA HistoryStep ==
  ASSUME Tables, Positions, History, [Next]_vars
  PROVE  Positions' /\ History'
<1> USE DEF localVars, proxyVars, clientVars
<1>0. routes \subseteq Entries /\ routes = Listed(exposedTools)
  BY DEF Tables, Matches, Listed
<1>a. read \in Nat /\ Len(lines) \in Nat /\ read <= Len(lines)
  BY DEF Positions
\* Steps that answer nothing.
<1>1. ASSUME UNCHANGED <<proxyVars, answers>>,
             UNCHANGED lines \/ (\E m \in Messages : lines' = Append(lines, m)),
             read' \in read..Len(lines'), phase' = "handle" => read' > 0,
             aggregated => phase' # "aggregate"
      PROVE  Positions' /\ History'
  BY <1>1, NoAnswerStep, PositionsKept DEF RoutesKept
<1>2. ASSUME \/ Initialized \/ BackendFails \/ ToolsListed \/ SkipTool \/ AddTool
             \/ BackendMerged
      PROVE  Positions' /\ History'
  <2>1. UNCHANGED <<phase, proxyVars, answers, lines, read>>
    BY <1>2 DEF Initialized, BackendFails, ToolsListed, SkipTool, AddTool, BackendMerged
  <2> QED BY <1>1, <1>a, <2>1 DEF Positions
<1>3. ASSUME NEW ok, Publish(ok)
      PROVE  /\ ~aggregated /\ RoutesKept
             /\ UNCHANGED <<lines, read>>
  BY <1>3 DEF Publish, Positions, RoutesKept
<1>4. ASSUME AggregatedAtStartup PROVE Positions' /\ History'
  <2>1. RoutesKept /\ UNCHANGED <<lines, read, answers>> /\ phase' = "serve"
    BY <1>3, <1>4 DEF AggregatedAtStartup
  <2> QED BY <1>a, <2>1, NoAnswerStep, PositionsKept
<1>5. ASSUME EndOfInput \/ SeesCancel \/ ReadLine \/ Ignore PROVE Positions' /\ History'
  <2>1. UNCHANGED <<proxyVars, answers, lines>>
    BY <1>5 DEF EndOfInput, SeesCancel, ReadLine, Ignore, Returns
  <2>2. read' \in read..Len(lines') /\ (phase' = "handle" => read' > 0) /\ phase' # "aggregate"
    BY <1>5, <1>a DEF EndOfInput, SeesCancel, ReadLine, Ignore, Returns
  <2> QED BY <1>1, <2>1, <2>2
<1>6. ASSUME HandlePing \/ ParseError \/ Refuse PROVE Positions' /\ History'
  <2>1. /\ phase = "handle"
        /\ lines[read].kind # "tools/call"
        /\ UNCHANGED <<proxyVars, lines, read>>
        /\ \/ \E kind \in {"ok", "error"} : Write(kind, {})
           \/ phase' = "serve" /\ UNCHANGED answers
    BY <1>6 DEF HandlePing, ParseError, Refuse, Handling, Answer
  <2>2. CASE phase' = "serve" /\ UNCHANGED answers
    BY <1>1, <1>a, <2>1, <2>2
  <2> QED BY <2>1, <2>2, WriteStep DEF Positions, RoutesKept
<1>7. ASSUME LazyAggregate PROVE Positions' /\ History'
  <2>1. ~aggregated /\ UNCHANGED <<proxyVars, answers, lines, read>> /\ phase' = "aggregate"
    BY <1>7 DEF LazyAggregate, Aggregate
  <2> QED BY <1>1, <1>a, <2>1
<1>8. ASSUME LazyFails PROVE Positions' /\ History'
  <2>1. ~aggregated /\ RoutesKept /\ UNCHANGED <<lines, read>> /\ read > 0 /\ Write("error", {})
    BY <1>3, <1>8 DEF LazyFails
  <2> QED BY <2>1, WriteStep
<1>9. ASSUME LazyDone PROVE Positions' /\ History'
  <2>1. RoutesKept /\ UNCHANGED <<lines, read, answers>> /\ phase' = "handle" /\ read > 0
    BY <1>3, <1>9 DEF LazyDone
  <2> QED BY <1>a, <2>1, NoAnswerStep, PositionsKept
<1>10. ASSUME ToolsList PROVE Positions' /\ History'
  <2>1. /\ phase = "handle" /\ lines[read].kind # "tools/call" /\ aggregated
        /\ UNCHANGED <<proxyVars, lines, read>>
        /\ Write("tools", routes)
    BY <1>0, <1>10 DEF ToolsList, Handling, Answer, Listed
  <2> QED BY <1>0, <2>1, WriteStep DEF Positions, RoutesKept
<1>11. ASSUME ToolsCall PROVE Positions' /\ History'
  <2>1. /\ phase = "handle" /\ UNCHANGED <<proxyVars, lines, read>>
        /\ \E r \in routes : r.name = lines[read].name /\ Write("called", {r})
    BY <1>11 DEF ToolsCall, Handling, Answer
  <2>2. PICK r \in routes : r.name = lines[read].name /\ Write("called", {r})
    BY <2>1
  <2>3. {r} \in SUBSET Entries
    BY <1>0
  <2> QED BY <2>1, <2>2, <2>3, WriteStep DEF Positions, RoutesKept
<1>12. ASSUME UnknownTool PROVE Positions' /\ History'
  <2>1. /\ phase = "handle" /\ UNCHANGED <<proxyVars, lines, read>>
        /\ \A r \in routes : r.name # lines[read].name
        /\ Write("error", {})
    BY <1>12 DEF UnknownTool, Handling, Answer
  <2> QED BY <2>1, WriteStep DEF Positions, RoutesKept
<1>13. ASSUME Send \/ CloseInput \/ Signal PROVE Positions' /\ History'
  <2>1. /\ UNCHANGED <<phase, proxyVars, answers, read>>
        /\ UNCHANGED lines \/ (\E m \in Messages : lines' = Append(lines, m))
    BY <1>13 DEF Send, CloseInput, Signal
  <2>2. Len(lines') >= Len(lines) /\ Len(lines') \in Nat
    BY <2>1 DEF Positions
  <2> QED BY <1>1, <1>a, <2>1, <2>2 DEF Positions
<1>14. ASSUME UNCHANGED vars PROVE Positions' /\ History'
  BY <1>1, <1>a, <1>14 DEF vars, Positions
<1> QED
  BY <1>2, <1>4, <1>5, <1>6, <1>7, <1>8, <1>9, <1>10, <1>11, <1>12, <1>13, <1>14
  DEF Next, aggregation, Serve

\* A call means the tool that the client was told of under its name.
THEOREM CallMeansListedHolds == Spec => []CallMeansListed
<1>1. Init => Tables /\ Positions /\ History
  BY EmptyMatches, OrderAssumption DEF Init, Tables, Positions, History
<1>2. Tables /\ Positions /\ History /\ [Next]_vars => (Tables /\ Positions /\ History)'
  BY TablesStep, HistoryStep
<1>3. Tables /\ Positions /\ History => CallMeansListed
  <2> SUFFICES ASSUME Tables, Positions, History,
                      NEW i \in DOMAIN answers, NEW j \in DOMAIN answers,
                      i < j, answers[i].kind = "tools",
                      lines[answers[j].to].kind = "tools/call",
                      NEW d \in answers[i].about, d.name = lines[answers[j].to].name
               PROVE  answers[j].about = {d}
    BY DEF CallMeansListed
  <2>1. d \in routes
    BY DEF History, Means
  <2>2. i \in 1..(j - 1)
    BY DEF Positions
  <2>3. Right(answers[j])
    BY <2>2 DEF History, Means
  <2>4. \A r \in routes : r.name = d.name => r = d
    BY <2>1 DEF Tables, Matches, Listed
  <2> QED BY <2>1, <2>3, <2>4 DEF Right
<1> QED BY <1>1, <1>2, <1>3, PTL DEF Spec

-----------------------------------------------------------------------------
(* One message at a time. *)

\* While a message is under way it has no answer yet.
InTurn ==
  /\ AnsweredInTurn
  /\ phase \in {"handle", "aggregate"} => \A n \in DOMAIN answers : answers[n].to < read

\* A step that answers nothing may go on only from a message that is answered or
\* expects no answer.
LEMMA SilentTurn ==
  ASSUME Positions, InTurn, UNCHANGED answers,
         UNCHANGED lines \/ (\E m \in Messages : lines' = Append(lines, m)),
         read' \in {read, read + 1},
         phase' \in {"handle", "aggregate"} =>
           read' = read + 1 \/ phase \in {"handle", "aggregate"},
         read' = read + 1 => phase = "serve",
         phase' = "serve" =>
           read' = read /\ (phase = "serve" \/ read = 0 \/ ~Expected(lines[read]))
  PROVE  InTurn'
<1>1. /\ lines \in Seq(Messages) /\ Len(lines) \in Nat /\ read \in 0..Len(lines)
      /\ \A n \in DOMAIN answers : answers[n].to \in 1..read
  BY DEF Positions
<1>2. \A i \in 1..read : lines'[i] = lines[i]
  BY <1>1
<1>3. ASSUME NEW i \in 1..read', Expected(lines'[i]), i < read' \/ phase' = "serve"
      PROVE  \E n \in DOMAIN answers : answers[n].to = i
  <2>1. i \in 1..read /\ Expected(lines[i])
    BY <1>1, <1>2, <1>3
  <2>2. i < read \/ phase = "serve"
    BY <1>1, <1>3, <2>1
  <2> QED BY <2>1, <2>2 DEF InTurn, AnsweredInTurn
<1>4. ASSUME phase' \in {"handle", "aggregate"}
      PROVE  \A n \in DOMAIN answers : answers[n].to < read'
  BY <1>1, <1>4 DEF InTurn
<1>5. AnsweredInTurn'
  BY <1>3 DEF InTurn, AnsweredInTurn
<1> QED BY <1>4, <1>5 DEF InTurn

\* The answer to the message under way is the last one.
LEMMA WriteTurn ==
  ASSUME Positions, InTurn, phase \in {"handle", "aggregate"}, read > 0,
         UNCHANGED <<lines, read>>, NEW kind, NEW about, Write(kind, about)
  PROVE  InTurn'
<1> DEFINE a == [to |-> read, kind |-> kind, about |-> about]
<1>1. CASE phase' = "stopped" /\ UNCHANGED answers
  <2>1. read \in Nat
    BY DEF Positions
  <2> QED BY <1>1, <2>1, SilentTurn
<1>2. CASE answers' = Append(answers, a) /\ phase' = "serve"
  <2>1. /\ answers \in Seq(Answers) /\ Len(answers) \in Nat
        /\ DOMAIN answers = 1..Len(answers)
        /\ read \in Nat
    BY DEF Positions
  <2>2. /\ DOMAIN answers' = 1..(Len(answers) + 1)
        /\ \A n \in 1..Len(answers) : answers'[n] = answers[n]
        /\ answers'[Len(answers) + 1].to = read
    BY <1>2, <2>1
  <2>3. /\ \A n \in 1..Len(answers) : answers[n].to < read
        /\ \A i, j \in 1..Len(answers) : i < j => answers[i].to < answers[j].to
        /\ \A i \in 1..read : Expected(lines[i]) /\ i < read =>
             \E n \in 1..Len(answers) : answers[n].to = i
    BY <2>1 DEF InTurn, AnsweredInTurn
  <2>4. ASSUME NEW i \in DOMAIN answers', NEW j \in DOMAIN answers', i < j
        PROVE  answers'[i].to < answers'[j].to
    <3>1. i \in 1..Len(answers)
      BY <2>1, <2>2, <2>4
    <3>2. CASE j \in 1..Len(answers)
      BY <2>2, <2>3, <2>4, <3>1, <3>2
    <3>3. CASE j = Len(answers) + 1
      BY <2>2, <2>3, <3>1, <3>3
    <3> QED BY <2>1, <2>2, <3>2, <3>3
  <2>5. ASSUME NEW i \in 1..read, Expected(lines[i])
        PROVE  \E n \in DOMAIN answers' : answers'[n].to = i
    <3>1. CASE i < read
      <4>1. PICK n \in 1..Len(answers) : answers[n].to = i
        BY <2>3, <2>5, <3>1
      <4> QED BY <2>1, <2>2, <4>1
    <3>2. CASE i = read
      BY <2>1, <2>2, <3>2
    <3> QED BY <2>1, <3>1, <3>2
  <2>6. AnsweredInTurn'
    BY <2>4, <2>5 DEF AnsweredInTurn
  <2> QED BY <1>2, <2>6 DEF InTurn
<1> QED BY <1>1, <1>2 DEF Write

LEMMA InTurnStep ==
  ASSUME Positions, InTurn, [Next]_vars
  PROVE  InTurn'
<1> USE DEF localVars, proxyVars, clientVars
<1>0. read \in Nat /\ (phase = "handle" => read > 0)
  BY DEF Positions
<1>1. ASSUME UNCHANGED <<phase, answers, read>>,
             UNCHANGED lines \/ (\E m \in Messages : lines' = Append(lines, m))
      PROVE  InTurn'
  BY <1>0, <1>1, SilentTurn
<1>2. ASSUME \/ Initialized \/ BackendFails \/ ToolsListed \/ SkipTool \/ AddTool
             \/ BackendMerged \/ Send \/ CloseInput \/ Signal
      PROVE  InTurn'
  BY <1>1, <1>2 DEF Initialized, BackendFails, ToolsListed, SkipTool, AddTool, BackendMerged,
     Send, CloseInput, Signal
<1>3. ASSUME AggregatedAtStartup PROVE InTurn'
  <2>1. read = 0 /\ phase' = "serve" /\ UNCHANGED <<lines, read, answers>>
    BY <1>3 DEF AggregatedAtStartup, Publish
  <2> QED BY <2>1, SilentTurn
<1>4. ASSUME EndOfInput \/ SeesCancel \/ ReadLine PROVE InTurn'
  <2>1. /\ phase = "serve" /\ phase' \in {"handle", "stopped"}
        /\ phase' = "handle" => read' = read + 1
        /\ read' \in {read, read + 1} /\ UNCHANGED <<lines, answers>>
    BY <1>4 DEF EndOfInput, SeesCancel, ReadLine, Returns, Serving
  <2> QED BY <2>1, SilentTurn
<1>5. ASSUME Ignore PROVE InTurn'
  <2>1. ~Expected(lines[read]) /\ phase' = "serve" /\ UNCHANGED <<lines, read, answers>>
    BY <1>5 DEF Ignore, Handling, Expected
  <2> QED BY <1>0, <2>1, SilentTurn
<1>6. ASSUME ParseError PROVE InTurn'
  <2>1. /\ phase = "handle" /\ ~Expected(lines[read]) /\ UNCHANGED <<lines, read>>
        /\ Write("error", {}) \/ (phase' = "serve" /\ UNCHANGED answers)
    BY <1>6 DEF ParseError, Handling, Expected
  <2>2. CASE phase' = "serve" /\ UNCHANGED answers
    BY <1>0, <2>1, <2>2, SilentTurn
  <2> QED BY <1>0, <2>1, <2>2, WriteTurn
<1>7. ASSUME LazyAggregate \/ LazyDone PROVE InTurn'
  <2>1. /\ phase \in {"handle", "aggregate"} /\ phase' \in {"handle", "aggregate"}
        /\ UNCHANGED <<lines, read, answers>>
    BY <1>7 DEF LazyAggregate, Aggregate, Handling, LazyDone, Publish
  <2> QED BY <1>0, <2>1, SilentTurn
<1>8. ASSUME HandlePing \/ Refuse \/ LazyFails \/ ToolsList \/ ToolsCall \/ UnknownTool
      PROVE  InTurn'
  <2>1. /\ phase \in {"handle", "aggregate"} /\ read > 0 /\ UNCHANGED <<lines, read>>
        /\ \E kind \in {"ok", "error", "tools", "called"} : \E about : Write(kind, about)
    BY <1>0, <1>8 DEF HandlePing, Refuse, LazyFails, ToolsList, ToolsCall, UnknownTool, Answer,
      Handling, Publish
  <2> QED BY <2>1, WriteTurn
<1>9. CASE UNCHANGED vars
  BY <1>1, <1>9 DEF vars
<1> QED BY <1>2, <1>3, <1>4, <1>5, <1>6, <1>7, <1>8, <1>9 DEF Next, aggregation, Serve

\* Requests are answered one by one, in the order they were read.
THEOREM AnsweredInTurnHolds == Spec => []AnsweredInTurn
<1>1. Init => Tables /\ Positions /\ History /\ InTurn
  BY EmptyMatches, OrderAssumption DEF Init, Tables, Positions, History, InTurn, AnsweredInTurn
<1>2. Tables /\ Positions /\ History /\ [Next]_vars => (Tables /\ Positions /\ History)'
  BY TablesStep, HistoryStep
<1>3. Positions /\ InTurn /\ [Next]_vars => InTurn'
  BY InTurnStep
<1>4. InTurn => AnsweredInTurn
  BY DEF InTurn
<1> QED BY <1>1, <1>2, <1>3, <1>4, PTL DEF Spec

\* Only an aggregation publishes, and there is none after the first.
LEMMA FixedStep ==
  ASSUME Positions, [Next]_vars, aggregated
  PROVE  UNCHANGED <<exposedTools, routes>>
<1> USE DEF localVars, proxyVars, clientVars
<1>1. phase # "aggregate"
  BY DEF Positions
<1>2. ASSUME Serve PROVE UNCHANGED <<exposedTools, routes>>
  BY <1>1, <1>2 DEF Serve, EndOfInput, SeesCancel, ReadLine, Returns, Ignore, HandlePing,
     ParseError, Refuse, Answer, LazyAggregate, LazyFails, LazyDone, Publish, ToolsList,
     ToolsCall, UnknownTool
<1>3. ~aggregation
  BY <1>1 DEF aggregation, Initialized, BackendFails, ToolsListed, SkipTool, AddTool,
     BackendMerged, Aggregating, AggregatedAtStartup, Publish
<1> QED BY <1>2, <1>3 DEF Next, Send, CloseInput, Signal, vars

\* The list and the routes are made once and stand for the life of the process.
THEOREM ToolsFixedHolds == Spec => ToolsFixed
<1>1. Init => Tables /\ Positions /\ History
  BY EmptyMatches, OrderAssumption DEF Init, Tables, Positions, History
<1>2. Tables /\ Positions /\ History /\ [Next]_vars => (Tables /\ Positions /\ History)'
  BY TablesStep, HistoryStep
<1>3. Positions /\ [Next]_vars => [aggregated => UNCHANGED <<exposedTools, routes>>]_vars
  BY FixedStep
<1> QED BY <1>1, <1>2, <1>3, PTL DEF Spec, ToolsFixed

\* An aggregation has been begun once, or not yet.
Attempted == attempts = IF phase = "aggregate" \/ aggregated THEN 1 ELSE 0

LEMMA AttemptedStep ==
  ASSUME Positions, Attempted, [Next]_vars
  PROVE  Attempted'
<1> USE DEF localVars, proxyVars, clientVars, Attempted
<1>1. ASSUME LazyAggregate PROVE Attempted'
  BY <1>1 DEF LazyAggregate, Aggregate, Handling
<1>2. ASSUME NEW ok, Publish(ok), phase' # "aggregate" PROVE Attempted'
  BY <1>2 DEF Publish
<1>3. ASSUME UNCHANGED <<attempts, aggregated>>, phase' = "aggregate" <=> phase = "aggregate"
      PROVE  Attempted'
  BY <1>3
<1>4. ASSUME Serve PROVE Attempted'
  <2>1. CASE LazyFails \/ LazyDone
    BY <1>2, <2>1 DEF LazyFails, LazyDone, Write
  <2>2. CASE \/ EndOfInput \/ SeesCancel \/ ReadLine \/ Ignore
             \/ HandlePing \/ ParseError \/ Refuse \/ ToolsList \/ ToolsCall \/ UnknownTool
    BY <1>3, <2>2 DEF EndOfInput, SeesCancel, ReadLine, Returns, Serving, Ignore, HandlePing,
      ParseError, Refuse, Answer, Write, Handling, ToolsList, ToolsCall, UnknownTool
  <2> QED BY <1>1, <1>4, <2>1, <2>2 DEF Serve
<1>5. ASSUME aggregation PROVE Attempted'
  <2>1. CASE AggregatedAtStartup
    BY <1>2, <2>1 DEF AggregatedAtStartup
  <2>2. CASE ~AggregatedAtStartup
    BY <1>3, <1>5, <2>2 DEF aggregation, Initialized, BackendFails, ToolsListed, SkipTool,
      AddTool, BackendMerged
  <2> QED BY <2>1, <2>2
<1> QED BY <1>3, <1>4, <1>5 DEF Next, Send, CloseInput, Signal, vars

\* The backends are aggregated at most once in the life of the process, however
\* many tools/list and tools/call come and whether or not any backend was found
\* (run session_retry shows what main's warning says instead).
THEOREM AggregatesOnce == Spec => [](attempts <= 1)
<1>1. Init => Tables /\ Positions /\ History /\ Attempted
  BY EmptyMatches, OrderAssumption DEF Init, Tables, Positions, History, Attempted
<1>2. Tables /\ Positions /\ History /\ [Next]_vars => (Tables /\ Positions /\ History)'
  BY TablesStep, HistoryStep
<1>3. Positions /\ Attempted /\ [Next]_vars => Attempted'
  BY AttemptedStep
<1>4. Attempted => attempts <= 1
  BY DEF Attempted
<1> QED BY <1>1, <1>2, <1>3, <1>4, PTL DEF Spec

-----------------------------------------------------------------------------
(* Aggregation loses nothing.                                                *)

N == Len(BackendOrder)

\* Backends that Aggregate is done with.
Done == N - Len(todo)

\* Where Aggregate stands, and what has come of it.
Progress ==
  /\ phase \in {"aggregate", "serve", "handle", "stopped"}
  /\ step \in {"initialize", "list", "merge"}
  /\ todo \in Seq(Ids)
  /\ Len(todo) <= N
  /\ \A m \in 1..Len(todo) : todo[m] = BackendOrder[Done + m]
  /\ queue \in Seq(Descriptors)
  /\ listed \in [Ids -> Seq(Descriptors)]
  /\ healthy \in Nat
  /\ \/ healthy <= Done
     \/ healthy = Done + 1 /\ todo # <<>> /\ step = "merge"
  /\ aggregated \in BOOLEAN
  /\ aggregated => phase # "aggregate" /\ todo = <<>> /\ routes = building.routes
  /\ ~aggregated => routes = {}

\* Tool n of backend i has the route of its name in a table, or the one of an
\* earlier backend has it.
Covered(table, i, n) ==
  LET tool == listed[BackendOrder[i]][n] IN
  tool = Nameless \/
    \E r \in table :
      /\ r.name = exposedName(BackendOrder[i], tool)
      /\ \/ r = Route(BackendOrder[i], tool)
         \/ \E j \in 1..(i - 1) : r.backend = BackendOrder[j]

\* The descriptors of the backend under way that are not merged yet.
Waiting ==
  LET all == listed[BackendOrder[Done + 1]] IN
  /\ Len(queue) <= Len(all)
  /\ \A m \in 1..Len(queue) : queue[m] = all[Len(all) - Len(queue) + m]

\* The routes built so far are those of the backends so far, every tool merged
\* is covered by them, and the backends to come have listed nothing yet.
Merged ==
  /\ \A r \in building.routes :
       \E j \in 1..N, tool \in Descriptors \ {Nameless} :
         j <= Done + 1 /\ r = Route(BackendOrder[j], tool)
  /\ \A i \in 1..N : \A n \in 1..Len(listed[BackendOrder[i]]) :
       \/ Covered(building.routes, i, n)
       \/ /\ i = Done + 1
          /\ step = "merge"
          /\ n > Len(listed[BackendOrder[i]]) - Len(queue)
  /\ todo # <<>> /\ step = "merge" => Waiting
  /\ \A i \in 1..N : (i = Done + 1 => step # "merge") /\ i > Done =>
       listed[BackendOrder[i]] = <<>>

LEMMA Order ==
  /\ N \in Nat
  /\ DOMAIN BackendOrder = 1..N
  /\ \A i \in 1..N : BackendOrder[i] \in Ids
  /\ \A i, j \in 1..N : BackendOrder[i] = BackendOrder[j] => i = j
  /\ BackendOrder \in Seq(Ids)
  /\ \A id \in Ids : \E i \in 1..N : id = BackendOrder[i]
<1>1. BackendOrder \in Seq(Ids)
  BY OrderAssumption
<1>2. N \in Nat /\ DOMAIN BackendOrder = 1..N
  BY <1>1 DEF N
<1> QED BY <1>1, <1>2, OrderAssumption DEF Ids

\* Under one id, a name tells the tool.
LEMMA NameTells ==
  ASSUME NEW id \in Ids, NEW s \in Descriptors \ {Nameless}, NEW t \in Descriptors \ {Nameless},
         exposedName(id, s) = exposedName(id, t)
  PROVE  s = t
BY NamesAssumption DEF exposedName

\* The backend under way, and what is left when it is done with.
LEMMA Current ==
  ASSUME Progress, todo # <<>>
  PROVE  /\ Done \in Nat /\ Done + 1 \in 1..N
         /\ Head(todo) = BackendOrder[Done + 1]
         /\ Head(todo) \in Ids
         /\ Tail(todo) \in Seq(Ids)
         /\ Len(Tail(todo)) = Len(todo) - 1
         /\ \A m \in 1..Len(Tail(todo)) : Tail(todo)[m] = BackendOrder[Done + 1 + m]
<1>1. /\ Len(todo) \in 1..N /\ N \in Nat
      /\ Head(todo) = todo[1] /\ todo \in Seq(Ids)
  BY Order DEF Progress
<1>2. /\ Tail(todo) \in Seq(Ids)
      /\ Len(Tail(todo)) = Len(todo) - 1
      /\ \A m \in 1..Len(Tail(todo)) : Tail(todo)[m] = todo[m + 1]
  BY <1>1
<1>3. \A m \in 1..Len(Tail(todo)) : Tail(todo)[m] = BackendOrder[Done + (m + 1)]
  BY <1>1, <1>2 DEF Progress
<1>4. \A m \in 1..Len(Tail(todo)) : Done + (m + 1) = Done + 1 + m
  BY <1>1, <1>2 DEF Done
<1>5. Done \in Nat /\ Done + 1 \in 1..N
  BY <1>1 DEF Done
<1>6. Head(todo) = BackendOrder[Done + 1]
  BY <1>1 DEF Progress
<1>7. Head(todo) \in Ids
  BY <1>5, <1>6, Order
<1>8. \A m \in 1..Len(Tail(todo)) : Tail(todo)[m] = BackendOrder[Done + 1 + m]
  BY <1>3, <1>4
<1> QED BY <1>2, <1>5, <1>6, <1>7, <1>8

LEMMA ProgressInit == Init => Progress /\ Merged
<1> SUFFICES ASSUME Init PROVE Progress /\ Merged
  OBVIOUS
<1>1. Done = 0 /\ Len(todo) = N /\ N \in Nat
  BY Order DEF Init, Done, N
<1>2. listed = [id \in Ids |-> <<>>] /\ \A i \in 1..N : listed[BackendOrder[i]] = <<>>
  BY Order DEF Init
<1>3. Progress
  <2>1. todo \in Seq(Ids) /\ Len(todo) <= N /\ \A m \in 1..Len(todo) : Done + m = m
    BY <1>1, Order DEF Init
  <2>2. \A m \in 1..Len(todo) : todo[m] = BackendOrder[Done + m]
    BY <2>1 DEF Init
  <2>3. <<>> \in Seq(Descriptors) /\ listed \in [Ids -> Seq(Descriptors)]
    BY <1>2
  <2>4. /\ phase \in {"aggregate", "serve", "handle", "stopped"}
        /\ step \in {"initialize", "list", "merge"}
        /\ queue \in Seq(Descriptors)
        /\ healthy \in Nat /\ healthy <= Done
        /\ aggregated = FALSE /\ routes = {}
    BY <1>1, <2>3 DEF Init
  <2> QED BY <2>1, <2>2, <2>3, <2>4 DEF Progress
<1>4. Merged
  BY <1>1, <1>2 DEF Init, Merged
<1> QED BY <1>3, <1>4

\* A step that leaves Aggregate where it is.
LEMMA MergedStays ==
  ASSUME Progress, Merged, UNCHANGED <<todo, step, queue, building, listed>>
  PROVE  Merged'
BY DEF Merged, Covered, Waiting, Done

LEMMA MergedStep ==
  ASSUME Progress, Merged, [Next]_vars
  PROVE  Merged'
<1> USE DEF localVars, proxyVars
<1>0. /\ \A i \in 1..N : listed[BackendOrder[i]] \in Seq(Descriptors)
      /\ N \in Nat
      /\ Len(todo) \in Nat
  BY Order DEF Progress
<1>1. ASSUME LazyAggregate PROVE Merged'
  <2>1. /\ todo' = BackendOrder /\ step' = "initialize" /\ building'.routes = {}
        /\ \A i \in 1..N : listed'[BackendOrder[i]] = <<>>
    BY <1>1, Order DEF LazyAggregate, Aggregate
  <2>2. Done' = 0
    BY <1>0, <2>1 DEF Done, N
  <2> QED BY <2>1, <2>2 DEF Merged
<1>2. ASSUME Initialized PROVE Merged'
  <2>1. step = "initialize" /\ step' = "list" /\ UNCHANGED <<todo, queue, building, listed>>
    BY <1>2 DEF Initialized, Aggregating
  <2> QED BY <2>1 DEF Merged, Covered, Waiting, Done
<1>3. ASSUME BackendFails \/ BackendMerged PROVE Merged'
  <2>1. /\ todo # <<>> /\ todo' = Tail(todo)
        /\ step = "merge" => queue = <<>>
        /\ step' = "initialize" /\ UNCHANGED <<queue, building, listed>>
    BY <1>3 DEF BackendFails, BackendMerged, Aggregating
  <2>2. Done' = Done + 1 /\ Done \in Nat
    BY <2>1, <1>0, Current DEF Done
  <2>3. \A i \in 1..N : \A n \in 1..Len(listed[BackendOrder[i]]) : Covered(building.routes, i, n)
    BY <2>1, <1>0 DEF Merged
  <2>4. \A i \in 1..N : i > Done + 1 => listed[BackendOrder[i]] = <<>>
    BY <2>2 DEF Merged
  <2>5. \A r \in building.routes :
          \E j \in 1..N, tool \in Descriptors \ {Nameless} :
            j <= Done + 2 /\ r = Route(BackendOrder[j], tool)
    BY <2>2 DEF Merged
  <2> QED BY <2>1, <2>2, <2>3, <2>4, <2>5 DEF Merged, Covered
<1>4. ASSUME ToolsListed PROVE Merged'
  <2>1. /\ todo # <<>> /\ step = "list" /\ step' = "merge" /\ UNCHANGED <<todo, building>>
        /\ listed' = [listed EXCEPT ![Head(todo)] = queue']
        /\ queue' \in Seq(Descriptors)
    BY <1>4, OrderAssumption DEF ToolsListed, Aggregating
  <2>2. /\ Done' = Done /\ Done + 1 \in 1..N /\ Done \in Nat
        /\ listed'[BackendOrder[Done + 1]] = queue'
        /\ \A i \in 1..N : i # Done + 1 => listed'[BackendOrder[i]] = listed[BackendOrder[i]]
    BY <2>1, Current, Order DEF Done, Progress
  <2>3. ASSUME NEW i \in 1..N, NEW n \in 1..Len(listed'[BackendOrder[i]])
        PROVE  \/ Covered(building.routes, i, n)'
               \/ i = Done + 1 /\ n > Len(listed'[BackendOrder[i]]) - Len(queue')
    <3>1. CASE i = Done + 1
      BY <2>1, <2>2, <3>1
    <3>2. CASE i # Done + 1
      BY <2>1, <2>2, <2>3, <3>2 DEF Merged, Covered
    <3> QED BY <3>1, <3>2
  <2>4. Waiting'
    BY <2>1, <2>2 DEF Waiting
  <2>5. \A i \in 1..N : i > Done + 1 => listed'[BackendOrder[i]] = <<>>
    BY <2>1, <2>2 DEF Merged
  <2> QED BY <2>1, <2>2, <2>3, <2>4, <2>5 DEF Merged
<1>5. ASSUME SkipTool \/ AddTool PROVE Merged'
  <2> DEFINE id   == BackendOrder[Done + 1]
             tool == Head(queue)
             all  == listed[id]
             n0   == Len(all) - Len(queue) + 1
  <2>1. /\ todo # <<>> /\ step = "merge" /\ queue # <<>>
        /\ queue' = Tail(queue) /\ UNCHANGED <<todo, step, listed>>
        /\ building.routes \subseteq building'.routes
    BY <1>5 DEF SkipTool, AddTool, Aggregating
  <2>2. Done \in Nat /\ Done + 1 \in 1..N /\ Head(todo) = id
    BY <2>1, Current
  <2>3. /\ queue \in Seq(Descriptors) /\ Len(queue) \in Nat \ {0}
        /\ tool = queue[1] /\ tool \in Descriptors
        /\ Len(Tail(queue)) = Len(queue) - 1
        /\ \A m \in 1..Len(Tail(queue)) : Tail(queue)[m] = queue[m + 1]
        /\ all \in Seq(Descriptors) /\ Len(all) \in Nat
    BY <1>0, <2>1, <2>2 DEF Progress
  <2>a. Len(queue') = Len(queue) - 1 /\ Len(queue) \in Nat /\ Len(all) \in Nat
    BY <2>1, <2>3
  <2>4. Waiting
    BY <2>1 DEF Merged
  <2>5. all[n0] = tool
    BY <2>3, <2>4 DEF Waiting
  <2>6. Waiting'
    <3>1. Done' = Done
      BY <2>1 DEF Done
    <3>2. ASSUME NEW m \in 1..Len(queue')
          PROVE  queue'[m] = all[Len(all) - Len(queue') + m]
      <4>1. m + 1 \in 1..Len(queue) /\ queue'[m] = queue[m + 1]
        BY <2>1, <2>3
      <4>2. queue[m + 1] = all[Len(all) - Len(queue) + (m + 1)]
        BY <2>4, <4>1 DEF Waiting
      <4>3. Len(all) - Len(queue) + (m + 1) = Len(all) - Len(queue') + m
        <5> HIDE DEF all
        <5> QED BY <2>a
      <4> HIDE DEF all
      <4> QED BY <4>1, <4>2, <4>3
    <3>3. Len(queue') <= Len(all)
      BY <2>1, <2>3, <2>4 DEF Waiting
    <3> QED BY <2>1, <3>1, <3>2, <3>3 DEF Waiting
  <2>7. /\ \A r \in building'.routes :
            \E j \in 1..N, d \in Descriptors \ {Nameless} :
              j <= Done + 1 /\ r = Route(BackendOrder[j], d)
        /\ tool = Nameless \/ \E r \in building'.routes : r.name = exposedName(id, tool)
    <3>1. CASE SkipTool
      BY <2>2, <3>1 DEF SkipTool, Taken, Merged
    <3>2. CASE AddTool
      <4>1. tool # Nameless /\ building'.routes = building.routes \cup {Route(id, tool)}
        BY <2>2, <3>2 DEF AddTool
      <4> HIDE DEF id, tool
      <4>2. Route(id, tool).name = exposedName(id, tool)
        BY DEF Route
      <4> QED BY <2>2, <2>3, <4>1, <4>2 DEF Merged, id
    <3> QED BY <1>5, <3>1, <3>2
  <2>8. Covered(building'.routes, Done + 1, n0)
    <3> SUFFICES ASSUME tool # Nameless
                 PROVE  \E r \in building'.routes :
                          /\ r.name = exposedName(id, tool)
                          /\ \/ r = Route(id, tool)
                             \/ \E j \in 1..Done : r.backend = BackendOrder[j]
      BY <2>2, <2>5 DEF Covered
    <3>1. PICK r \in building'.routes : r.name = exposedName(id, tool)
      BY <2>7
    <3>2. PICK j \in 1..N, d \in Descriptors \ {Nameless} :
            j <= Done + 1 /\ r = Route(BackendOrder[j], d)
      BY <2>7
    <3>3. r.backend = BackendOrder[j] /\ r.name = exposedName(BackendOrder[j], d)
      BY <3>2 DEF Route
    <3>4. CASE j = Done + 1
      <4>1. exposedName(id, d) = exposedName(id, tool)
        BY <3>1, <3>3, <3>4
      <4>2. d = tool
        <5>1. id \in Ids /\ tool \in Descriptors \ {Nameless}
          BY <2>2, <2>3, Order
        <5> HIDE DEF id, tool
        <5> QED BY <4>1, <5>1, NameTells
      <4> QED BY <3>1, <3>2, <3>4, <4>2
    <3>5. CASE j # Done + 1
      BY <2>2, <3>1, <3>2, <3>3, <3>5
    <3> QED BY <3>4, <3>5
  <2>9. \A i \in 1..N : \A n \in 1..Len(listed[BackendOrder[i]]) :
          Covered(building.routes, i, n) => Covered(building'.routes, i, n)
    BY <2>1 DEF Covered
  <2>10. ASSUME NEW i \in 1..N, NEW n \in 1..Len(listed[BackendOrder[i]])
         PROVE  \/ Covered(building'.routes, i, n)
                \/ i = Done + 1 /\ n > Len(listed[BackendOrder[i]]) - Len(queue')
    <3>1. CASE Covered(building.routes, i, n)
      BY <2>9, <3>1
    <3>2. CASE ~Covered(building.routes, i, n)
      <4>1. i = Done + 1 /\ n > Len(all) - Len(queue)
        BY <3>2 DEF Merged
      <4>2. n = n0 \/ n > Len(all) - Len(queue')
        <5>1. n \in Nat
          BY <1>0
        <5> HIDE DEF all
        <5> QED BY <2>a, <4>1, <5>1
      <4>3. n = n0 => Covered(building'.routes, i, n)
        BY <2>8, <4>1
      <4>4. all = listed[BackendOrder[i]]
        BY <4>1
      <4> HIDE DEF all, n0
      <4> QED BY <4>1, <4>2, <4>3, <4>4
    <3> QED BY <3>1, <3>2
  <2> HIDE DEF id, tool, all, n0
  <2>11. Done' = Done
    BY <2>1 DEF Done
  <2>12. \A i \in 1..N : \A n \in 1..Len(listed[BackendOrder[i]]) :
           Covered(building.routes, i, n)' <=> Covered(building'.routes, i, n)
    BY <2>1 DEF Covered
  <2> QED BY <2>1, <2>6, <2>7, <2>10, <2>11, <2>12 DEF Merged
<1>6. ASSUME UNCHANGED localVars PROVE Merged'
  BY <1>6, MergedStays
<1>7. ASSUME Serve PROVE Merged'
  BY <1>1, <1>6, <1>7 DEF Serve, EndOfInput, SeesCancel, ReadLine, Returns, Ignore,
     HandlePing, ParseError, Refuse, Answer, LazyFails, LazyDone, Publish, ToolsList, ToolsCall, UnknownTool
<1>8. ASSUME aggregation PROVE Merged'
  BY <1>2, <1>3, <1>4, <1>5, <1>6, <1>8 DEF aggregation, AggregatedAtStartup, Publish
<1> QED
  BY <1>6, <1>7, <1>8 DEF Next, Send, CloseInput, Signal, vars

LEMMA ProgressStep ==
  ASSUME Progress, [Next]_vars
  PROVE  Progress'
<1> USE DEF localVars, proxyVars
<1>0. /\ N \in Nat /\ Len(todo) \in Nat /\ Done \in Nat
      /\ <<>> \in Seq(Descriptors)
  BY Order DEF Progress, Done
<1>1. ASSUME LazyAggregate PROVE Progress'
  <2>1. todo' = BackendOrder /\ Done' = 0
    BY <1>1, Order DEF LazyAggregate, Aggregate, Done, N
  <2>2. /\ todo' \in Seq(Ids) /\ Len(todo') <= N
        /\ \A m \in 1..Len(todo') : todo'[m] = BackendOrder[Done' + m]
    BY <2>1, Order DEF N
  <2>3. /\ phase' = "aggregate" /\ step' = "initialize" /\ queue' = <<>> /\ healthy' = 0
        /\ listed' = [id \in Ids |-> <<>>]
        /\ ~aggregated /\ UNCHANGED proxyVars
    BY <1>1 DEF LazyAggregate, Aggregate
  <2>4. listed' \in [Ids -> Seq(Descriptors)]
    BY <1>0, <2>3
  <2> QED BY <1>0, <2>1, <2>2, <2>3, <2>4 DEF Progress
<1>2. ASSUME Initialized PROVE Progress'
  BY <1>2 DEF Initialized, Aggregating, Progress, Done
<1>3. ASSUME BackendFails \/ BackendMerged PROVE Progress'
  <2>1. /\ phase = "aggregate" /\ todo # <<>> /\ todo' = Tail(todo) /\ step' = "initialize"
        /\ UNCHANGED <<phase, queue, building, listed, healthy, proxyVars>>
    BY <1>3 DEF BackendFails, BackendMerged, Aggregating
  <2>2. Done' = Done + 1
    BY <1>0, <2>1, Current DEF Done
  <2>3. /\ todo' \in Seq(Ids) /\ Len(todo') <= N
        /\ \A m \in 1..Len(todo') : todo'[m] = BackendOrder[Done' + m]
    BY <1>0, <2>1, <2>2, Current DEF Progress
  <2> QED BY <1>0, <2>1, <2>2, <2>3 DEF Progress
<1>4. ASSUME ToolsListed PROVE Progress'
  <2>1. /\ phase = "aggregate" /\ todo # <<>> /\ step = "list" /\ step' = "merge"
        /\ UNCHANGED <<phase, todo, building, proxyVars>> /\ healthy' = healthy + 1
        /\ queue' \in Seq(Descriptors)
        /\ listed' = [listed EXCEPT ![Head(todo)] = queue']
    BY <1>4, OrderAssumption DEF ToolsListed, Aggregating
  <2>2. Done' = Done /\ listed' \in [Ids -> Seq(Descriptors)]
    BY <2>1 DEF Done, Progress
  <2> QED BY <1>0, <2>1, <2>2 DEF Progress
<1>5. ASSUME SkipTool \/ AddTool PROVE Progress'
  <2>1. /\ phase = "aggregate" /\ queue # <<>> /\ queue' = Tail(queue)
        /\ UNCHANGED <<phase, todo, step, healthy, listed, proxyVars>>
    BY <1>5 DEF SkipTool, AddTool, Aggregating
  <2>2. queue' \in Seq(Descriptors)
    BY <2>1 DEF Progress
  <2> QED BY <2>1, <2>2 DEF Progress, Done
<1>6. ASSUME NEW ok, Publish(ok), phase' \in {"serve", "handle", "stopped"} PROVE Progress'
  BY <1>6 DEF Publish, Progress, Done
<1>7. ASSUME UNCHANGED <<localVars, proxyVars>>,
             phase' = phase \/ phase' \in {"serve", "handle", "stopped"}
      PROVE  Progress'
  BY <1>7 DEF Progress, Done
<1>8. ASSUME Serve PROVE Progress'
  <2>1. CASE LazyFails \/ LazyDone
    BY <1>6, <2>1 DEF LazyFails, LazyDone, Write
  <2>2. CASE \/ EndOfInput \/ SeesCancel \/ ReadLine \/ Ignore
             \/ HandlePing \/ ParseError \/ Refuse \/ ToolsList \/ ToolsCall \/ UnknownTool
    BY <1>7, <2>2 DEF EndOfInput, SeesCancel, ReadLine, Returns, Ignore, HandlePing, ParseError,
      Refuse, Answer, Write, ToolsList, ToolsCall, UnknownTool
  <2> QED BY <1>1, <1>8, <2>1, <2>2 DEF Serve
<1>9. ASSUME aggregation PROVE Progress'
  BY <1>2, <1>3, <1>4, <1>5, <1>6, <1>9 DEF aggregation, AggregatedAtStartup
<1> QED
  BY <1>7, <1>8, <1>9 DEF Next, Send, CloseInput, Signal, vars

\* Every tool that a healthy backend lists is routed under its name, unless a
\* tool before it has that name: a bad descriptor, a name that is taken and a
\* backend that fails cost nothing but themselves.
THEOREM NothingLostHolds == Spec => []NothingLost
<1>1. Progress /\ Merged /\ [Next]_vars => Progress' /\ Merged'
  BY ProgressStep, MergedStep
<1>2. Progress /\ Merged => NothingLost
  <2> SUFFICES ASSUME Progress, Merged, aggregated,
                      NEW i \in 1..N, NEW n \in DOMAIN listed[BackendOrder[i]]
               PROVE  Covered(routes, i, n)
    BY Order DEF NothingLost, Covered
  <2>1. todo = <<>> /\ routes = building.routes
    BY DEF Progress
  <2>2. Done = N /\ N \in Nat
    BY <2>1, Order DEF Done
  <2>3. n \in 1..Len(listed[BackendOrder[i]])
    BY Order DEF Progress
  <2> QED BY <2>1, <2>2, <2>3 DEF Merged
<1> QED BY <1>1, <1>2, ProgressInit, PTL DEF Spec

\* The types: Aggregate works through the backends in order, and every route and
\* every answer is one of a tool listed and a message read.
THEOREM SessionTypeCorrect == Spec => []SessionTypeOK
<1>1. Init => Tables /\ Positions /\ History
  BY EmptyMatches, OrderAssumption DEF Init, Tables, Positions, History
<1>2. Tables /\ Positions /\ History /\ [Next]_vars => (Tables /\ Positions /\ History)'
  BY TablesStep, HistoryStep
<1>3. Progress /\ Merged /\ [Next]_vars => Progress' /\ Merged'
  BY ProgressStep, MergedStep
<1>4. Progress /\ Merged /\ Positions => SessionTypeOK
  <2> SUFFICES ASSUME Progress, Merged, Positions PROVE SessionTypeOK
    OBVIOUS
  <2>1. Len(BackendOrder) = N /\ N \in Nat /\ BackendOrder \in Seq(Ids) /\ Len(todo) \in 0..N
    BY Order DEF N, Progress
  <2>2. Done \in 0..N /\ todo = SubSeq(BackendOrder, Done + 1, N)
    <3>1. Done \in 0..N /\ N - Done = Len(todo)
      BY <2>1 DEF Done
    <3> DEFINE rest == SubSeq(BackendOrder, Done + 1, N)
    <3>2. /\ rest \in Seq(Ids) /\ Len(rest) = Len(todo)
          /\ \A m \in 1..Len(todo) : rest[m] = BackendOrder[Done + 1 + m - 1]
      BY <2>1, <3>1, SubSeqProperties
    <3>3. \A m \in 1..Len(todo) : rest[m] = todo[m]
      <4>1. \A m \in 1..Len(todo) : Done + 1 + m - 1 = Done + m
        BY <3>1
      <4> QED BY <3>2, <4>1 DEF Progress
    <3> HIDE DEF rest
    <3>4. rest = todo
      BY <3>2, <3>3, SeqEqual DEF Progress
    <3> QED BY <3>1, <3>4 DEF rest
  <2>3. healthy \in 0..N
    <3>1. todo # <<>> => Done + 1 \in 1..N
      BY Current
    <3> QED BY <2>1, <2>2, <3>1 DEF Progress
  <2>4. {r.name : r \in routes} \subseteq Names
    <3>1. routes \subseteq building.routes
      BY DEF Progress
    <3>2. ASSUME NEW r \in routes PROVE r.name \in Names
      <4>1. PICK j \in 1..N, tool \in Descriptors \ {Nameless} : r = Route(BackendOrder[j], tool)
        BY <3>1 DEF Merged
      <4> QED BY <4>1, Order DEF Route, Names
    <3> QED BY <3>2
  <2> QED BY <2>1, <2>2, <2>3, <2>4 DEF SessionTypeOK, Progress, Positions
<1> QED BY <1>1, <1>2, <1>3, <1>4, ProgressInit, PTL DEF Spec

=============================================================================
