------------------------ MODULE EventPipelineProofs ------------------------
(***************************************************************************)
(* No event is lost between the threads of the engine process, and each    *)
(* message is answered once, whatever the scripts of the board and of the  *)
(* interactive thread.                                                     *)
(***************************************************************************)
EXTENDS Engine, FiniteSetTheorems, TLAPS

-----------------------------------------------------------------------------
(* Types *)

Carried == [step : {"made", "taken", "archived", "routed"}, event : Events]
Copied == [step : {"copying"}, event : Events, known : SUBSET VirtualDevices]

LEMMA StageCases ==
  ASSUME thread \in [Threads -> Stages], NEW t \in Threads
  PROVE  \/ thread[t] = [step |-> "idle"]
         \/ thread[t] = [step |-> "added"]
         \/ thread[t] \in Carried
         \/ thread[t] \in Copied
  BY DEF Stages, Carried, Copied, Resting

LEMMA CarriedStage ==
  ASSUME thread \in [Threads -> Stages], NEW t \in Threads,
         thread[t].step \in {"made", "taken", "archived", "routed"}
  PROVE  thread[t] \in Carried
  BY StageCases DEF Copied

LEMMA CopiedStage ==
  ASSUME thread \in [Threads -> Stages], NEW t \in Threads, thread[t].step = "copying"
  PROVE  thread[t] \in Copied
  BY StageCases DEF Carried

LEMMA StagesGrow ==
  ASSUME created \in Nat, created' \in {created, created + 1}
  PROVE  /\ Numbers \subseteq Numbers'
         /\ Events \subseteq Events'
         /\ Stages \subseteq Stages'
<1>1. Numbers \subseteq Numbers'
  BY DEF Numbers
<1>2. Events \subseteq Events'
  BY <1>1 DEF Events
<1>3. Stages \subseteq Stages'
  BY <1>2 DEF Stages
<1> QED
  BY <1>1, <1>2, <1>3

LEMMA SeqGrows ==
  ASSUME NEW S, NEW T, S \subseteq T, NEW s \in Seq(S)
  PROVE  s \in Seq(T)
<1>1. Len(s) \in Nat /\ s \in [1 .. Len(s) -> S]
  OBVIOUS
<1>2. s \in [1 .. Len(s) -> T]
  BY <1>1
<1> QED
  BY <1>1, <1>2

LEMMA PutStage ==
  ASSUME thread \in [Threads -> Stages], NEW t \in Threads, NEW s \in Stages
  PROVE  [thread EXCEPT ![t] = s] \in [Threads -> Stages]
  OBVIOUS

LEMMA ToStage ==
  ASSUME thread \in [Threads -> Stages], NEW t \in Threads,
         thread[t].step \in {"made", "taken", "archived", "routed"},
         NEW step \in {"archived", "routed"}
  PROVE  [thread EXCEPT ![t].step = step] \in [Threads -> Stages]
<1>1. thread[t] \in Carried
  BY CarriedStage
<1>2. [thread[t] EXCEPT !.step = step] \in Carried
  BY <1>1 DEF Carried
<1>3. [thread[t] EXCEPT !.step = step] \in Stages
  BY <1>2 DEF Carried, Stages
<1> QED
  BY <1>3

LEMMA PlainStages == Resting \in Stages /\ [step |-> "added"] \in Stages
  BY DEF Stages

LEMMA TypeInit == PipelineInit => PipelineTypeOK
<1> SUFFICES ASSUME PipelineInit PROVE PipelineTypeOK
  OBVIOUS
<1>1. created \in Nat /\ eventQueue \in Seq(Events) /\ archive \in Seq(Numbers)
  BY DEF PipelineInit
<1>2. thread \in [Threads -> Stages]
  BY PlainStages DEF PipelineInit
<1>3. DOMAIN answers = {}
  BY DEF PipelineInit
<1>4. toBoard \in Seq(Lines(EngineSays))
  BY DEF PipelineInit
<1>5. Line("HELLO", "OFF") \in Lines(BoardSays)
  BY DEF Line, Lines, BoardSays, Switch
<1>6. toEngine \in Seq(Lines(BoardSays))
  BY <1>5 DEF PipelineInit
<1> QED
  BY <1>1, <1>2, <1>3, <1>4, <1>6 DEF PipelineInit, PipelineTypeOK, Switch

LEMMA OtherType == \A state : Other(state) \in Switch
  BY DEF Other, Switch

LEMMA LineType ==
  ASSUME NEW types, NEW type \in types, NEW state \in Switch
  PROVE  Line(type, state) \in Lines(types)
  BY DEF Line, Lines

\* A step after which no event has been made since.
LEMMA SameNumbers ==
  ASSUME created' = created
  PROVE  Numbers' = Numbers /\ Events' = Events /\ Stages' = Stages
  BY DEF Numbers, Events, Stages

LEMMA BoardKeepsTypes == PipelineTypeOK /\ BoardStep => PipelineTypeOK'
<1> SUFFICES ASSUME PipelineTypeOK, BoardStep PROVE PipelineTypeOK'
  OBVIOUS
<1> USE DEF PipelineTypeOK
<1>1. "OFF" \in Switch /\ {"HEARTBEAT", "ACK", "STATE_UPDATE"} \subseteq BoardSays
  BY DEF Switch, BoardSays
<1>2. Numbers' = Numbers /\ Events' = Events /\ Stages' = Stages
  BY SameNumbers DEF BoardStep
<1>3. /\ toEngine' \in Seq(Lines(BoardSays)) /\ toBoard' \in Seq(Lines(EngineSays))
      /\ boardButton' \in Switch /\ boardLed' \in Switch
  <2>1. CASE BoardHeartbeat
    BY <2>1, <1>1, LineType DEF BoardHeartbeat, board
  <2>2. CASE BoardButton
    <3>1. boardButton' \in Switch
      BY <2>2, OtherType DEF BoardButton
    <3>2. Line("STATE_UPDATE", boardButton') \in Lines(BoardSays)
      BY <3>1, <1>1, LineType
    <3> QED
      BY <2>2, <3>1, <3>2 DEF BoardButton
  <2>3. CASE BoardReads
    <3>1. Head(toBoard) \in Lines(EngineSays) /\ Tail(toBoard) \in Seq(Lines(EngineSays))
      BY <2>3 DEF BoardReads
    <3>2. Line("ACK", "OFF") \in Lines(BoardSays)
      BY <1>1, LineType
    <3>3. Head(toBoard).state \in Switch
      BY <3>1 DEF Lines
    <3>4. toBoard' = Tail(toBoard) /\ boardButton' = boardButton
      BY <2>3 DEF BoardReads
    <3>5. toEngine' \in Seq(Lines(BoardSays)) /\ boardLed' \in Switch
      <4>1. CASE Head(toBoard).type = "STATE_UPDATE"
        <5>1. toEngine' = Append(toEngine, Line("ACK", "OFF")) /\ boardLed' = Head(toBoard).state
          BY <2>3, <4>1 DEF BoardReads
        <5> QED
          BY <3>2, <3>3, <5>1
      <4>2. CASE Head(toBoard).type # "STATE_UPDATE"
        BY <2>3, <4>2 DEF BoardReads
      <4> QED
        BY <4>1, <4>2
    <3> QED
      BY <3>1, <3>4, <3>5
  <2> QED
    BY <2>1, <2>2, <2>3 DEF BoardStep
<1>4. UNCHANGED <<created, eventQueue, thread, archive, registered, led, button, recorded, history>>
  BY DEF BoardStep
<1> QED
  BY <1>2, <1>3, <1>4 DEF history

\* What makes an event: its number is the next, and it goes to thread t.
LEMMA MakeKeepsTypes ==
  ASSUME PipelineTypeOK, NEW t \in Threads,
         NEW type \in BoardSays, NEW target \in {"led", "board", "hhip"}, NEW state \in Switch,
         Make(t, Event(type, target, state))
  PROVE  /\ created' \in Nat /\ created' = created + 1 /\ created' \in Numbers'
         /\ Numbers \subseteq Numbers'
         /\ thread' \in [Threads -> Stages']
         /\ eventQueue \in Seq(Events')
         /\ archive \in Seq(Numbers')
<1> USE DEF PipelineTypeOK
<1>1. created' = created + 1 /\ created' \in Nat /\ created' \in Numbers'
  BY DEF Make, Numbers
<1>2. Numbers \subseteq Numbers' /\ Events \subseteq Events' /\ Stages \subseteq Stages'
  BY <1>1, StagesGrow
<1>3. Event(type, target, state) \in Events'
  BY <1>1 DEF Event, Events
<1>4. [step |-> "made", event |-> Event(type, target, state)] \in Stages'
  BY <1>3 DEF Stages
<1>5. thread' \in [Threads -> Stages']
  BY <1>2, <1>4 DEF Make
<1>6. eventQueue \in Seq(Events') /\ archive \in Seq(Numbers')
  BY <1>2, SeqGrows
<1> QED
  BY <1>1, <1>2, <1>5, <1>6

LEMMA MakersKeepTypes == PipelineTypeOK /\ (HandleMessage \/ PressOrRelease) => PipelineTypeOK'
<1> SUFFICES ASSUME PipelineTypeOK, HandleMessage \/ PressOrRelease PROVE PipelineTypeOK'
  OBVIOUS
<1> USE DEF PipelineTypeOK
<1>1. CASE HandleMessage
  <2> DEFINE m == Head(toEngine)
             target == IF m.type = "STATE_UPDATE" THEN "led" ELSE "hhip"
  <2>1. m \in Lines(BoardSays) /\ Tail(toEngine) \in Seq(Lines(BoardSays))
    BY <1>1 DEF HandleMessage
  <2>2. m.type \in BoardSays /\ m.state \in Switch /\ target \in {"led", "board", "hhip"}
    BY <2>1 DEF Lines
  <2>3. Make("communication", Event(m.type, target, m.state)) /\ "communication" \in Threads
    BY <1>1 DEF HandleMessage, Threads
  <2>4. /\ created' \in Nat /\ created' \in Numbers' /\ Numbers \subseteq Numbers'
        /\ thread' \in [Threads -> Stages']
        /\ eventQueue \in Seq(Events') /\ archive \in Seq(Numbers')
    <3> HIDE DEF m, target
    <3> QED
      BY <2>2, <2>3, MakeKeepsTypes
  <2>5. /\ DOMAIN answers' \subseteq Numbers' /\ DOMAIN answers \subseteq DOMAIN answers'
        /\ \A i \in DOMAIN answers' : answers'[i] \in Nat
    BY <1>1, <2>4 DEF HandleMessage
  <2>6. /\ toEngine' \in Seq(Lines(BoardSays))
        /\ UNCHANGED <<eventQueue, archive, registered, led, button, recorded, raised, newest, overtaken,
                   toBoard, boardButton, boardLed, dropped>>
    BY <1>1, <2>1 DEF HandleMessage, board
  <2> QED
    BY <2>4, <2>5, <2>6
<1>2. CASE PressOrRelease
  <2>1. button' \in Switch /\ "STATE_UPDATE" \in BoardSays /\ "interactive" \in Threads
    BY <1>2, OtherType DEF PressOrRelease, BoardSays, Threads
  <2>2. Make("interactive", Event("STATE_UPDATE", "board", button'))
    BY <1>2 DEF PressOrRelease, Emitted
  <2>3. /\ created' \in Nat /\ Numbers \subseteq Numbers' /\ thread' \in [Threads -> Stages']
        /\ eventQueue \in Seq(Events') /\ archive \in Seq(Numbers')
    BY <2>1, <2>2, MakeKeepsTypes
  <2>4. recorded' \subseteq VirtualDevices
    BY <1>2 DEF PressOrRelease, VirtualDevices
  <2>5. UNCHANGED <<eventQueue, archive, registered, led, history, lines, board>>
    BY <1>2 DEF PressOrRelease
  <2> QED
    BY <2>1, <2>3, <2>4, <2>5 DEF history, lines, board
<1> QED
  BY <1>1, <1>2

\* Where a thread may go with the event it has.
LEMMA EventOf ==
  ASSUME thread \in [Threads -> Stages], NEW t \in Threads,
         thread[t].step \notin {"idle", "added"}
  PROVE  thread[t].event \in Events
  BY StageCases DEF Carried, Copied

LEMMA AnswerKeepsTypes ==
  ASSUME PipelineTypeOK, NEW e, NEW type \in EngineSays, Answer(e, type)
  PROVE  /\ toBoard' \in Seq(Lines(EngineSays))
         /\ DOMAIN answers' = DOMAIN answers
         /\ \A i \in DOMAIN answers' : answers'[i] \in Nat
<1>1. Line(type, "OFF") \in Lines(EngineSays)
  BY LineType DEF Switch
<1>2. toBoard' \in Seq(Lines(EngineSays))
  BY <1>1 DEF Answer, PipelineTypeOK
<1>3. DOMAIN answers' = DOMAIN answers
  BY DEF Answer
<1>4. ASSUME NEW i \in DOMAIN answers' PROVE answers'[i] \in Nat
  <2>1. answers[i] \in Nat
    BY <1>3, <1>4 DEF PipelineTypeOK
  <2>2. answers'[i] = IF i = e.number THEN answers[i] + 1 ELSE answers[i]
    BY <1>3, <1>4 DEF Answer
  <2> QED
    BY <2>1, <2>2
<1> QED
  BY <1>2, <1>3, <1>4

LEMMA ThreadKeepsTypes ==
  ASSUME PipelineTypeOK, NEW t \in Threads, ThreadStep(t)
  PROVE  PipelineTypeOK'
<1> USE DEF PipelineTypeOK
<1>1. created' = created
  BY DEF ThreadStep, AddEvent, GetEvent, Archive, Route, Protocol, CopyStates, Acknowledge
<1>2. Numbers' = Numbers /\ Events' = Events /\ Stages' = Stages
  BY <1>1, SameNumbers
<1>3. CASE AddEvent(t)
  <2>1. thread[t].event \in Events
    BY <1>3, EventOf DEF AddEvent
  <2>2. eventQueue' \in Seq(Events)
    BY <1>3, <2>1 DEF AddEvent
  <2>3. thread' \in [Threads -> Stages]
    BY <1>3, PutStage, PlainStages DEF AddEvent
  <2> QED
    BY <1>2, <1>3, <2>2, <2>3 DEF AddEvent, history, lines, board
<1>4. CASE GetEvent(t)
  <2>1. eventQueue' \in Seq(Events)
    BY <1>4 DEF GetEvent
  <2>2. eventQueue # <<>> => [step |-> "taken", event |-> Head(eventQueue)] \in Stages
    BY DEF Stages
  <2>3. thread' \in [Threads -> Stages]
    BY <1>4, <2>2, PutStage, PlainStages DEF GetEvent
  <2> QED
    BY <1>2, <1>4, <2>1, <2>3 DEF GetEvent, history, lines, board
<1>5. CASE Archive(t)
  <2>1. thread[t].event.number \in Numbers
    BY <1>5, EventOf DEF Archive, Events
  <2>2. archive' \in Seq(Numbers)
    BY <1>5, <2>1 DEF Archive
  <2>3. thread' \in [Threads -> Stages]
    BY <1>5, ToStage DEF Archive, To
  <2> QED
    BY <1>2, <1>5, <2>2, <2>3 DEF Archive, history, lines, board
<1>6. CASE Route(t)
  <2> DEFINE e == thread[t].event
  <2>1. e \in Events
    BY <1>6, EventOf DEF Route
  <2>2. thread' \in [Threads -> Stages]
    BY <1>6, ToStage DEF Route, To
  <2>3. e.number \in Nat /\ e.state \in Switch
    BY <2>1 DEF Events, Numbers
  <2>4. led' \in Switch /\ recorded' \subseteq VirtualDevices
    BY <1>6, <2>3 DEF Route, VirtualDevices
  <2>5. newest' \in [{"led", "board"} -> Nat] /\ overtaken' \in BOOLEAN /\ dropped' \in BOOLEAN
    <3>1. CASE e.type # "STATE_UPDATE"
      BY <1>6, <3>1 DEF Route
    <3>2. CASE e.type = "STATE_UPDATE"
      <4>1. newest' \in [{"led", "board"} -> Nat]
        BY <1>6, <2>3, <3>2 DEF Route
      <4>2. overtaken' = (overtaken \/ newest[e.target] > e.number)
        BY <1>6, <3>2 DEF Route
      <4>3. dropped' \in {dropped, ~registered}
        BY <1>6, <3>2 DEF Route
      <4> QED
        BY <4>1, <4>2, <4>3
    <3> QED
      BY <3>1, <3>2
  <2>6. toBoard' \in Seq(Lines(EngineSays))
    <3>1. Line("STATE_UPDATE", e.state) \in Lines(EngineSays)
      BY <2>3, LineType DEF EngineSays
    <3>2. toBoard' = toBoard \/ toBoard' = Append(toBoard, Line("STATE_UPDATE", e.state))
      BY <1>6 DEF Route
    <3>3. Append(toBoard, Line("STATE_UPDATE", e.state)) \in Seq(Lines(EngineSays))
      BY <3>1
    <3> QED
      BY <3>2, <3>3
  <2>7. UNCHANGED <<created, eventQueue, archive, registered, button, answers, raised, toEngine, board>>
    BY <1>6 DEF Route
  <2> QED
    BY <1>2, <2>2, <2>4, <2>5, <2>6, <2>7 DEF board
<1>7. CASE Protocol(t)
  <2> DEFINE e == thread[t].event
  <2>1. thread' \in [Threads -> Stages]
    BY <1>7, PutStage, PlainStages DEF Protocol, Done
  <2>2. registered' \in BOOLEAN
    BY <1>7 DEF Protocol
  <2>3. \/ \E type \in EngineSays : Answer(e, type)
        \/ UNCHANGED <<toBoard, answers>>
    BY <1>7 DEF Protocol, HandleHeartbeat, EngineSays
  <2>4. /\ toBoard' \in Seq(Lines(EngineSays)) /\ DOMAIN answers' = DOMAIN answers
        /\ \A i \in DOMAIN answers' : answers'[i] \in Nat
    BY <2>3, AnswerKeepsTypes
  <2>5. UNCHANGED <<created, eventQueue, archive, led, button, recorded, raised, newest, overtaken, dropped,
                   toEngine, board>>
    BY <1>7 DEF Protocol
  <2> QED
    BY <1>2, <2>1, <2>2, <2>4, <2>5 DEF board
<1>8. CASE CopyStates(t)
  <2>1. thread[t].event \in Events
    BY <1>8, EventOf DEF CopyStates
  <2>2. [step |-> "copying", event |-> thread[t].event, known |-> recorded] \in Stages
    BY <2>1 DEF Stages
  <2>3. thread' \in [Threads -> Stages]
    BY <1>8, <2>2, PutStage DEF CopyStates
  <2> QED
    BY <1>2, <1>8, <2>3 DEF CopyStates, history, lines, board
<1>9. CASE Acknowledge(t)
  <2> DEFINE e == thread[t].event
  <2>1. thread' \in [Threads -> Stages]
    BY <1>9, PutStage, PlainStages DEF Acknowledge, Done
  <2>2. CASE Answer(e, "ACK") /\ UNCHANGED raised
    <3>1. /\ toBoard' \in Seq(Lines(EngineSays)) /\ DOMAIN answers' = DOMAIN answers
          /\ \A i \in DOMAIN answers' : answers'[i] \in Nat
      BY <2>2, AnswerKeepsTypes DEF EngineSays
    <3> QED
      BY <1>2, <1>9, <2>1, <2>2, <3>1 DEF Acknowledge, board
  <2>3. CASE raised' = raised \cup {e.number} /\ UNCHANGED <<toBoard, answers>>
    <3>1. e.number \in Numbers
      BY <1>9, EventOf DEF Acknowledge, Events
    <3> QED
      BY <1>2, <1>9, <2>1, <2>3, <3>1 DEF Acknowledge, board
  <2> QED
    BY <1>9, <2>2, <2>3 DEF Acknowledge
<1> QED
  BY <1>3, <1>4, <1>5, <1>6, <1>7, <1>8, <1>9 DEF ThreadStep

-----------------------------------------------------------------------------
(* Where an event is: the invariant                                        *)

Has(t) == thread[t].step \in {"made", "taken", "archived", "routed", "copying"}
Fresh(t) == thread[t].step \in {"made", "taken"}
Num(t) == thread[t].event.number
Added(t) == IF thread[t].step = "added" THEN 1 ELSE 0

\* The queue holds as many events as there are threads yet to take one.
QueueIsOwed == Len(eventQueue) = Added("communication") + Added("interactive")

\* No event is in two places.
OnePlace ==
    /\ \A t, u \in Threads : Has(t) /\ Has(u) /\ Num(t) = Num(u) => t = u
    /\ \A k, l \in DOMAIN eventQueue : eventQueue[k].number = eventQueue[l].number => k = l
    /\ \A t \in Threads, k \in DOMAIN eventQueue : Has(t) => Num(t) # eventQueue[k].number

\* What was not published yet is not in the archive.
ArchivedOnce ==
    /\ \A t \in Threads : Fresh(t) => ~Archived(Num(t))
    /\ \A k \in DOMAIN eventQueue : ~Archived(eventQueue[k].number)
    /\ \A k, l \in DOMAIN archive : archive[k] = archive[l] => k = l

Somewhere == \A i \in Numbers : InHand(i) \/ Queued(i) \/ Archived(i)

PlacesInv == QueueIsOwed /\ OnePlace /\ ArchivedOnce /\ Somewhere

LEMMA PlacesInit == PipelineInit => PlacesInv
<1> SUFFICES ASSUME PipelineInit PROVE PlacesInv
  OBVIOUS
<1>1. created = 0 /\ eventQueue = <<>> /\ archive = <<>> /\ \A t \in Threads : thread[t].step = "idle"
  BY DEF PipelineInit, Resting
<1>2. Numbers = {} /\ DOMAIN eventQueue = {} /\ DOMAIN archive = {} /\ Len(eventQueue) = 0
  BY <1>1 DEF Numbers
<1>3. QueueIsOwed
  BY <1>1, <1>2 DEF QueueIsOwed, Added, Threads
<1> QED
  BY <1>1, <1>2, <1>3 DEF PlacesInv, OnePlace, ArchivedOnce, Somewhere, Has, Fresh, Archived

LEMMA Appended ==
  ASSUME NEW S, NEW q \in Seq(S), NEW e \in S
  PROVE  /\ Len(q) \in Nat /\ DOMAIN q = 1 .. Len(q)
         /\ DOMAIN Append(q, e) = 1 .. Len(q) + 1 /\ Len(Append(q, e)) = Len(q) + 1
         /\ Append(q, e)[Len(q) + 1] = e
         /\ \A k \in DOMAIN q : Append(q, e)[k] = q[k]
  OBVIOUS

LEMMA Taken ==
  ASSUME NEW S, NEW q \in Seq(S), q # <<>>
  PROVE  /\ Len(q) \in Nat \ {0} /\ DOMAIN q = 1 .. Len(q)
         /\ DOMAIN Tail(q) = 1 .. Len(q) - 1 /\ Len(Tail(q)) = Len(q) - 1
         /\ Head(q) = q[1]
         /\ \A k \in DOMAIN Tail(q) : Tail(q)[k] = q[k + 1]
  OBVIOUS

\* A step that goes on publishing, or is done with it, moves no event.
LEMMA PublishingKeepsPlaces ==
  ASSUME PipelineTypeOK, PlacesInv, NEW t \in Threads,
         thread[t].step \in {"archived", "routed", "copying"},
         NEW stage, thread' = [thread EXCEPT ![t] = stage],
         \/ stage = Resting
         \/ stage.step \in {"routed", "copying"} /\ stage.event = thread[t].event,
         UNCHANGED <<created, eventQueue, archive>>
  PROVE  PlacesInv'
<1>1. \A u \in Threads : IF u = t THEN thread'[u] = stage ELSE thread'[u] = thread[u]
  BY DEF PipelineTypeOK
<1>2. \A u \in Threads : /\ thread'[u].step = "added" <=> thread[u].step = "added"
                         /\ Fresh(u)' <=> Fresh(u)
                         /\ Has(u)' => Has(u) /\ Num(u)' = Num(u)
                         /\ Fresh(u) => Num(u)' = Num(u)
  BY <1>1 DEF Fresh, Has, Num, Resting
<1>3. QueueIsOwed'
  BY <1>2 DEF PlacesInv, QueueIsOwed, Added, Threads
<1>4. OnePlace'
  BY <1>2 DEF PlacesInv, OnePlace
<1>5. ArchivedOnce'
  BY <1>2 DEF PlacesInv, ArchivedOnce, Archived
<1>6. Somewhere'
  <2>1. \A i : InHand(i) => InHand(i)'
    BY <1>2 DEF InHand, Fresh, Num
  <2> QED
    BY <2>1 DEF PlacesInv, Somewhere, Queued, Archived, Numbers
<1> QED
  BY <1>3, <1>4, <1>5, <1>6 DEF PlacesInv

\* The number of what is made is new.
LEMMA MakeKeepsPlaces ==
  ASSUME PipelineTypeOK, PlacesInv, NEW t \in Threads, thread[t] = Resting,
         NEW type, NEW target, NEW state, Make(t, Event(type, target, state)),
         UNCHANGED <<eventQueue, archive>>
  PROVE  PlacesInv'
<1> DEFINE e == Event(type, target, state)
<1>1. e.number = created + 1 /\ created' = created + 1 /\ created \in Nat
  BY DEF Make, Event, PipelineTypeOK
<1>2. \A u \in Threads : thread'[u] = IF u = t THEN [step |-> "made", event |-> e] ELSE thread[u]
  BY DEF Make, PipelineTypeOK
<1> HIDE DEF e
<1>3. thread[t].step = "idle" /\ Has(t)' /\ Fresh(t)' /\ Num(t)' = created + 1 /\ thread'[t].step = "made"
  BY <1>1, <1>2 DEF Has, Fresh, Num, Resting
<1>4. \A u \in Threads \ {t} : thread'[u] = thread[u]
  BY <1>2
<1>5. ASSUME NEW u \in Threads, Has(u) PROVE Num(u) <= created /\ Num(u) \in Nat
  <2>1. thread[u].event \in Events
    BY <1>5, EventOf DEF Has, PipelineTypeOK
  <2> QED
    BY <1>1, <2>1 DEF Num, Events, Numbers
<1>6. ASSUME NEW k \in DOMAIN eventQueue
      PROVE  eventQueue[k].number <= created /\ eventQueue[k].number \in Nat
  <2>1. eventQueue[k] \in Events
    BY DEF PipelineTypeOK
  <2> QED
    BY <1>1, <2>1 DEF Events, Numbers
<1>7. \A k \in DOMAIN archive : archive[k] <= created /\ archive[k] \in Nat
  BY DEF PipelineTypeOK, Numbers
<1>8. QueueIsOwed'
  BY <1>3, <1>4 DEF PlacesInv, QueueIsOwed, Added, Threads
<1>9. OnePlace'
  BY <1>1, <1>3, <1>4, <1>5, <1>6 DEF PlacesInv, OnePlace, Has, Num
<1>10. ArchivedOnce'
  BY <1>1, <1>3, <1>4, <1>7 DEF PlacesInv, ArchivedOnce, Archived, Fresh, Num
<1>11. Somewhere'
  <2> SUFFICES ASSUME NEW i \in Numbers' PROVE InHand(i)' \/ Queued(i)' \/ Archived(i)'
    BY DEF Somewhere
  <2>1. CASE i = created + 1
    BY <1>3, <2>1 DEF InHand, Fresh, Num
  <2>2. CASE i # created + 1
    <3>1. i \in Numbers
      BY <1>1, <2>2 DEF Numbers
    <3>2. InHand(i) => InHand(i)'
      BY <1>3, <1>4 DEF InHand
    <3> QED
      BY <3>1, <3>2 DEF PlacesInv, Somewhere, Queued, Archived
  <2> QED
    BY <2>1, <2>2
<1> QED
  BY <1>8, <1>9, <1>10, <1>11 DEF PlacesInv

LEMMA AddKeepsPlaces ==
  ASSUME PipelineTypeOK, PlacesInv, NEW t \in Threads, AddEvent(t)
  PROVE  PlacesInv'
<1> DEFINE e == thread[t].event
           n == Len(eventQueue) + 1
<1>1. e \in Events /\ thread[t].step = "made"
  BY EventOf DEF AddEvent, PipelineTypeOK
<1>2. /\ Len(eventQueue) \in Nat /\ DOMAIN eventQueue = 1 .. Len(eventQueue)
      /\ DOMAIN eventQueue' = 1 .. n /\ Len(eventQueue') = n
      /\ n \in DOMAIN eventQueue' /\ eventQueue'[n] = e
      /\ \A k \in DOMAIN eventQueue : k \in DOMAIN eventQueue' /\ eventQueue'[k] = eventQueue[k]
  BY <1>1, Appended DEF AddEvent, PipelineTypeOK
<1>3. /\ thread'[t].step = "added" /\ \A u \in Threads \ {t} : thread'[u] = thread[u]
  BY DEF AddEvent, PipelineTypeOK
<1>4. UNCHANGED <<created, archive>>
  BY DEF AddEvent
<1>5. ~Has(t)' /\ ~Fresh(t)' /\ Has(t) /\ Fresh(t) /\ Num(t) = e.number
  BY <1>1, <1>3 DEF Has, Fresh, Num
<1>6. \A u \in Threads : Has(u)' => u # t /\ Has(u) /\ Num(u)' = Num(u) /\ (Fresh(u)' => Fresh(u))
  BY <1>3, <1>5 DEF Has, Fresh, Num
<1>7. \A k \in DOMAIN eventQueue' : k = n \/ k \in DOMAIN eventQueue
  BY <1>2
<1> HIDE DEF e, n
<1>8. QueueIsOwed'
  <2>1. n = Len(eventQueue) + 1
    BY DEF n
  <2> QED
    BY <1>1, <1>2, <1>3, <2>1 DEF PlacesInv, QueueIsOwed, Added, Threads
<1>9. OnePlace'
  BY <1>2, <1>5, <1>6, <1>7 DEF PlacesInv, OnePlace
<1>10. ArchivedOnce'
  <2>1. \A u \in Threads : Fresh(u)' => Fresh(u) /\ Num(u)' = Num(u)
    BY <1>6 DEF Fresh, Has
  <2>2. \A k \in DOMAIN eventQueue' : \A l \in DOMAIN archive : archive[l] # eventQueue'[k].number
    BY <1>2, <1>5, <1>7 DEF PlacesInv, ArchivedOnce, Archived
  <2> QED
    BY <1>4, <2>1, <2>2 DEF PlacesInv, ArchivedOnce, Archived
<1>11. Somewhere'
  <2> SUFFICES ASSUME NEW i \in Numbers PROVE InHand(i)' \/ Queued(i)' \/ Archived(i)'
    BY <1>4 DEF Somewhere, Numbers
  <2>1. CASE i = e.number
    BY <1>2, <2>1 DEF Queued
  <2>2. CASE Queued(i)
    BY <1>2, <2>2 DEF Queued
  <2>3. CASE Archived(i)
    BY <1>4, <2>3 DEF Archived
  <2>4. CASE InHand(i) /\ i # e.number
    BY <1>3, <1>5, <2>4 DEF InHand, Num
  <2> QED
    BY <2>1, <2>2, <2>3, <2>4 DEF PlacesInv, Somewhere
<1> QED
  BY <1>8, <1>9, <1>10, <1>11 DEF PlacesInv

LEMMA GetKeepsPlaces ==
  ASSUME PipelineTypeOK, PlacesInv, NEW t \in Threads, GetEvent(t)
  PROVE  PlacesInv'
<1>1. thread[t].step = "added" /\ UNCHANGED <<created, archive>>
  BY DEF GetEvent
<1>2. eventQueue # <<>>
  BY <1>1 DEF PlacesInv, QueueIsOwed, Added, Threads
<1> DEFINE e == Head(eventQueue)
<1>3. /\ Len(eventQueue) \in Nat \ {0} /\ DOMAIN eventQueue = 1 .. Len(eventQueue)
      /\ DOMAIN eventQueue' = 1 .. Len(eventQueue) - 1 /\ Len(eventQueue') = Len(eventQueue) - 1
      /\ e = eventQueue[1] /\ 1 \in DOMAIN eventQueue
      /\ \A k \in DOMAIN eventQueue' : k + 1 \in DOMAIN eventQueue /\ eventQueue'[k] = eventQueue[k + 1]
      /\ \A k \in DOMAIN eventQueue : k # 1 => k - 1 \in DOMAIN eventQueue' /\ eventQueue'[k - 1] = eventQueue[k]
  BY <1>2, Taken DEF GetEvent, PipelineTypeOK
<1>4. /\ thread'[t] = [step |-> "taken", event |-> e]
      /\ \A u \in Threads \ {t} : thread'[u] = thread[u]
  BY <1>2 DEF GetEvent, PipelineTypeOK
<1> HIDE DEF e
<1>5. /\ ~Has(t) /\ ~Fresh(t) /\ Has(t)' /\ Fresh(t)' /\ Num(t)' = e.number
      /\ thread'[t].step # "added"
  BY <1>1, <1>4 DEF Has, Fresh, Num
<1>6. \A u \in Threads \ {t} : /\ Has(u)' <=> Has(u)
                               /\ Fresh(u)' <=> Fresh(u)
                               /\ Num(u)' = Num(u)
  BY <1>4 DEF Has, Fresh, Num
<1>7. QueueIsOwed'
  BY <1>1, <1>3, <1>4, <1>5 DEF PlacesInv, QueueIsOwed, Added, Threads
<1>8. OnePlace'
  <2>1. ASSUME NEW u \in Threads, NEW v \in Threads, Has(u)', Has(v)', Num(u)' = Num(v)' PROVE u = v
    BY <1>3, <1>5, <1>6, <2>1 DEF PlacesInv, OnePlace
  <2>2. ASSUME NEW k \in DOMAIN eventQueue', NEW l \in DOMAIN eventQueue',
               eventQueue'[k].number = eventQueue'[l].number
        PROVE  k = l
    <3>1. k + 1 = l + 1
      BY <1>3, <2>2 DEF PlacesInv, OnePlace
    <3> QED
      BY <1>3, <3>1
  <2>3. ASSUME NEW u \in Threads, NEW k \in DOMAIN eventQueue', Has(u)'
        PROVE  Num(u)' # eventQueue'[k].number
    <3>1. k + 1 \in DOMAIN eventQueue /\ k + 1 # 1 /\ eventQueue'[k] = eventQueue[k + 1]
      BY <1>3
    <3>2. CASE u = t
      BY <1>3, <1>5, <3>1, <3>2 DEF PlacesInv, OnePlace
    <3>3. CASE u # t
      BY <1>6, <2>3, <3>1, <3>3 DEF PlacesInv, OnePlace
    <3> QED
      BY <3>2, <3>3
  <2> QED
    BY <2>1, <2>2, <2>3 DEF OnePlace
<1>9. ArchivedOnce'
  <2>1. \A u \in Threads : Fresh(u)' => \A l \in DOMAIN archive : archive[l] # Num(u)'
    BY <1>3, <1>5, <1>6 DEF PlacesInv, ArchivedOnce, Archived
  <2>2. \A k \in DOMAIN eventQueue' : \A l \in DOMAIN archive : archive[l] # eventQueue'[k].number
    BY <1>3 DEF PlacesInv, ArchivedOnce, Archived
  <2> QED
    BY <1>1, <2>1, <2>2 DEF PlacesInv, ArchivedOnce, Archived
<1>10. Somewhere'
  <2> SUFFICES ASSUME NEW i \in Numbers PROVE InHand(i)' \/ Queued(i)' \/ Archived(i)'
    BY <1>1 DEF Somewhere, Numbers
  <2>1. CASE InHand(i)
    <3>1. PICK u \in Threads : thread[u].step \in {"made", "taken"} /\ thread[u].event.number = i
      BY <2>1 DEF InHand
    <3> QED
      BY <1>1, <1>4, <3>1 DEF InHand
  <2>2. CASE Queued(i)
    <3>1. PICK k \in DOMAIN eventQueue : eventQueue[k].number = i
      BY <2>2 DEF Queued
    <3>2. CASE k = 1
      BY <1>3, <1>4, <3>1, <3>2 DEF InHand
    <3>3. CASE k # 1
      BY <1>3, <3>1, <3>3 DEF Queued
    <3> QED
      BY <3>2, <3>3
  <2>3. CASE Archived(i)
    BY <1>1, <2>3 DEF Archived
  <2> QED
    BY <2>1, <2>2, <2>3 DEF PlacesInv, Somewhere
<1> QED
  BY <1>7, <1>8, <1>9, <1>10 DEF PlacesInv

LEMMA ArchiveKeepsPlaces ==
  ASSUME PipelineTypeOK, PlacesInv, NEW t \in Threads, Archive(t)
  PROVE  PlacesInv'
<1> DEFINE n == Len(archive) + 1
<1>1. /\ thread[t].step = "taken" /\ archive' = Append(archive, Num(t))
      /\ UNCHANGED <<created, eventQueue>>
  BY DEF Archive, Num
<1>2. thread[t].event \in Events /\ Num(t) \in Numbers
  BY <1>1, EventOf DEF PipelineTypeOK, Events, Num
<1>3. /\ DOMAIN archive' = 1 .. n /\ DOMAIN archive = 1 .. Len(archive) /\ Len(archive) \in Nat
      /\ n \in DOMAIN archive' /\ archive'[n] = Num(t)
      /\ \A k \in DOMAIN archive : k \in DOMAIN archive' /\ archive'[k] = archive[k]
      /\ \A k \in DOMAIN archive' : k = n \/ k \in DOMAIN archive
  BY <1>1, <1>2, Appended DEF PipelineTypeOK
<1> HIDE DEF n
<1>4. thread[t] \in Carried
  BY <1>1, CarriedStage DEF PipelineTypeOK
<1>5. /\ thread'[t].step = "archived" /\ thread'[t].event = thread[t].event
      /\ \A u \in Threads \ {t} : thread'[u] = thread[u]
  BY <1>4 DEF Archive, To, PipelineTypeOK, Carried
<1>6. Has(t) /\ Fresh(t) /\ Has(t)' /\ ~Fresh(t)' /\ Num(t)' = Num(t)
  BY <1>1, <1>5 DEF Has, Fresh, Num
<1>7. \A u \in Threads : Has(u)' => Has(u) /\ Num(u)' = Num(u) /\ (Fresh(u)' => Fresh(u) /\ u # t)
  BY <1>5, <1>6 DEF Has, Fresh, Num
<1>8. QueueIsOwed'
  BY <1>1, <1>5 DEF PlacesInv, QueueIsOwed, Added, Threads
<1>9. OnePlace'
  BY <1>1, <1>7 DEF PlacesInv, OnePlace
<1>10. ArchivedOnce'
  <2>1. ASSUME NEW u \in Threads, Fresh(u)', NEW l \in DOMAIN archive' PROVE archive'[l] # Num(u)'
    <3>1. Has(u)' /\ Has(u) /\ Fresh(u) /\ u # t /\ Num(u)' = Num(u)
      BY <1>7, <2>1 DEF Fresh, Has
    <3>2. CASE l = n
      BY <1>3, <1>6, <3>1, <3>2 DEF PlacesInv, OnePlace
    <3>3. CASE l \in DOMAIN archive
      BY <1>3, <3>1, <3>3 DEF PlacesInv, ArchivedOnce, Archived
    <3> QED
      BY <1>3, <3>2, <3>3
  <2>2. ASSUME NEW k \in DOMAIN eventQueue, NEW l \in DOMAIN archive' PROVE archive'[l] # eventQueue[k].number
    <3>1. CASE l = n
      BY <1>3, <1>6, <3>1 DEF PlacesInv, OnePlace
    <3>2. CASE l \in DOMAIN archive
      BY <1>3, <3>2 DEF PlacesInv, ArchivedOnce, Archived
    <3> QED
      BY <1>3, <3>1, <3>2
  <2>3. ASSUME NEW k \in DOMAIN archive', NEW l \in DOMAIN archive', archive'[k] = archive'[l] PROVE k = l
    <3>1. \A j \in DOMAIN archive : archive[j] # Num(t)
      BY <1>6 DEF PlacesInv, ArchivedOnce, Archived
    <3> QED
      BY <1>3, <2>3, <3>1 DEF PlacesInv, ArchivedOnce
  <2> QED
    BY <1>1, <2>1, <2>2, <2>3 DEF ArchivedOnce, Archived
<1>11. Somewhere'
  <2> SUFFICES ASSUME NEW i \in Numbers PROVE InHand(i)' \/ Queued(i)' \/ Archived(i)'
    BY <1>1 DEF Somewhere, Numbers
  <2>1. CASE i = Num(t) \/ Archived(i)
    BY <1>3, <2>1 DEF Archived
  <2>2. CASE InHand(i) /\ i # Num(t)
    <3>1. PICK u \in Threads : thread[u].step \in {"made", "taken"} /\ thread[u].event.number = i
      BY <2>2 DEF InHand
    <3> QED
      BY <1>5, <2>2, <3>1 DEF InHand, Num
  <2>3. CASE Queued(i)
    BY <1>1, <2>3 DEF Queued
  <2> QED
    BY <2>1, <2>2, <2>3 DEF PlacesInv, Somewhere
<1> QED
  BY <1>8, <1>9, <1>10, <1>11 DEF PlacesInv

LEMMA TypeStep == PipelineTypeOK /\ [PipelineNext]_pipelineVars => PipelineTypeOK'
<1> SUFFICES ASSUME PipelineTypeOK, [PipelineNext]_pipelineVars PROVE PipelineTypeOK'
  OBVIOUS
<1>1. CASE UNCHANGED pipelineVars
  <2>1. Numbers' = Numbers /\ Events' = Events /\ Stages' = Stages
    BY <1>1, SameNumbers DEF pipelineVars
  <2> QED
    BY <1>1, <2>1 DEF PipelineTypeOK, pipelineVars
<1> QED
  BY <1>1, BoardKeepsTypes, MakersKeepTypes, ThreadKeepsTypes DEF PipelineNext

LEMMA PlacesStep == PipelineTypeOK /\ PlacesInv /\ [PipelineNext]_pipelineVars => PlacesInv'
<1> SUFFICES ASSUME PipelineTypeOK, PlacesInv, [PipelineNext]_pipelineVars PROVE PlacesInv'
  OBVIOUS
<1>1. CASE UNCHANGED <<created, eventQueue, thread, archive>>
  BY <1>1 DEF PlacesInv, QueueIsOwed, Added, OnePlace, Has, Num, ArchivedOnce, Fresh, Archived, Somewhere,
    Numbers, InHand, Queued
<1>2. CASE HandleMessage
  BY <1>2, MakeKeepsPlaces DEF HandleMessage, Threads
<1>3. CASE PressOrRelease
  BY <1>3, MakeKeepsPlaces DEF PressOrRelease, Emitted, Threads
<1>4. ASSUME NEW t \in Threads, ThreadStep(t) PROVE PlacesInv'
  <2>1. CASE AddEvent(t) \/ GetEvent(t) \/ Archive(t)
    BY <2>1, AddKeepsPlaces, GetKeepsPlaces, ArchiveKeepsPlaces
  <2>2. CASE Route(t)
    <3>1. thread[t] \in Carried
      BY <2>2, CarriedStage DEF Route, PipelineTypeOK
    <3> DEFINE stage == [thread[t] EXCEPT !.step = "routed"]
    <3>2. stage.step = "routed" /\ stage.event = thread[t].event
      BY <3>1 DEF Carried
    <3>3. thread' = [thread EXCEPT ![t] = stage]
      BY <2>2 DEF Route, To, PipelineTypeOK
    <3>4. thread[t].step = "archived" /\ UNCHANGED <<created, eventQueue, archive>>
      BY <2>2 DEF Route
    <3> HIDE DEF stage
    <3> QED
      BY <3>2, <3>3, <3>4, PublishingKeepsPlaces
  <2>3. CASE Protocol(t) \/ Acknowledge(t)
    BY <2>3, PublishingKeepsPlaces DEF Protocol, Acknowledge, Done
  <2>4. CASE CopyStates(t)
    <3> DEFINE stage == [step |-> "copying", event |-> thread[t].event, known |-> recorded]
    <3>1. stage.step = "copying" /\ stage.event = thread[t].event
      OBVIOUS
    <3>2. /\ thread[t].step = "routed" /\ thread' = [thread EXCEPT ![t] = stage]
          /\ UNCHANGED <<created, eventQueue, archive>>
      BY <2>4 DEF CopyStates
    <3> HIDE DEF stage
    <3> QED
      BY <3>1, <3>2, PublishingKeepsPlaces
  <2> QED
    BY <1>4, <2>1, <2>2, <2>3, <2>4 DEF ThreadStep
<1> QED
  BY <1>1, <1>2, <1>3, <1>4 DEF PipelineNext, BoardStep, pipelineVars

LEMMA PlacesHold == PipelineSpec => [](PipelineTypeOK /\ PlacesInv)
<1>1. PipelineInit => PipelineTypeOK /\ PlacesInv
  BY TypeInit, PlacesInit
<1>2. PipelineTypeOK /\ PlacesInv /\ [PipelineNext]_pipelineVars => (PipelineTypeOK /\ PlacesInv)'
  BY TypeStep, PlacesStep
<1> QED
  BY <1>1, <1>2, PTL DEF PipelineSpec

\* Every variable of the pipeline has its type.
THEOREM PipelineTypeCorrect == PipelineSpec => []PipelineTypeOK
  BY PlacesHold, PTL

LEMMA OwedByThreads ==
  Added("communication") + Added("interactive") = Cardinality({t \in Threads : thread[t].step = "added"})
<1> DEFINE S == {t \in Threads : thread[t].step = "added"}
<1>1. CASE S = {}
  BY <1>1, FS_EmptySet DEF Added, Threads
<1>2. ASSUME NEW x \in Threads, S = {x} PROVE Added("communication") + Added("interactive") = Cardinality(S)
  <2>1. Cardinality(S) = 1
    BY <1>2, FS_Singleton
  <2>2. \A t \in Threads : thread[t].step = "added" <=> t = x
    BY <1>2
  <2> QED
    BY <2>1, <2>2 DEF Added, Threads
<1>3. CASE S = {"communication"} \cup {"interactive"}
  <2>1. IsFiniteSet({"communication"}) /\ Cardinality({"communication"}) = 1
    BY FS_Singleton
  <2>2. Cardinality({"communication"} \cup {"interactive"}) = 2
    BY <2>1, FS_AddElement
  <2>3. \A t \in Threads : thread[t].step = "added"
    BY <1>3 DEF Threads
  <2> QED
    BY <1>3, <2>2, <2>3 DEF Added, Threads
<1>4. S = {} \/ (\E x \in Threads : S = {x}) \/ S = {"communication"} \cup {"interactive"}
  BY DEF Threads
<1> QED
  BY <1>1, <1>2, <1>3, <1>4

\* No event is lost or archived twice on its way through the queue that both
\* threads fill and empty without waiting for one another.
THEOREM NothingIsEverLost == PipelineSpec => []NothingIsLost
<1>1. PipelineTypeOK /\ PlacesInv => NothingIsLost
  BY OwedByThreads DEF PlacesInv, QueueIsOwed, ArchivedOnce, Somewhere, NothingIsLost
<1> QED
  BY <1>1, PlacesHold, PTL

-----------------------------------------------------------------------------
(* Answers: the invariant                                                  *)

\* The events under way.
Present == {thread[t].event : t \in {u \in Threads : Has(u)}}
           \cup {eventQueue[k] : k \in DOMAIN eventQueue}

\* What is under way has no answer yet, what is not has one or its snapshot
\* raised; and a state update from the line is for the LED.
AnswersInv ==
    /\ \A e \in Present :
         e.number \in DOMAIN answers =>
           /\ answers[e.number] = 0 /\ e.number \notin raised
           /\ e.type = "STATE_UPDATE" => e.target = "led"
    /\ \A i \in DOMAIN answers : answers[i] \in {0, 1}
    /\ \A i \in DOMAIN answers : answers[i] = 1 \/ i \in raised \/ \E e \in Present : e.number = i

\* A snapshot is copied with the LED recorded, and without the button only
\* until that is: by then the interactive thread, which presses it, copies none.
Copies(t) == thread[t].step = "copying"

SnapshotInv ==
    /\ \A t \in Threads :
         /\ thread[t].step = "routed" /\ thread[t].event.type = "STATE_UPDATE"
              /\ Num(t) \in DOMAIN answers => "led" \in recorded
         /\ Copies(t) => "led" \in thread[t].known /\ thread[t].known \subseteq recorded
    /\ Copies("interactive") /\ "button" \in recorded => "button" \in thread["interactive"].known
    /\ raised # {} => /\ "button" \in recorded
                      /\ \A t \in Threads : Copies(t) => "button" \in thread[t].known
    /\ \A i, j \in raised : i = j

LEMMA IsPresent ==
  \A e : e \in Present <=> \/ \E t \in Threads : Has(t) /\ thread[t].event = e
                          \/ \E k \in DOMAIN eventQueue : eventQueue[k] = e
  BY DEF Present

\* What is under way has one of the numbers given out.
LEMMA PresentNumbers ==
  ASSUME PipelineTypeOK, NEW e \in Present
  PROVE  e \in Events /\ e.number \in Numbers
<1>1. e \in Events
  <2>1. ASSUME NEW t \in Threads, Has(t) PROVE thread[t].event \in Events
    BY <2>1, EventOf DEF Has, PipelineTypeOK
  <2>2. ASSUME NEW k \in DOMAIN eventQueue PROVE eventQueue[k] \in Events
    BY DEF PipelineTypeOK
  <2> QED
    BY <2>1, <2>2, IsPresent
<1> QED
  BY <1>1 DEF Events

LEMMA PublishingKeepsPresent ==
  ASSUME NEW t \in Threads, Has(t), Has(t)', thread'[t].event = thread[t].event,
         \A u \in Threads \ {t} : thread'[u] = thread[u],
         eventQueue' = eventQueue
  PROVE  Present' = Present
<1>1. \A u \in Threads : /\ Has(u)' <=> Has(u)
                         /\ Has(u) => thread'[u].event = thread[u].event
  BY DEF Has
<1> QED
  BY <1>1 DEF Present

LEMMA AddKeepsPresent ==
  ASSUME PipelineTypeOK, NEW t \in Threads, AddEvent(t)
  PROVE  Present' = Present
<1> DEFINE e == thread[t].event
           n == Len(eventQueue) + 1
<1>1. e \in Events /\ thread[t].step = "made"
  BY EventOf DEF AddEvent, PipelineTypeOK
<1>2. /\ n \in DOMAIN eventQueue' /\ eventQueue'[n] = e
      /\ \A k \in DOMAIN eventQueue : k \in DOMAIN eventQueue' /\ eventQueue'[k] = eventQueue[k]
      /\ \A k \in DOMAIN eventQueue' : k = n \/ k \in DOMAIN eventQueue
  BY <1>1, Appended DEF AddEvent, PipelineTypeOK
<1>3. /\ thread'[t].step = "added" /\ \A u \in Threads \ {t} : thread'[u] = thread[u]
  BY DEF AddEvent, PipelineTypeOK
<1>4. Has(t) /\ ~Has(t)' /\ \A u \in Threads \ {t} : Has(u)' <=> Has(u)
  BY <1>1, <1>3 DEF Has
<1> HIDE DEF n
<1>5. ASSUME NEW f \in Present PROVE f \in Present'
  <2>1. CASE \E u \in Threads : Has(u) /\ thread[u].event = f
    BY <1>2, <1>3, <1>4, <2>1 DEF Present
  <2>2. CASE \E k \in DOMAIN eventQueue : eventQueue[k] = f
    BY <1>2, <2>2 DEF Present
  <2> QED
    BY <2>1, <2>2, IsPresent
<1>6. ASSUME NEW f \in Present' PROVE f \in Present
  <2>1. CASE \E u \in Threads : Has(u)' /\ thread'[u].event = f
    BY <1>3, <1>4, <2>1 DEF Present
  <2>2. CASE \E k \in DOMAIN eventQueue' : eventQueue'[k] = f
    BY <1>2, <1>4, <2>2 DEF Present
  <2> QED
    BY <2>1, <2>2 DEF Present
<1> QED
  BY <1>5, <1>6

LEMMA GetKeepsPresent ==
  ASSUME PipelineTypeOK, PlacesInv, NEW t \in Threads, GetEvent(t)
  PROVE  Present' = Present
<1>1. thread[t].step = "added" /\ eventQueue # <<>>
  BY DEF GetEvent, PlacesInv, QueueIsOwed, Added, Threads
<1> DEFINE e == Head(eventQueue)
<1>2. /\ e = eventQueue[1] /\ 1 \in DOMAIN eventQueue
      /\ \A k \in DOMAIN eventQueue' : k + 1 \in DOMAIN eventQueue /\ eventQueue'[k] = eventQueue[k + 1]
      /\ \A k \in DOMAIN eventQueue : k # 1 => k - 1 \in DOMAIN eventQueue' /\ eventQueue'[k - 1] = eventQueue[k]
  BY <1>1, Taken DEF GetEvent, PipelineTypeOK
<1>3. /\ thread'[t] = [step |-> "taken", event |-> e]
      /\ \A u \in Threads \ {t} : thread'[u] = thread[u]
  BY <1>1 DEF GetEvent, PipelineTypeOK
<1> HIDE DEF e
<1>4. ~Has(t) /\ Has(t)' /\ \A u \in Threads \ {t} : Has(u)' <=> Has(u)
  BY <1>1, <1>3 DEF Has
<1>5. ASSUME NEW f \in Present PROVE f \in Present'
  <2>1. CASE \E u \in Threads : Has(u) /\ thread[u].event = f
    BY <1>3, <1>4, <2>1 DEF Present
  <2>2. ASSUME NEW k \in DOMAIN eventQueue, eventQueue[k] = f PROVE f \in Present'
    <3>1. CASE k = 1
      BY <1>2, <1>3, <1>4, <2>2, <3>1 DEF Present
    <3>2. CASE k # 1
      BY <1>2, <2>2, <3>2 DEF Present
    <3> QED
      BY <3>1, <3>2
  <2> QED
    BY <2>1, <2>2, IsPresent
<1>6. ASSUME NEW f \in Present' PROVE f \in Present
  <2>1. CASE \E u \in Threads : Has(u)' /\ thread'[u].event = f
    BY <1>2, <1>3, <1>4, <2>1 DEF Present
  <2>2. CASE \E k \in DOMAIN eventQueue' : eventQueue'[k] = f
    BY <1>2, <2>2 DEF Present
  <2> QED
    BY <2>1, <2>2 DEF Present
<1> QED
  BY <1>5, <1>6

LEMMA MakeAddsPresent ==
  ASSUME PipelineTypeOK, NEW t \in Threads, thread[t] = Resting, NEW e, Make(t, e),
         eventQueue' = eventQueue
  PROVE  Present' = Present \cup {e}
<1>1. /\ thread'[t] = [step |-> "made", event |-> e]
      /\ \A u \in Threads \ {t} : thread'[u] = thread[u]
  BY DEF Make, PipelineTypeOK
<1>2. ~Has(t) /\ Has(t)' /\ thread'[t].event = e /\ \A u \in Threads \ {t} : Has(u)' <=> Has(u)
  BY <1>1 DEF Has, Resting
<1>3. ASSUME NEW f PROVE f \in Present' <=> f \in Present \/ f = e
  BY <1>1, <1>2 DEF Present
<1> QED
  BY <1>3

\* An event whose publishing is over is gone, and no other has its number.
LEMMA DoneDropsPresent ==
  ASSUME PipelineTypeOK, PlacesInv, NEW t \in Threads, Has(t), Done(t), eventQueue' = eventQueue
  PROVE  /\ Present = Present' \cup {thread[t].event}
         /\ \A e \in Present' : e.number # Num(t)
<1>1. thread'[t] = Resting /\ \A u \in Threads \ {t} : thread'[u] = thread[u]
  BY DEF Done, PipelineTypeOK
<1>2. ~Has(t)' /\ \A u \in Threads \ {t} : Has(u)' <=> Has(u)
  BY <1>1 DEF Has, Resting
<1>3. ASSUME NEW e PROVE e \in Present <=> e \in Present' \/ e = thread[t].event
  BY <1>1, <1>2 DEF Present
<1>4. ASSUME NEW e \in Present' PROVE e.number # Num(t)
  <2>1. CASE \E u \in Threads : Has(u)' /\ thread'[u].event = e
    BY <1>1, <1>2, <2>1 DEF PlacesInv, OnePlace, Num
  <2>2. CASE \E k \in DOMAIN eventQueue : eventQueue[k] = e
    BY <2>2 DEF PlacesInv, OnePlace
  <2> QED
    BY <2>1, <2>2 DEF Present
<1> QED
  BY <1>3, <1>4

-----------------------------------------------------------------------------
(* Answers: the steps                                                      *)

LEMMA AnswersInit == PipelineInit => AnswersInv /\ SnapshotInv
<1> SUFFICES ASSUME PipelineInit PROVE AnswersInv /\ SnapshotInv
  OBVIOUS
<1>1. DOMAIN answers = {} /\ raised = {} /\ \A t \in Threads : thread[t].step = "idle"
  BY DEF PipelineInit, Resting
<1> QED
  BY <1>1 DEF AnswersInv, SnapshotInv, Copies, Threads

LEMMA HandleMessageKeepsAnswers ==
  ASSUME PipelineTypeOK, AnswersInv, HandleMessage
  PROVE  AnswersInv' /\ DOMAIN answers' \cap Numbers = DOMAIN answers
<1> DEFINE m == Head(toEngine)
           target == IF m.type = "STATE_UPDATE" THEN "led" ELSE "hhip"
           e == Event(m.type, target, m.state)
<1>1. /\ thread["communication"] = Resting /\ "communication" \in Threads /\ eventQueue' = eventQueue
      /\ Make("communication", e) /\ raised' = raised
      /\ DOMAIN answers' = DOMAIN answers \cup (IF m.type \in Asking THEN {created'} ELSE {})
      /\ \A i \in DOMAIN answers' : answers'[i] = IF i = created' THEN 0 ELSE answers[i]
  BY DEF HandleMessage, Threads
<1>2. Present' = Present \cup {e}
  BY <1>1, MakeAddsPresent
<1>3. e.number = created' /\ (e.type = "STATE_UPDATE" => e.target = "led")
  BY <1>1 DEF Event, Make
<1>4. created' \notin Numbers /\ created' \notin raised /\ created' \notin DOMAIN answers
  BY <1>1 DEF Make, PipelineTypeOK, Numbers
<1>5. \A f \in Present : f.number # created'
  BY <1>4, PresentNumbers
<1> HIDE DEF e, m, target
<1>6. \A f \in Present' :
         f.number \in DOMAIN answers' =>
           /\ answers'[f.number] = 0 /\ f.number \notin raised'
           /\ f.type = "STATE_UPDATE" => f.target = "led"
  BY <1>1, <1>2, <1>3, <1>4, <1>5 DEF AnswersInv
<1>7. \A i \in DOMAIN answers' : answers'[i] \in {0, 1}
  BY <1>1 DEF AnswersInv
<1>8. \A i \in DOMAIN answers' : answers'[i] = 1 \/ i \in raised' \/ \E f \in Present' : f.number = i
  <2> SUFFICES ASSUME NEW i \in DOMAIN answers'
               PROVE  answers'[i] = 1 \/ i \in raised' \/ \E f \in Present' : f.number = i
    OBVIOUS
  <2>1. CASE i = created'
    BY <1>2, <1>3, <2>1
  <2>2. CASE i # created'
    BY <1>1, <1>2, <2>2 DEF AnswersInv
  <2> QED
    BY <2>1, <2>2
<1>9. DOMAIN answers' \cap Numbers = DOMAIN answers
  BY <1>1, <1>4 DEF PipelineTypeOK
<1> QED
  BY <1>6, <1>7, <1>8, <1>9 DEF AnswersInv

LEMMA PressKeepsAnswers ==
  ASSUME PipelineTypeOK, AnswersInv, PressOrRelease
  PROVE  AnswersInv'
<1> DEFINE e == Emitted(button')
<1>1. /\ thread["interactive"] = Resting /\ "interactive" \in Threads /\ eventQueue' = eventQueue
      /\ Make("interactive", e) /\ UNCHANGED <<answers, raised>>
  BY DEF PressOrRelease, Threads, history
<1>2. Present' = Present \cup {e}
  BY <1>1, MakeAddsPresent
<1>3. e.number \notin DOMAIN answers
  BY <1>1 DEF Emitted, Event, PipelineTypeOK, Numbers
<1> QED
  BY <1>1, <1>2, <1>3 DEF AnswersInv

LEMMA SamePresentKeepsAnswers ==
  ASSUME AnswersInv, Present' = Present, UNCHANGED <<answers, raised>>
  PROVE  AnswersInv'
  BY DEF AnswersInv

LEMMA AnswerKeepsAnswers ==
  ASSUME PipelineTypeOK, PlacesInv, AnswersInv, NEW t \in Threads, Has(t), Done(t), eventQueue' = eventQueue,
         \/ (\E type : Answer(thread[t].event, type)) /\ raised' = raised
         \/ Num(t) \notin DOMAIN answers /\ UNCHANGED <<answers, raised>>
         \/ raised' = raised \cup {Num(t)} /\ UNCHANGED answers
  PROVE  AnswersInv' /\ DOMAIN answers' = DOMAIN answers
<1> DEFINE e == thread[t].event
<1>1. Present = Present' \cup {e} /\ (\A f \in Present' : f.number # Num(t)) /\ e.number = Num(t)
  BY DoneDropsPresent DEF Num
<1>2. e \in Present /\ (Num(t) \in DOMAIN answers => answers[Num(t)] = 0)
  BY <1>1 DEF AnswersInv
<1>3. /\ DOMAIN answers' = DOMAIN answers
      /\ raised \subseteq raised' /\ raised' \subseteq raised \cup {Num(t)}
      /\ \A i \in DOMAIN answers : i # Num(t) => answers'[i] = answers[i]
      /\ Num(t) \in DOMAIN answers => \/ answers'[Num(t)] = 1
                                      \/ Num(t) \in raised' /\ answers'[Num(t)] = 0
  <2>1. CASE (\E type : Answer(e, type)) /\ raised' = raised
    <3>1. answers' = [answers EXCEPT ![Num(t)] = @ + 1]
      BY <2>1 DEF Answer, Num
    <3>2. /\ DOMAIN answers' = DOMAIN answers
          /\ \A i \in DOMAIN answers : answers'[i] = IF i = Num(t) THEN answers[i] + 1 ELSE answers[i]
      BY <3>1
    <3> QED
      BY <1>2, <2>1, <3>2
  <2>2. CASE Num(t) \notin DOMAIN answers /\ UNCHANGED <<answers, raised>>
    BY <2>2
  <2>3. CASE raised' = raised \cup {Num(t)} /\ UNCHANGED answers
    BY <1>2, <2>3
  <2> QED
    BY <2>1, <2>2, <2>3
<1> HIDE DEF e
<1>4. \A f \in Present' :
         f.number \in DOMAIN answers' =>
           /\ answers'[f.number] = 0 /\ f.number \notin raised'
           /\ f.type = "STATE_UPDATE" => f.target = "led"
  BY <1>1, <1>3 DEF AnswersInv
<1>5. \A i \in DOMAIN answers' : answers'[i] \in {0, 1}
  BY <1>3 DEF AnswersInv
<1>6. \A i \in DOMAIN answers' : answers'[i] = 1 \/ i \in raised' \/ \E f \in Present' : f.number = i
  <2> SUFFICES ASSUME NEW i \in DOMAIN answers
               PROVE  answers'[i] = 1 \/ i \in raised' \/ \E f \in Present' : f.number = i
    BY <1>3
  <2>1. CASE i = Num(t)
    BY <1>3, <2>1
  <2>2. CASE i # Num(t)
    BY <1>1, <1>3, <2>2 DEF AnswersInv
  <2> QED
    BY <2>1, <2>2
<1> QED
  BY <1>3, <1>4, <1>5, <1>6 DEF AnswersInv

\* A thread that neither becomes one that routed nor copies, while nothing is
\* recorded: the snapshots are as they were.
LEMMA ElsewhereKeepsSnapshots ==
  ASSUME PipelineTypeOK, SnapshotInv, NEW t \in Threads,
         thread'[t].step \notin {"routed", "copying"},
         \A u \in Threads \ {t} : thread'[u] = thread[u],
         UNCHANGED <<recorded, raised>>,
         DOMAIN answers' \cap Numbers = DOMAIN answers
  PROVE  SnapshotInv'
<1>1. \A u \in Threads : /\ Copies(u)' => Copies(u) /\ thread'[u] = thread[u]
                         /\ thread'[u].step = "routed" => thread'[u] = thread[u]
  BY DEF Copies
<1>2. "interactive" \in Threads
  BY DEF Threads
<1>3. \A u \in Threads : Has(u) => Num(u) \in Numbers
  BY EventOf DEF Has, Num, Events, PipelineTypeOK
<1>4. ASSUME NEW u \in Threads, thread'[u].step = "routed", thread'[u].event.type = "STATE_UPDATE",
             Num(u)' \in DOMAIN answers'
      PROVE  "led" \in recorded
  BY <1>1, <1>3, <1>4 DEF SnapshotInv, Has, Num
<1>5. ASSUME NEW u \in Threads, Copies(u)'
      PROVE  "led" \in thread'[u].known /\ thread'[u].known \subseteq recorded
  BY <1>1, <1>5 DEF SnapshotInv
<1>6. Copies("interactive")' /\ "button" \in recorded => "button" \in thread'["interactive"].known
  BY <1>1, <1>2 DEF SnapshotInv
<1>7. raised # {} => /\ "button" \in recorded
                     /\ \A u \in Threads : Copies(u)' => "button" \in thread'[u].known
  BY <1>1 DEF SnapshotInv
<1> QED
  BY <1>4, <1>5, <1>6, <1>7 DEF SnapshotInv

\* From one subscriber to the next, with the same event.
LEMMA PublishingStages ==
  ASSUME PipelineTypeOK, NEW t \in Threads, Archive(t) \/ Route(t) \/ CopyStates(t)
  PROVE  /\ Has(t) /\ Has(t)' /\ thread'[t].event = thread[t].event
         /\ thread'[t].step = "archived" \/ ~Archive(t)
         /\ CopyStates(t) => thread'[t] = [step |-> "copying", event |-> thread[t].event, known |-> recorded]
         /\ Route(t) => thread'[t].step = "routed"
         /\ \A u \in Threads \ {t} : thread'[u] = thread[u]
<1>1. CASE Archive(t) \/ Route(t)
  <2>1. thread[t] \in Carried /\ Has(t)
    BY <1>1, CarriedStage DEF Archive, Route, Has, PipelineTypeOK
  <2>2. PICK step \in {"archived", "routed"} : To(t, step) /\ step = IF Archive(t) THEN "archived" ELSE "routed"
    BY <1>1 DEF Archive, Route
  <2>3. thread'[t] = [thread[t] EXCEPT !.step = step] /\ \A u \in Threads \ {t} : thread'[u] = thread[u]
    BY <2>2 DEF To, PipelineTypeOK
  <2>4. thread'[t].step = step /\ thread'[t].event = thread[t].event
    BY <2>1, <2>3 DEF Carried
  <2>5. ~CopyStates(t) /\ (Route(t) => ~Archive(t))
    BY <1>1 DEF Archive, Route, CopyStates
  <2> QED
    BY <1>1, <2>1, <2>2, <2>3, <2>4, <2>5 DEF Has
<1>2. CASE CopyStates(t)
  <2>1. ~Archive(t) /\ ~Route(t)
    BY <1>2 DEF CopyStates, Archive, Route
  <2>2. /\ thread'[t] = [step |-> "copying", event |-> thread[t].event, known |-> recorded]
        /\ \A u \in Threads \ {t} : thread'[u] = thread[u]
    BY <1>2 DEF CopyStates, PipelineTypeOK
  <2>3. thread[t].step = "routed"
    BY <1>2 DEF CopyStates
  <2> QED
    BY <2>1, <2>2, <2>3 DEF Has
<1> QED
  BY <1>1, <1>2

LEMMA AnswersStep ==
  ASSUME PipelineTypeOK, PlacesInv, AnswersInv, [PipelineNext]_pipelineVars
  PROVE  AnswersInv'
<1>1. CASE BoardStep \/ UNCHANGED pipelineVars
  <2>1. UNCHANGED <<thread, eventQueue, answers, raised>>
    BY <1>1 DEF BoardStep, pipelineVars, history
  <2>2. Present' = Present
    BY <2>1 DEF Present, Has
  <2> QED
    BY <2>1, <2>2, SamePresentKeepsAnswers
<1>2. CASE HandleMessage \/ PressOrRelease
  BY <1>2, HandleMessageKeepsAnswers, PressKeepsAnswers
<1>3. ASSUME NEW t \in Threads, ThreadStep(t) PROVE AnswersInv'
  <2>1. CASE AddEvent(t) \/ GetEvent(t)
    <3>1. UNCHANGED <<answers, raised>>
      BY <2>1 DEF AddEvent, GetEvent, history
    <3> QED
      BY <2>1, <3>1, AddKeepsPresent, GetKeepsPresent, SamePresentKeepsAnswers
  <2>2. CASE Archive(t) \/ Route(t) \/ CopyStates(t)
    <3>1. UNCHANGED <<eventQueue, answers, raised>>
      BY <2>2 DEF Archive, Route, CopyStates, history
    <3>2. /\ Has(t) /\ Has(t)' /\ thread'[t].event = thread[t].event
          /\ \A u \in Threads \ {t} : thread'[u] = thread[u]
      BY <2>2, PublishingStages
    <3>3. Present' = Present
      BY <3>1, <3>2, PublishingKeepsPresent
    <3> QED
      BY <3>1, <3>3, SamePresentKeepsAnswers
  <2>3. CASE Protocol(t)
    <3>1. Has(t) /\ Done(t) /\ UNCHANGED <<eventQueue, raised>>
      BY <2>3 DEF Protocol, Has
    <3>2. \/ \E type : Answer(thread[t].event, type)
          \/ Num(t) \notin DOMAIN answers /\ UNCHANGED answers
      BY <2>3 DEF Protocol, HandleHeartbeat, Num
    <3> QED
      BY <3>1, <3>2, AnswerKeepsAnswers
  <2>4. CASE Acknowledge(t)
    <3>1. Has(t) /\ Done(t) /\ UNCHANGED eventQueue
      BY <2>4 DEF Acknowledge, Has
    <3>2. \/ (\E type : Answer(thread[t].event, type)) /\ raised' = raised
          \/ raised' = raised \cup {Num(t)} /\ UNCHANGED answers
      BY <2>4 DEF Acknowledge, Num
    <3> QED
      BY <3>1, <3>2, AnswerKeepsAnswers
  <2> QED
    BY <1>3, <2>1, <2>2, <2>3, <2>4 DEF ThreadStep
<1> QED
  BY <1>1, <1>2, <1>3 DEF PipelineNext

LEMMA RouteKeepsSnapshots ==
  ASSUME PipelineTypeOK, AnswersInv, SnapshotInv, NEW t \in Threads, Route(t)
  PROVE  SnapshotInv'
<1>1. /\ thread'[t].step = "routed" /\ thread'[t].event = thread[t].event /\ Has(t)
      /\ \A u \in Threads \ {t} : thread'[u] = thread[u]
  BY PublishingStages
<1>2. UNCHANGED <<answers, raised>> /\ recorded' \in {recorded, recorded \cup {"led"}}
  BY DEF Route
<1>3. \A u \in Threads : Copies(u)' => Copies(u) /\ thread'[u] = thread[u]
  BY <1>1 DEF Copies
<1>4. "interactive" \in Threads
  BY DEF Threads
<1>5. ASSUME NEW u \in Threads, thread'[u].step = "routed", thread'[u].event.type = "STATE_UPDATE",
             Num(u)' \in DOMAIN answers
      PROVE  "led" \in recorded'
  <2>1. CASE u = t
    <3>1. thread[t].event \in Present
      BY <1>1 DEF Present
    <3>2. thread[t].event.target = "led" /\ thread[t].event.type = "STATE_UPDATE"
      BY <1>1, <1>5, <2>1, <3>1 DEF AnswersInv, Num
    <3> QED
      BY <3>2 DEF Route
  <2>2. CASE u # t
    BY <1>1, <1>2, <1>5, <2>2 DEF SnapshotInv, Num
  <2> QED
    BY <2>1, <2>2
<1>6. ASSUME NEW u \in Threads, Copies(u)'
      PROVE  "led" \in thread'[u].known /\ thread'[u].known \subseteq recorded'
  BY <1>2, <1>3, <1>6 DEF SnapshotInv
<1>7. Copies("interactive")' /\ "button" \in recorded' => "button" \in thread'["interactive"].known
  BY <1>2, <1>3, <1>4 DEF SnapshotInv
<1>8. raised' # {} => /\ "button" \in recorded'
                      /\ \A u \in Threads : Copies(u)' => "button" \in thread'[u].known
  BY <1>2, <1>3 DEF SnapshotInv
<1> QED
  BY <1>2, <1>5, <1>6, <1>7, <1>8 DEF SnapshotInv

LEMMA CopyStatesKeepsSnapshots ==
  ASSUME PipelineTypeOK, SnapshotInv, NEW t \in Threads, CopyStates(t)
  PROVE  SnapshotInv'
<1>1. /\ thread'[t] = [step |-> "copying", event |-> thread[t].event, known |-> recorded]
      /\ \A u \in Threads \ {t} : thread'[u] = thread[u]
  BY PublishingStages
<1>2. UNCHANGED <<answers, raised, recorded>> /\ "led" \in recorded
  BY DEF CopyStates, history, SnapshotInv, Num
<1>3. "interactive" \in Threads
  BY DEF Threads
<1>4. ASSUME NEW u \in Threads, Copies(u)'
      PROVE  \/ thread'[u].known = recorded
             \/ Copies(u) /\ thread'[u] = thread[u]
  BY <1>1, <1>4 DEF Copies
<1>5. ASSUME NEW u \in Threads, Copies(u)'
      PROVE  /\ "led" \in thread'[u].known /\ thread'[u].known \subseteq recorded
             /\ raised # {} => "button" \in thread'[u].known
  <2>1. CASE thread'[u].known = recorded
    BY <1>2, <2>1 DEF SnapshotInv
  <2>2. CASE Copies(u) /\ thread'[u] = thread[u]
    BY <2>2 DEF SnapshotInv
  <2> QED
    BY <1>4, <1>5, <2>1, <2>2
<1>6. Copies("interactive")' /\ "button" \in recorded => "button" \in thread'["interactive"].known
  BY <1>3, <1>4 DEF SnapshotInv
<1>7. /\ \A u \in Threads : Copies(u)' => "led" \in thread'[u].known /\ thread'[u].known \subseteq recorded'
      /\ raised' # {} => /\ "button" \in recorded'
                         /\ \A u \in Threads : Copies(u)' => "button" \in thread'[u].known
      /\ \A i, j \in raised' : i = j
  BY <1>2, <1>5 DEF SnapshotInv
<1> QED
  BY <1>2, <1>6, <1>7 DEF SnapshotInv

\* A snapshot raises when the button was recorded since the copy was begun:
\* the interactive thread pressed it, so it is the other's, and the first.
LEMMA AcknowledgeKeepsSnapshots ==
  ASSUME PipelineTypeOK, PlacesInv, AnswersInv, SnapshotInv, NEW t \in Threads, Acknowledge(t)
  PROVE  SnapshotInv'
<1>1. /\ thread'[t].step = "idle" /\ \A u \in Threads \ {t} : thread'[u] = thread[u]
      /\ UNCHANGED <<recorded, eventQueue>> /\ Has(t) /\ Done(t) /\ Copies(t)
  BY DEF Acknowledge, Done, Resting, Has, Copies, PipelineTypeOK
<1>2. CASE Answer(thread[t].event, "ACK") /\ UNCHANGED raised
  <2>1. DOMAIN answers' = DOMAIN answers
    BY <1>1, <1>2, AnswerKeepsAnswers
  <2>2. DOMAIN answers' \cap Numbers = DOMAIN answers
    BY <2>1 DEF PipelineTypeOK
  <2> QED
    BY <1>1, <1>2, <2>2, ElsewhereKeepsSnapshots
<1>3. CASE recorded # thread[t].known /\ raised' = raised \cup {Num(t)} /\ UNCHANGED answers
  <2>1. "led" \in thread[t].known /\ thread[t].known \subseteq recorded /\ recorded \subseteq {"led", "button"}
    BY <1>1 DEF SnapshotInv, PipelineTypeOK, VirtualDevices
  <2>2. "button" \in recorded /\ "button" \notin thread[t].known
    BY <1>3, <2>1
  <2>3. t # "interactive" /\ raised = {}
    BY <1>1, <2>2 DEF SnapshotInv
  <2>4. raised' = {Num(t)}
    BY <1>3, <2>3
  <2>5. \A u \in Threads : u = t \/ u = "interactive"
    BY <2>3 DEF Threads
  <2>6. \A u \in Threads : /\ Copies(u)' => u # t /\ Copies(u) /\ thread'[u] = thread[u]
                           /\ thread'[u].step = "routed" => thread'[u] = thread[u]
    BY <1>1 DEF Copies
  <2>7. \A u \in Threads : Copies(u)' => "button" \in thread'[u].known
    BY <2>2, <2>5, <2>6 DEF SnapshotInv
  <2>8. Copies("interactive")' => "button" \in thread'["interactive"].known
    BY <2>7 DEF Threads
  <2>9. \A u \in Threads :
          /\ thread'[u].step = "routed" /\ thread'[u].event.type = "STATE_UPDATE"
               /\ Num(u)' \in DOMAIN answers => "led" \in recorded
          /\ Copies(u)' => "led" \in thread'[u].known /\ thread'[u].known \subseteq recorded
    BY <2>6 DEF SnapshotInv, Num
  <2> QED
    BY <1>1, <1>3, <2>2, <2>4, <2>7, <2>8, <2>9 DEF SnapshotInv
<1> QED
  BY <1>2, <1>3 DEF Acknowledge, Num

LEMMA SnapshotStep ==
  ASSUME PipelineTypeOK, PlacesInv, AnswersInv, SnapshotInv, [PipelineNext]_pipelineVars
  PROVE  SnapshotInv'
<1>1. CASE BoardStep \/ UNCHANGED pipelineVars
  <2>1. UNCHANGED <<thread, recorded, answers, raised>>
    BY <1>1 DEF BoardStep, pipelineVars, history
  <2> QED
    BY <2>1 DEF SnapshotInv, Copies, Num
<1>2. CASE HandleMessage
  <2>1. /\ thread'["communication"].step = "made" /\ "communication" \in Threads
        /\ \A u \in Threads \ {"communication"} : thread'[u] = thread[u]
        /\ UNCHANGED <<recorded, raised>>
    BY <1>2 DEF HandleMessage, Make, Threads, PipelineTypeOK
  <2>2. DOMAIN answers' \cap Numbers = DOMAIN answers
    BY <1>2, HandleMessageKeepsAnswers
  <2> QED
    BY <2>1, <2>2, ElsewhereKeepsSnapshots
<1>3. CASE PressOrRelease
  <2>1. /\ thread'["interactive"].step = "made" /\ "interactive" \in Threads
        /\ \A u \in Threads \ {"interactive"} : thread'[u] = thread[u]
    BY <1>3 DEF PressOrRelease, Make, Threads, PipelineTypeOK
  <2>2. UNCHANGED <<answers, raised>> /\ recorded' = recorded \cup {"button"}
    BY <1>3 DEF PressOrRelease, history
  <2>3. \A u \in Threads : /\ Copies(u)' => u # "interactive" /\ Copies(u) /\ thread'[u] = thread[u]
                           /\ thread'[u].step = "routed" => thread'[u] = thread[u]
    BY <2>1 DEF Copies
  <2> QED
    BY <2>1, <2>2, <2>3 DEF SnapshotInv, Num
<1>4. ASSUME NEW t \in Threads, ThreadStep(t) PROVE SnapshotInv'
  <2>1. CASE AddEvent(t) \/ GetEvent(t)
    <3>1. /\ thread'[t].step \in {"added", "idle", "taken"} /\ \A u \in Threads \ {t} : thread'[u] = thread[u]
          /\ UNCHANGED <<recorded, raised, answers>>
      BY <2>1 DEF AddEvent, GetEvent, history, Resting, PipelineTypeOK
    <3> QED
      BY <3>1, ElsewhereKeepsSnapshots DEF PipelineTypeOK
  <2>2. CASE Archive(t)
    <3>1. thread'[t].step = "archived" /\ \A u \in Threads \ {t} : thread'[u] = thread[u]
      BY <2>2, PublishingStages
    <3>2. UNCHANGED <<recorded, raised, answers>>
      BY <2>2 DEF Archive, history
    <3> QED
      BY <3>1, <3>2, ElsewhereKeepsSnapshots DEF PipelineTypeOK
  <2>3. CASE Protocol(t)
    <3>1. /\ thread'[t].step = "idle" /\ \A u \in Threads \ {t} : thread'[u] = thread[u]
          /\ UNCHANGED <<recorded, raised, eventQueue>> /\ Has(t) /\ Done(t)
      BY <2>3 DEF Protocol, Done, Resting, Has, PipelineTypeOK
    <3>2. \/ \E type : Answer(thread[t].event, type)
          \/ Num(t) \notin DOMAIN answers /\ UNCHANGED answers
      BY <2>3 DEF Protocol, HandleHeartbeat, Num
    <3>3. DOMAIN answers' = DOMAIN answers
      BY <3>1, <3>2, AnswerKeepsAnswers
    <3>4. DOMAIN answers' \cap Numbers = DOMAIN answers
      BY <3>3 DEF PipelineTypeOK
    <3> QED
      BY <3>1, <3>4, ElsewhereKeepsSnapshots
  <2> QED
    BY <1>4, <2>1, <2>2, <2>3, RouteKeepsSnapshots, CopyStatesKeepsSnapshots, AcknowledgeKeepsSnapshots
    DEF ThreadStep
<1> QED
  BY <1>1, <1>2, <1>3, <1>4 DEF PipelineNext

-----------------------------------------------------------------------------
LEMMA AnswersHold == PipelineSpec => [](PipelineTypeOK /\ PlacesInv /\ AnswersInv /\ SnapshotInv)
<1>1. PipelineInit => PipelineTypeOK /\ PlacesInv /\ AnswersInv /\ SnapshotInv
  BY TypeInit, PlacesInit, AnswersInit
<1>2. PipelineTypeOK /\ PlacesInv /\ AnswersInv /\ SnapshotInv /\ [PipelineNext]_pipelineVars
        => (PipelineTypeOK /\ PlacesInv /\ AnswersInv /\ SnapshotInv)'
  BY TypeStep, PlacesStep, AnswersStep, SnapshotStep
<1> QED
  BY <1>1, <1>2, PTL DEF PipelineSpec

\* While the threads rest nothing is under way: they left the queue empty.
LEMMA RestingLeavesNothing ==
  ASSUME PipelineTypeOK, PlacesInv, AllIdle
  PROVE  Present = {}
<1>1. \A t \in Threads : thread[t].step = "idle"
  BY DEF AllIdle, Resting
<1>2. Len(eventQueue) = 0
  BY <1>1 DEF PlacesInv, QueueIsOwed, Added, Threads
<1>3. DOMAIN eventQueue = {}
  BY <1>2 DEF PipelineTypeOK
<1> QED
  BY <1>1, <1>3 DEF Present, Has

\* Whichever thread publishes it, each message that asks for an answer gets
\* one and no second, but for the one state update whose snapshot raised.
THEOREM EachIsAnsweredOnce == PipelineSpec => []AnsweredOnce
<1>1. ASSUME PipelineTypeOK, PlacesInv, AnswersInv, SnapshotInv PROVE AnsweredOnce
  <2>1. \A i \in DOMAIN answers : answers[i] <= 1
    BY <1>1 DEF AnswersInv
  <2>2. AllIdle => \A i \in DOMAIN answers : answers[i] = 1 \/ i \in raised
    BY <1>1, RestingLeavesNothing DEF AnswersInv
  <2>3. Cardinality(raised) <= Cardinality(recorded \ {"led"})
    <3>1. IsFiniteSet(recorded \ {"led"}) /\ Cardinality(recorded \ {"led"}) \in Nat
      <4>1. IsFiniteSet({"button"}) /\ recorded \ {"led"} \subseteq {"button"}
        BY <1>1, FS_Singleton DEF PipelineTypeOK, VirtualDevices
      <4> QED
        BY <4>1, FS_Subset, FS_CardinalityType
    <3>2. CASE raised = {}
      BY <3>1, <3>2, FS_EmptySet
    <3>3. CASE raised # {}
      <4>1. PICK i : raised = {i}
        BY <1>1, <3>3 DEF SnapshotInv
      <4>2. recorded \ {"led"} = {"button"}
        BY <1>1, <3>3 DEF SnapshotInv, PipelineTypeOK, VirtualDevices
      <4> QED
        BY <4>1, <4>2, FS_Singleton
    <3> QED
      BY <3>2, <3>3
  <2> QED
    BY <2>1, <2>2, <2>3 DEF AnsweredOnce
<1>2. PipelineTypeOK /\ PlacesInv /\ AnswersInv /\ SnapshotInv => AnsweredOnce
  BY <1>1
<1> QED
  BY <1>2, AnswersHold, PTL

-----------------------------------------------------------------------------
(* LEDs: the invariant                                                     *)

\* The router has had the event of t; the events it has still to get.
Routed(t) == thread[t].step \in {"routed", "copying"}
Unrouted == {e \in Present : \A t \in Threads : Routed(t) => thread[t].event # e}

\* Those for target d that are newer than what its router got, and what the
\* newest of them says.
Ahead(d) == {e \in Unrouted : e.target = d /\ e.number > newest[d]}
LatestSays(d, state) ==
    \A e \in Ahead(d) : (\A f \in Ahead(d) : f.number <= e.number) => e.state = state

\* The state updates on a line, and what the last of them says.
Updates(s) == {k \in DOMAIN s : s[k].type = "STATE_UPDATE"}
LastSays(s, state) == \A k \in Updates(s) : (\A l \in Updates(s) : l <= k) => s[k].state = state

\* The button's state is the last on the line; when none is on the line, it is
\* that of the newest event, and when none is ahead, of the LED.
LedFollows ==
    /\ LastSays(toEngine, boardButton)
    /\ Updates(toEngine) = {} =>
         /\ LatestSays("led", boardButton)
         /\ Ahead("led") = {} /\ ~overtaken => led = boardButton

\* The other way round, where the line comes after the router.
BoardFollows ==
    /\ LatestSays("board", button)
    /\ Ahead("board") = {} /\ ~overtaken /\ ~dropped =>
         /\ LastSays(toBoard, button)
         /\ Updates(toBoard) = {} => boardLed = button

\* Only state updates go to an LED, and the router gets each once.
RoutedInOrder ==
    /\ \A d \in {"led", "board"} : newest[d] <= created
    /\ \A e \in Unrouted : e.target \in {"led", "board"} =>
         e.type = "STATE_UPDATE" /\ e.number # newest[e.target]

FollowInv == RoutedInOrder /\ LedFollows /\ BoardFollows

\* A line gets one more.
LEMMA UpdatesAppended ==
  ASSUME NEW S, NEW s \in Seq(S), NEW m \in S
  PROVE  /\ m.type # "STATE_UPDATE" =>
              /\ Updates(Append(s, m)) = {} <=> Updates(s) = {}
              /\ \A v : LastSays(s, v) => LastSays(Append(s, m), v)
         /\ m.type = "STATE_UPDATE" =>
              Updates(Append(s, m)) # {} /\ LastSays(Append(s, m), m.state)
<1> DEFINE n == Len(s) + 1
           a == Append(s, m)
<1>1. /\ Len(s) \in Nat /\ DOMAIN s = 1 .. Len(s) /\ DOMAIN a = 1 .. n
      /\ a[n] = m /\ \A k \in DOMAIN s : a[k] = s[k]
  BY Appended
<1> HIDE DEF a
<1>2. CASE m.type # "STATE_UPDATE"
  <2>1. \A k : k \in Updates(a) <=> k \in Updates(s)
    BY <1>1, <1>2 DEF Updates
  <2>2. Updates(a) = Updates(s) /\ \A k \in Updates(s) : a[k] = s[k]
    BY <1>1, <2>1 DEF Updates
  <2> QED
    BY <1>2, <2>2 DEF LastSays, a
<1>3. CASE m.type = "STATE_UPDATE"
  <2>1. n \in Updates(a)
    BY <1>1, <1>3 DEF Updates
  <2>2. \A k \in Updates(a) : n <= k => k = n
    BY <1>1 DEF Updates
  <2>3. LastSays(a, m.state)
    BY <1>1, <2>1, <2>2 DEF LastSays
  <2> QED
    BY <1>3, <2>1, <2>3 DEF a
<1> QED
  BY <1>2, <1>3

\* The first of a line is read.
LEMMA UpdatesRead ==
  ASSUME NEW S, NEW s \in Seq(S), s # <<>>
  PROVE  /\ \A v : LastSays(s, v) => LastSays(Tail(s), v)
         /\ Updates(Tail(s)) = {} =>
              /\ Head(s).type # "STATE_UPDATE" => Updates(s) = {}
              /\ Head(s).type = "STATE_UPDATE" => \A v : LastSays(s, v) => Head(s).state = v
<1> DEFINE q == Tail(s)
<1>1. /\ Len(s) \in Nat \ {0} /\ DOMAIN s = 1 .. Len(s) /\ DOMAIN q = 1 .. Len(s) - 1
      /\ Head(s) = s[1]
      /\ \A k \in DOMAIN q : q[k] = s[k + 1]
  BY Taken
<1> HIDE DEF q
<1>2. /\ \A k \in Updates(q) : k \in Nat /\ k + 1 \in Updates(s) /\ q[k] = s[k + 1]
      /\ \A k \in Updates(s) : k \in Nat /\ (k = 1 \/ k - 1 \in Updates(q))
  BY <1>1 DEF Updates
<1>3. \A v : LastSays(s, v) => LastSays(q, v)
  <2> SUFFICES ASSUME NEW v, LastSays(s, v), NEW k \in Updates(q), \A l \in Updates(q) : l <= k
               PROVE  q[k].state = v
    BY DEF LastSays
  <2>1. \A l \in Updates(s) : l <= k + 1
    BY <1>2
  <2> QED
    BY <1>2, <2>1 DEF LastSays
<1>4. ASSUME Updates(q) = {}
      PROVE  /\ s[1].type # "STATE_UPDATE" => Updates(s) = {}
             /\ s[1].type = "STATE_UPDATE" => \A v : LastSays(s, v) => s[1].state = v
  <2>1. \A k \in Updates(s) : k = 1 /\ s[1].type = "STATE_UPDATE"
    BY <1>2, <1>4 DEF Updates
  <2>2. s[1].type = "STATE_UPDATE" => 1 \in Updates(s)
    BY <1>1 DEF Updates
  <2> QED
    BY <2>1, <2>2 DEF LastSays
<1> QED
  BY <1>1, <1>3, <1>4 DEF q

-----------------------------------------------------------------------------
(* LEDs: what a step does to the events that the router has still to get   *)

LEMMA UnroutedStays ==
  ASSUME Present' = Present,
         \A t \in Threads : (Routed(t)' <=> Routed(t)) /\ (Routed(t) => thread'[t].event = thread[t].event)
  PROVE  Unrouted' = Unrouted
  BY DEF Unrouted

\* An event that is under way twice is in one place.
LEMMA PresentOnce ==
  ASSUME PlacesInv, NEW t \in Threads, Has(t), NEW f \in Present, f.number = Num(t)
  PROVE  f = thread[t].event
<1>1. CASE \E u \in Threads : Has(u) /\ thread[u].event = f
  BY <1>1 DEF PlacesInv, OnePlace, Num
<1>2. CASE \E k \in DOMAIN eventQueue : eventQueue[k] = f
  BY <1>2 DEF PlacesInv, OnePlace, Num
<1> QED
  BY <1>1, <1>2, IsPresent

LEMMA MakeAddsUnrouted ==
  ASSUME PipelineTypeOK, NEW t \in Threads, thread[t] = Resting,
         NEW e, e.number = created + 1, Make(t, e), eventQueue' = eventQueue
  PROVE  /\ Unrouted' = Unrouted \cup {e}
         /\ \A f \in Unrouted : f.number < e.number
<1>1. Present' = Present \cup {e}
  BY MakeAddsPresent
<1>2. \A f \in Present : f.number \in Numbers
  BY PresentNumbers
<1>3. created \in Nat /\ \A f \in Present : f.number < e.number
  BY <1>2 DEF PipelineTypeOK, Numbers
<1>4. /\ thread'[t] = [step |-> "made", event |-> e]
      /\ \A u \in Threads \ {t} : thread'[u] = thread[u]
  BY DEF Make, PipelineTypeOK
<1>5. ~Routed(t) /\ ~Routed(t)' /\ \A u \in Threads \ {t} : Routed(u)' <=> Routed(u)
  BY <1>4 DEF Routed, Resting
<1>6. \A u \in Threads : Routed(u) => thread[u].event \in Present
  BY DEF Routed, Has, Present
<1>7. \A u \in Threads : Routed(u) => thread[u].event # e
  BY <1>2, <1>3, <1>6 DEF Numbers
<1>8. \A f : f \in Unrouted' <=> f \in Unrouted \/ f = e
  BY <1>1, <1>4, <1>5, <1>7 DEF Unrouted
<1> QED
  BY <1>3, <1>8 DEF Unrouted

LEMMA RouteTakesUnrouted ==
  ASSUME PipelineTypeOK, PlacesInv, NEW t \in Threads, Route(t)
  PROVE  /\ thread[t].event \in Unrouted
         /\ Unrouted' = Unrouted \ {thread[t].event}
         /\ \A f \in Unrouted' : f.number # Num(t)
<1>1. /\ Has(t) /\ Has(t)' /\ thread'[t].event = thread[t].event /\ thread'[t].step = "routed"
      /\ \A u \in Threads \ {t} : thread'[u] = thread[u]
  BY PublishingStages
<1>2. Present' = Present
  BY <1>1, PublishingKeepsPresent DEF Route
<1>3. ~Routed(t) /\ Routed(t)' /\ \A u \in Threads \ {t} : Routed(u)' <=> Routed(u)
  BY <1>1 DEF Routed, Route
<1>4. \A u \in Threads : Routed(u) => thread[u].event # thread[t].event
  BY <1>1, <1>3 DEF PlacesInv, OnePlace, Num, Routed, Has
<1>5. thread[t].event \in Unrouted
  BY <1>1, <1>4 DEF Unrouted, Present
<1>6. \A f : f \in Unrouted' <=> f \in Unrouted /\ f # thread[t].event
  BY <1>1, <1>2, <1>3 DEF Unrouted
<1>7. \A f \in Present : f.number = Num(t) => f = thread[t].event
  BY <1>1, PresentOnce
<1> QED
  BY <1>5, <1>6, <1>7 DEF Unrouted

LEMMA DoneKeepsUnrouted ==
  ASSUME PipelineTypeOK, PlacesInv, NEW t \in Threads, Routed(t), Done(t), eventQueue' = eventQueue
  PROVE  Unrouted' = Unrouted
<1>1. /\ Present = Present' \cup {thread[t].event}
      /\ \A e \in Present' : e.number # Num(t)
  BY DoneDropsPresent DEF Routed, Has
<1>2. thread'[t] = Resting /\ \A u \in Threads \ {t} : thread'[u] = thread[u]
  BY DEF Done, PipelineTypeOK
<1>3. ~Routed(t)' /\ \A u \in Threads \ {t} : Routed(u)' <=> Routed(u)
  BY <1>2 DEF Routed, Resting
<1>4. \A f : f \in Unrouted' <=> f \in Unrouted
  BY <1>1, <1>2, <1>3 DEF Unrouted, Num
<1> QED
  BY <1>4

\* Every other step of a thread leaves them alone, and what they are compared with.
LEMMA OtherStepsKeepUnrouted ==
  ASSUME PipelineTypeOK, PlacesInv, NEW t \in Threads, ThreadStep(t), ~Route(t)
  PROVE  Unrouted' = Unrouted /\ UNCHANGED <<led, button, newest, overtaken, dropped, created>>
<1>1. CASE AddEvent(t) \/ GetEvent(t)
  <2>1. Present' = Present
    BY <1>1, AddKeepsPresent, GetKeepsPresent
  <2>2. thread[t].step \in {"made", "added"} /\ \A u \in Threads \ {t} : thread'[u] = thread[u]
    BY <1>1 DEF AddEvent, GetEvent, PipelineTypeOK
  <2>3. thread'[t].step \in {"added", "idle", "taken"}
    BY <1>1 DEF AddEvent, GetEvent, PipelineTypeOK, Resting
  <2>4. Unrouted' = Unrouted
    BY <2>1, <2>2, <2>3, UnroutedStays DEF Routed
  <2> QED
    BY <1>1, <2>4 DEF AddEvent, GetEvent, history
<1>2. CASE Archive(t) \/ CopyStates(t)
  <2>1. /\ Has(t) /\ Has(t)' /\ thread'[t].event = thread[t].event
        /\ \A u \in Threads \ {t} : thread'[u] = thread[u]
        /\ thread'[t].step = "archived" \/ ~Archive(t)
        /\ CopyStates(t) => thread'[t] = [step |-> "copying", event |-> thread[t].event, known |-> recorded]
    BY <1>2, PublishingStages
  <2>2. Present' = Present
    BY <1>2, <2>1, PublishingKeepsPresent DEF Archive, CopyStates
  <2>3. Routed(t)' <=> Routed(t)
    BY <1>2, <2>1 DEF Routed, Archive, CopyStates
  <2>4. Unrouted' = Unrouted
    BY <2>1, <2>2, <2>3, UnroutedStays DEF Routed
  <2> QED
    BY <1>2, <2>4 DEF Archive, CopyStates, history
<1>3. CASE Protocol(t) \/ Acknowledge(t)
  <2>1. Unrouted' = Unrouted
    BY <1>3, DoneKeepsUnrouted DEF Protocol, Acknowledge, Routed
  <2> QED
    BY <1>3, <2>1 DEF Protocol, Acknowledge
<1> QED
  BY <1>1, <1>2, <1>3 DEF ThreadStep

\* A new event for d is ahead of the others, and one for another target of none.
LEMMA MakeComesAhead ==
  ASSUME PipelineTypeOK, RoutedInOrder, NEW t \in Threads, thread[t] = Resting,
         NEW type, NEW target, NEW state, Make(t, Event(type, target, state)),
         target \in {"led", "board"} => type = "STATE_UPDATE",
         eventQueue' = eventQueue, newest' = newest
  PROVE  /\ RoutedInOrder'
         /\ \A d \in {"led", "board"} :
              /\ d # target => Ahead(d)' = Ahead(d)
              /\ d = target => LatestSays(d, state)' /\ Ahead(d)' # {}
<1> DEFINE e == Event(type, target, state)
<1>1. /\ e.number = created + 1 /\ e.type = type /\ e.target = target /\ e.state = state
      /\ Make(t, e) /\ created' = created + 1 /\ created \in Nat
      /\ \A d \in {"led", "board"} : newest[d] \in Nat /\ newest[d] <= created
  BY DEF Event, Make, PipelineTypeOK, RoutedInOrder
<1> HIDE DEF e
<1>2. Unrouted' = Unrouted \cup {e} /\ \A f \in Unrouted : f.number < e.number
  BY <1>1, MakeAddsUnrouted
<1>3. RoutedInOrder'
  BY <1>1, <1>2 DEF RoutedInOrder
<1>4. ASSUME NEW d \in {"led", "board"}, d # target PROVE Ahead(d)' = Ahead(d)
  BY <1>1, <1>2, <1>4 DEF Ahead
<1>5. ASSUME NEW d \in {"led", "board"}, d = target PROVE LatestSays(d, state)' /\ Ahead(d)' # {}
  <2>1. e \in Ahead(d)'
    BY <1>1, <1>2, <1>5 DEF Ahead
  <2>2. \A f \in Ahead(d)' : f = e \/ f.number < e.number
    BY <1>2 DEF Ahead
  <2>3. \A f \in Ahead(d)' : e.number <= f.number => f = e
    BY <1>1, <1>2, <2>2, PresentNumbers DEF Ahead, Unrouted, Numbers
  <2> QED
    BY <1>1, <2>1, <2>3 DEF LatestSays
<1> QED
  BY <1>3, <1>4, <1>5

\* Routing keeps what the newest says; if it was the newest, it says so to d.
LEMMA RouteFromAhead ==
  ASSUME PipelineTypeOK, PlacesInv, RoutedInOrder, NEW t \in Threads, Route(t)
  PROVE  /\ RoutedInOrder'
         /\ \A d \in {"led", "board"} :
              /\ d # thread[t].event.target => Ahead(d)' = Ahead(d)
              /\ \A v : LatestSays(d, v) => LatestSays(d, v)'
              /\ \A v : (/\ d = thread[t].event.target /\ LatestSays(d, v)
                         /\ Ahead(d)' = {} /\ ~overtaken') => thread[t].event.state = v
<1> DEFINE e == thread[t].event
<1>1. e \in Unrouted /\ Unrouted' = Unrouted \ {e} /\ \A f \in Unrouted' : f.number # e.number
  BY RouteTakesUnrouted DEF Num
<1>2. \A f \in Unrouted : f.number \in Nat /\ f.number <= created
  BY PresentNumbers DEF Unrouted, Numbers, PipelineTypeOK
<1>3. /\ e.type = "STATE_UPDATE" => e.target \in {"led", "board"}
      /\ e.target \in {"led", "board"} => e.type = "STATE_UPDATE"
  BY <1>1 DEF Route, RoutedInOrder
<1>4. created' = created /\ \A d \in {"led", "board"} : newest[d] \in Nat
  BY DEF Route, PipelineTypeOK
<1>5. \A d \in {"led", "board"} :
        newest'[d] = IF d = e.target /\ newest[d] <= e.number THEN e.number ELSE newest[d]
  BY <1>2, <1>1, <1>3, <1>4 DEF Route, PipelineTypeOK
<1>6. e.target \in {"led", "board"} => overtaken' = (overtaken \/ newest[e.target] > e.number)
  BY <1>3 DEF Route
<1> HIDE DEF e
<1>7. RoutedInOrder'
  BY <1>1, <1>2, <1>4, <1>5 DEF RoutedInOrder
<1>8. ASSUME NEW d \in {"led", "board"}, d # e.target PROVE Ahead(d)' = Ahead(d)
  BY <1>1, <1>5, <1>8 DEF Ahead
<1>9. ASSUME NEW d \in {"led", "board"}, NEW f \in Unrouted
      PROVE  f \in Ahead(d)' <=> /\ f \in Ahead(d) /\ f # e
                                 /\ (d = e.target /\ newest[d] <= e.number) => f.number > e.number
  <2>1. /\ f \in Unrouted' <=> f # e
        /\ f.number \in Nat /\ e.number \in Nat /\ newest[d] \in Nat
    BY <1>1, <1>2, <1>4
  <2>2. CASE d = e.target /\ newest[d] <= e.number
    BY <1>5, <2>1, <2>2 DEF Ahead
  <2>3. CASE ~(d = e.target /\ newest[d] <= e.number)
    BY <1>5, <2>1, <2>3 DEF Ahead
  <2> QED
    BY <2>2, <2>3
<1>u. \A d : Ahead(d) \subseteq Unrouted /\ Ahead(d)' \subseteq Unrouted
  BY <1>1 DEF Ahead
<1>10. ASSUME NEW d \in {"led", "board"}, NEW v, LatestSays(d, v) PROVE LatestSays(d, v)'
  <2> SUFFICES ASSUME NEW f \in Ahead(d)', \A g \in Ahead(d)' : g.number <= f.number
               PROVE  f.state = v
    BY DEF LatestSays
  <2>1. f \in Ahead(d) /\ f # e /\ f.number \in Nat
    BY <1>2, <1>9, <1>u
  <2>2. ASSUME NEW g \in Ahead(d) PROVE g.number <= f.number
    <3>1. g.number \in Nat /\ e.number \in Nat
      BY <1>1, <1>2 DEF Ahead
    <3>2. CASE g \in Ahead(d)'
      BY <3>2
    <3>3. CASE g = e
      <4>1. e.target = d /\ newest[d] < e.number
        BY <3>3, <2>2, <1>4, <3>1 DEF Ahead
      <4>2. f.number > e.number
        BY <4>1, <1>9, <1>u, <1>4, <3>1
      <4> QED
        BY <4>2, <3>3, <3>1, <2>1
    <3>4. CASE g # e /\ g \notin Ahead(d)'
      <4>1. d = e.target /\ newest[d] <= e.number /\ g.number <= e.number
        BY <3>1, <3>4, <2>2, <1>9, <1>u
      <4>2. f.number > e.number
        BY <4>1, <1>9, <1>u
      <4> QED
        BY <4>1, <4>2, <3>1, <2>1
    <3> QED
      BY <3>2, <3>3, <3>4
  <2> QED
    BY <2>1, <2>2, <1>10 DEF LatestSays
<1>11. ASSUME NEW d \in {"led", "board"}, NEW v, d = e.target, LatestSays(d, v),
              Ahead(d)' = {}, ~overtaken'
       PROVE  e.state = v
  <2>1. newest[d] < e.number
    <3>1. e.number # newest[d]
      BY <1>1, <1>11 DEF RoutedInOrder
    <3>2. ~(newest[d] > e.number)
      BY <1>6, <1>11
    <3>3. e.number \in Nat /\ newest[d] \in Nat
      BY <1>1, <1>2, <1>4
    <3> QED
      BY <3>1, <3>2, <3>3
  <2>2. e \in Ahead(d)
    BY <1>1, <1>11, <2>1 DEF Ahead
  <2>3. \A f \in Ahead(d) : f.number <= e.number
    BY <1>1, <1>2, <1>4, <1>9, <1>u, <1>11, <2>1
  <2> QED
    BY <2>2, <2>3, <1>11 DEF LatestSays
<1> QED
  BY <1>7, <1>8, <1>10, <1>11 DEF e

-----------------------------------------------------------------------------
(* LEDs: the steps                                                         *)

LEMMA FollowInit == PipelineInit => FollowInv
<1> SUFFICES ASSUME PipelineInit PROVE FollowInv
  OBVIOUS
<1>1. Unrouted = {}
  BY DEF PipelineInit, Resting, Unrouted, Present, Has
<1>2. \A d : Ahead(d) = {}
  BY <1>1 DEF Ahead
<1>3. toEngine = <<Line("HELLO", "OFF")>> /\ toBoard = <<>>
  BY DEF PipelineInit
<1>4. Updates(toEngine) = {} /\ Updates(toBoard) = {}
  BY <1>3 DEF Updates, Line
<1> QED
  BY <1>1, <1>2, <1>4
  DEF PipelineInit, FollowInv, RoutedInOrder, LedFollows, BoardFollows, LatestSays, LastSays

\* What the board says.
LEMMA BoardKeepsFollowing ==
  ASSUME PipelineTypeOK, FollowInv, BoardStep
  PROVE  FollowInv'
<1>1. UNCHANGED <<created, eventQueue, thread, led, button, newest, overtaken, dropped>>
  BY DEF BoardStep, history
<1>2. Unrouted' = Unrouted
  BY <1>1 DEF Unrouted, Present, Has, Routed
<1>3. RoutedInOrder' /\ \A d : Ahead(d)' = Ahead(d)
  BY <1>1, <1>2 DEF FollowInv, RoutedInOrder, Ahead
<1>4. \A d, v : LatestSays(d, v)' <=> LatestSays(d, v)
  BY <1>3 DEF LatestSays
<1>t. toEngine \in Seq(Lines(BoardSays)) /\ toBoard \in Seq(Lines(EngineSays))
  BY DEF PipelineTypeOK
<1>5. CASE BoardHeartbeat
  <2>1. /\ toEngine' = Append(toEngine, Line("HEARTBEAT", "OFF"))
        /\ UNCHANGED <<toBoard, boardButton, boardLed>>
    BY <1>5 DEF BoardHeartbeat, board
  <2>2. Line("HEARTBEAT", "OFF") \in Lines(BoardSays) /\ Line("HEARTBEAT", "OFF").type # "STATE_UPDATE"
    BY DEF Line, Lines, BoardSays, Switch
  <2>3. /\ Updates(toEngine') = {} <=> Updates(toEngine) = {}
        /\ \A v : LastSays(toEngine, v) => LastSays(toEngine', v)
    BY <1>t, <2>1, <2>2, UpdatesAppended
  <2>4. LedFollows'
    BY <1>1, <1>3, <1>4, <2>1, <2>3 DEF FollowInv, LedFollows
  <2>5. BoardFollows'
    BY <1>1, <1>3, <1>4, <2>1 DEF FollowInv, BoardFollows
  <2> QED
    BY <1>3, <2>4, <2>5 DEF FollowInv
<1>6. CASE BoardButton
  <2>1. /\ toEngine' = Append(toEngine, Line("STATE_UPDATE", boardButton'))
        /\ boardButton' \in Switch
        /\ UNCHANGED <<toBoard, boardLed>>
    BY <1>6, OtherType DEF BoardButton
  <2>2. PICK m : m = Line("STATE_UPDATE", boardButton')
    OBVIOUS
  <2>3. m \in Lines(BoardSays) /\ m.type = "STATE_UPDATE" /\ m.state = boardButton'
    BY <2>1, <2>2 DEF Line, Lines, BoardSays
  <2>4. Updates(toEngine') # {} /\ LastSays(toEngine', boardButton')
    BY <1>t, <2>1, <2>2, <2>3, UpdatesAppended
  <2>5. LedFollows'
    BY <2>4 DEF LedFollows
  <2>6. BoardFollows'
    BY <1>1, <1>3, <1>4, <2>1 DEF FollowInv, BoardFollows
  <2> QED
    BY <1>3, <2>5, <2>6 DEF FollowInv
<1>7. CASE BoardReads
  <2> DEFINE m == Head(toBoard)
  <2>1. /\ toBoard # <<>> /\ toBoard' = Tail(toBoard) /\ boardButton' = boardButton
        /\ m.type = "STATE_UPDATE" => boardLed' = m.state /\ toEngine' = Append(toEngine, Line("ACK", "OFF"))
        /\ m.type # "STATE_UPDATE" => boardLed' = boardLed /\ toEngine' = toEngine
    BY <1>7 DEF BoardReads
  <2>2. /\ \A v : LastSays(toBoard, v) => LastSays(toBoard', v)
        /\ Updates(toBoard') = {} =>
             /\ m.type # "STATE_UPDATE" => Updates(toBoard) = {}
             /\ m.type = "STATE_UPDATE" => \A v : LastSays(toBoard, v) => m.state = v
    BY <1>t, <2>1, UpdatesRead
  <2> HIDE DEF m
  <2>3. PICK ack \in Lines(BoardSays) : ack = Line("ACK", "OFF") /\ ack.type # "STATE_UPDATE"
    <3>1. Line("ACK", "OFF") \in Lines(BoardSays) /\ Line("ACK", "OFF").type # "STATE_UPDATE"
      BY DEF Line, Lines, BoardSays, Switch
    <3> QED
      BY <3>1
  <2>4. /\ Updates(toEngine') = {} <=> Updates(toEngine) = {}
        /\ \A v : LastSays(toEngine, v) => LastSays(toEngine', v)
    <3>1. /\ Updates(Append(toEngine, ack)) = {} <=> Updates(toEngine) = {}
          /\ \A v : LastSays(toEngine, v) => LastSays(Append(toEngine, ack), v)
      BY <1>t, <2>3, UpdatesAppended
    <3> QED
      BY <2>1, <2>3, <3>1
  <2>5. LedFollows'
    BY <1>1, <1>3, <1>4, <2>1, <2>4 DEF FollowInv, LedFollows
  <2>6. BoardFollows'
    BY <1>1, <1>3, <1>4, <2>1, <2>2 DEF FollowInv, BoardFollows
  <2> QED
    BY <1>3, <2>5, <2>6 DEF FollowInv
<1> QED
  BY <1>5, <1>6, <1>7 DEF BoardStep

\* The engine reads a line of the board.
LEMMA HandleMessageKeepsFollowing ==
  ASSUME PipelineTypeOK, FollowInv, HandleMessage
  PROVE  FollowInv'
<1> DEFINE m == Head(toEngine)
           target == IF m.type = "STATE_UPDATE" THEN "led" ELSE "hhip"
<1>1. /\ thread["communication"] = Resting /\ "communication" \in Threads
      /\ Make("communication", Event(m.type, target, m.state))
      /\ toEngine # <<>> /\ toEngine' = Tail(toEngine)
      /\ UNCHANGED <<eventQueue, newest, led, button, overtaken, dropped, toBoard, boardButton, boardLed>>
  BY DEF HandleMessage, Threads, board
<1>2. /\ \A v : LastSays(toEngine, v) => LastSays(toEngine', v)
      /\ Updates(toEngine') = {} =>
           /\ m.type # "STATE_UPDATE" => Updates(toEngine) = {}
           /\ m.type = "STATE_UPDATE" => \A v : LastSays(toEngine, v) => m.state = v
  BY <1>1, UpdatesRead DEF PipelineTypeOK
<1>3. /\ target \in {"led", "board"} => m.type = "STATE_UPDATE"
      /\ target # "board" /\ (target = "led" <=> m.type = "STATE_UPDATE")
  OBVIOUS
<1> HIDE DEF m, target
<1>s. PICK state, type, to : state = m.state /\ type = m.type /\ to = target
  OBVIOUS
<1>4. /\ RoutedInOrder'
      /\ \A d \in {"led", "board"} :
           /\ d # to => Ahead(d)' = Ahead(d)
           /\ d = to => LatestSays(d, state)' /\ Ahead(d)' # {}
  BY <1>1, <1>3, <1>s, MakeComesAhead DEF FollowInv
<1>5. \A d \in {"led", "board"} : \A v : d # to => (LatestSays(d, v)' <=> LatestSays(d, v))
  BY <1>4 DEF LatestSays
<1>6. BoardFollows'
  BY <1>1, <1>3, <1>s, <1>4, <1>5 DEF FollowInv, BoardFollows
<1>7. LedFollows'
  <2>1. CASE target = "led"
    <3>1. LastSays(toEngine', boardButton)
      BY <1>2 DEF FollowInv, LedFollows
    <3>2. Updates(toEngine') = {} => m.state = boardButton
      BY <1>2, <1>3, <2>1 DEF FollowInv, LedFollows
    <3>3. Updates(toEngine') = {} => LatestSays("led", boardButton)'
      BY <1>1, <1>s, <1>4, <2>1, <3>2 DEF LatestSays
    <3> QED
      BY <1>1, <1>s, <1>4, <2>1, <3>1, <3>3 DEF LedFollows
  <2>2. CASE target # "led"
    BY <1>1, <1>2, <1>3, <1>s, <1>4, <1>5, <2>2 DEF FollowInv, LedFollows
  <2> QED
    BY <2>1, <2>2
<1> QED
  BY <1>4, <1>6, <1>7 DEF FollowInv

LEMMA PressKeepsFollowing ==
  ASSUME PipelineTypeOK, FollowInv, PressOrRelease
  PROVE  FollowInv'
<1>1. /\ thread["interactive"] = Resting /\ "interactive" \in Threads
      /\ Make("interactive", Event("STATE_UPDATE", "board", button'))
      /\ UNCHANGED <<eventQueue, newest, led, overtaken, dropped, toBoard, toEngine, boardButton, boardLed>>
  BY DEF PressOrRelease, Emitted, Threads, history, lines, board
<1>2. PICK state : state = button'
  OBVIOUS
<1>3. /\ RoutedInOrder'
      /\ Ahead("led")' = Ahead("led")
      /\ LatestSays("board", state)' /\ Ahead("board")' # {}
  BY <1>1, <1>2, MakeComesAhead DEF FollowInv
<1>4. \A v : LatestSays("led", v)' <=> LatestSays("led", v)
  BY <1>3 DEF LatestSays
<1>5. LedFollows'
  BY <1>1, <1>3, <1>4 DEF FollowInv, LedFollows
<1>6. BoardFollows'
  BY <1>2, <1>3 DEF BoardFollows
<1> QED
  BY <1>3, <1>5, <1>6 DEF FollowInv

LEMMA RouteKeepsFollowing ==
  ASSUME PipelineTypeOK, PlacesInv, FollowInv, NEW t \in Threads, Route(t)
  PROVE  FollowInv'
<1> DEFINE e == thread[t].event
<1>1. /\ RoutedInOrder'
      /\ \A d \in {"led", "board"} :
           /\ d # e.target => Ahead(d)' = Ahead(d)
           /\ \A v : LatestSays(d, v) => LatestSays(d, v)'
           /\ \A v : (/\ d = e.target /\ LatestSays(d, v)
                      /\ Ahead(d)' = {} /\ ~overtaken') => e.state = v
  BY RouteFromAhead DEF FollowInv
<1>2. UNCHANGED <<button, toEngine, boardButton, boardLed>>
  BY DEF Route, board
<1>3. e \in Unrouted /\ e \in Events
  BY RouteTakesUnrouted, PresentNumbers DEF Unrouted
<1>4. e.target \in {"led", "board"} <=> e.type = "STATE_UPDATE"
  BY <1>3 DEF FollowInv, RoutedInOrder, Route
<1>5. ~overtaken' => ~overtaken
  BY DEF Route
<1>6. e.target = "led" => led' = e.state /\ UNCHANGED <<toBoard, dropped>>
  BY <1>4 DEF Route
<1>7. e.target # "led" => led' = led
  BY <1>4 DEF Route
<1>8. e.target = "board" =>
        \/ dropped'
        \/ toBoard' = Append(toBoard, Line("STATE_UPDATE", e.state))
  BY <1>4 DEF Route
<1>9. e.target # "board" => UNCHANGED <<toBoard, dropped>>
  BY <1>4 DEF Route
<1>10. /\ toBoard \in Seq(Lines(EngineSays))
       /\ \E m \in Lines(EngineSays) :
            m = Line("STATE_UPDATE", e.state) /\ m.type = "STATE_UPDATE" /\ m.state = e.state
  <2>1. /\ Line("STATE_UPDATE", e.state) \in Lines(EngineSays)
        /\ Line("STATE_UPDATE", e.state).type = "STATE_UPDATE"
        /\ Line("STATE_UPDATE", e.state).state = e.state
    BY <1>3 DEF Events, EngineSays, Lines, Line
  <2> QED
    BY <2>1 DEF PipelineTypeOK
<1> HIDE DEF e
<1>11. LedFollows'
  <2>1. CASE e.target = "led"
    BY <1>1, <1>2, <1>6, <2>1 DEF FollowInv, LedFollows
  <2>2. CASE e.target # "led"
    BY <1>1, <1>2, <1>5, <1>7, <2>2 DEF FollowInv, LedFollows
  <2> QED
    BY <2>1, <2>2
<1>12. BoardFollows'
  <2>1. CASE e.target = "board" /\ ~dropped'
    <3>1. Updates(toBoard') # {} /\ LastSays(toBoard', e.state)
      <4>1. PICK m \in Lines(EngineSays) :
              m = Line("STATE_UPDATE", e.state) /\ m.type = "STATE_UPDATE" /\ m.state = e.state
        BY <1>10
      <4>2. Updates(Append(toBoard, m)) # {} /\ LastSays(Append(toBoard, m), m.state)
        BY <1>10, <4>1, UpdatesAppended
      <4> QED
        BY <1>8, <2>1, <4>1, <4>2
    <3> QED
      BY <1>1, <1>2, <2>1, <3>1 DEF FollowInv, BoardFollows
  <2>2. CASE e.target = "board" /\ dropped'
    BY <1>1, <1>2, <2>2 DEF FollowInv, BoardFollows
  <2>3. CASE e.target # "board"
    BY <1>1, <1>2, <1>5, <1>9, <2>3 DEF FollowInv, BoardFollows
  <2> QED
    BY <2>1, <2>2, <2>3
<1> QED
  BY <1>1, <1>11, <1>12 DEF FollowInv

\* The engine's answers are no state updates.
LEMMA OtherStepsKeepFollowing ==
  ASSUME PipelineTypeOK, PlacesInv, FollowInv, NEW t \in Threads, ThreadStep(t), ~Route(t)
  PROVE  FollowInv'
<1>1. Unrouted' = Unrouted /\ UNCHANGED <<led, button, newest, overtaken, dropped, created>>
  BY OtherStepsKeepUnrouted
<1>2. UNCHANGED <<toEngine, boardButton, boardLed>>
  BY DEF ThreadStep, AddEvent, GetEvent, Archive, Protocol, CopyStates, Acknowledge, lines, board
<1>3. RoutedInOrder' /\ \A d : Ahead(d)' = Ahead(d)
  BY <1>1 DEF FollowInv, RoutedInOrder, Ahead
<1>4. \A d, v : LatestSays(d, v)' <=> LatestSays(d, v)
  BY <1>3 DEF LatestSays
<1>5. \/ toBoard' = toBoard
      \/ \E type \in {"HELLO_ACK", "ACK", "ERROR"} : toBoard' = Append(toBoard, Line(type, "OFF"))
  BY DEF ThreadStep, AddEvent, GetEvent, Archive, Protocol, CopyStates, Acknowledge, lines,
         HandleHeartbeat, Answer
<1>6. \A type \in {"HELLO_ACK", "ACK", "ERROR"} :
        \E m \in Lines(EngineSays) : m = Line(type, "OFF") /\ m.type # "STATE_UPDATE"
  <2>1. \A type \in {"HELLO_ACK", "ACK", "ERROR"} :
          Line(type, "OFF") \in Lines(EngineSays) /\ Line(type, "OFF").type # "STATE_UPDATE"
    BY DEF Line, Lines, EngineSays, Switch
  <2> QED
    BY <2>1
<1>7. /\ Updates(toBoard') = {} <=> Updates(toBoard) = {}
      /\ \A v : LastSays(toBoard, v) => LastSays(toBoard', v)
  <2>1. CASE toBoard' = toBoard
    BY <2>1
  <2>2. ASSUME NEW m \in Lines(EngineSays), m.type # "STATE_UPDATE", toBoard' = Append(toBoard, m)
        PROVE  /\ Updates(toBoard') = {} <=> Updates(toBoard) = {}
               /\ \A v : LastSays(toBoard, v) => LastSays(toBoard', v)
    <3>1. toBoard \in Seq(Lines(EngineSays))
      BY DEF PipelineTypeOK
    <3>2. /\ Updates(Append(toBoard, m)) = {} <=> Updates(toBoard) = {}
          /\ \A v : LastSays(toBoard, v) => LastSays(Append(toBoard, m), v)
      BY <2>2, <3>1, UpdatesAppended
    <3> QED
      BY <2>2, <3>2
  <2> QED
    BY <1>5, <1>6, <2>1, <2>2
<1>8. LedFollows'
  BY <1>1, <1>2, <1>3, <1>4 DEF FollowInv, LedFollows
<1>9. BoardFollows'
  BY <1>1, <1>2, <1>3, <1>4, <1>7 DEF FollowInv, BoardFollows
<1> QED
  BY <1>3, <1>8, <1>9 DEF FollowInv

LEMMA FollowHolds == PipelineSpec => [](PipelineTypeOK /\ PlacesInv /\ FollowInv)
<1>1. PipelineTypeOK /\ PlacesInv /\ FollowInv /\ [PipelineNext]_pipelineVars => FollowInv'
  <2> SUFFICES ASSUME PipelineTypeOK, PlacesInv, FollowInv, [PipelineNext]_pipelineVars
               PROVE  FollowInv'
    OBVIOUS
  <2>1. CASE UNCHANGED pipelineVars
    BY <2>1 DEF pipelineVars, FollowInv, RoutedInOrder, LedFollows, BoardFollows, LatestSays, Ahead,
                Unrouted, Present, Has, Routed
  <2>2. ASSUME NEW t \in Threads, ThreadStep(t) PROVE FollowInv'
    BY <2>2, RouteKeepsFollowing, OtherStepsKeepFollowing
  <2> QED
    BY <2>1, <2>2, BoardKeepsFollowing, HandleMessageKeepsFollowing, PressKeepsFollowing DEF PipelineNext
<1> QED
  BY <1>1, FollowInit, PlacesHold, PTL DEF PipelineSpec

\* When all is at rest each LED shows the button it is wired to, however the two
\* threads took and routed one another's events, unless one overtook another or
\* the last came before the board was registered: no other way loses a press.
THEOREM ButtonsReachLeds == PipelineSpec => []LedsFollowButtons
<1>1. PipelineTypeOK /\ PlacesInv /\ FollowInv => LedsFollowButtons
  <2> SUFFICES ASSUME PipelineTypeOK, PlacesInv, FollowInv, AllIdle,
                      toBoard = <<>>, toEngine = <<>>, ~overtaken
               PROVE  led = boardButton /\ (~dropped => boardLed = button)
    BY DEF LedsFollowButtons
  <2>1. Present = {}
    BY RestingLeavesNothing
  <2>2. \A d : Ahead(d) = {}
    BY <2>1 DEF Ahead, Unrouted
  <2>3. Updates(toEngine) = {} /\ Updates(toBoard) = {}
    BY DEF Updates
  <2> QED
    BY <2>2, <2>3 DEF FollowInv, LedFollows, BoardFollows
<1> QED
  BY <1>1, FollowHolds, PTL

-----------------------------------------------------------------------------
(* The engine process, which does this and the corrections *)

LEMMA EngineStepIsPipelineStep == [EngineNext]_engineVars => [PipelineNext]_pipelineVars
  BY DEF EngineNext, Controlling, engineVars

LEMMA EngineStepIsControlStep == [EngineNext]_engineVars => [Next]_vars
  BY DEF EngineNext, Controlling, engineVars

\* The engine process runs the event pipeline and, between lines, the
\* correction protocol: what holds of either alone holds of the process.
THEOREM EngineRunsBoth == EngineSpec => PipelineSpec /\ Spec
<1>1. EngineInit => PipelineInit /\ Init
  BY DEF EngineInit
<1> QED
  BY <1>1, EngineStepIsPipelineStep, EngineStepIsControlStep, PTL DEF EngineSpec, PipelineSpec, Spec

\* So the process loses no event, answers each message once and brings each
\* press to its LED.
THEOREM EngineDeliversEvents ==
  EngineSpec => []NothingIsLost /\ []AnsweredOnce /\ []LedsFollowButtons
  BY EngineRunsBoth, NothingIsEverLost, EachIsAnsweredOnce, ButtonsReachLeds, PTL
=============================================================================
