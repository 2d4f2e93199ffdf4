---------------------------- MODULE EventPipeline ----------------------------
(***************************************************************************)
(* The event backbone of the engine process: HHIPEngine with its queue,    *)
(* the bus and the subscribers that change state, a board with a button    *)
(* and an LED on the serial line, and a virtual button and LED.  The       *)
(* communication loop and the interactive thread share the queue: each     *)
(* adds its event and then takes one, which may be the other's.            *)
(*                                                                         *)
(* An event is its number.  Metrics, logs, sequence numbers, and the       *)
(* lifecycle events that registration publishes past the queue are left    *)
(* out, and so is a line that is lost: the protocol has no answer to one.  *)
(***************************************************************************)
EXTENDS Naturals, Sequences, FiniteSets

CONSTANT Scripts   \* bound: how often what may happen

Threads == {"communication", "interactive"}
VirtualDevices == {"led", "button"}

VARIABLES created,     \* events made
          eventQueue,  \* EventQueue: events, the first to take at its head
          thread,      \* thread -> where it is
          archive,     \* events.jsonl: numbers of events
          registered,  \* the board is in the registry
          led, button, \* state of the virtual devices
          recorded,    \* the virtual devices StateManager knows of
          answers,     \* event that asks for an answer -> how many it got
          raised,      \* events whose snapshot raised
          newest,      \* target -> the newest state update that reached its router
          overtaken,   \* one reached it after a newer one
          dropped,     \* the last for the board came before the board was known
          toBoard, toEngine,       \* lines under way
          boardButton, boardLed,   \* the board
          script                   \* what may still happen

pipelineVars == <<created, eventQueue, thread, archive, registered, led, button, recorded, answers,
                  raised, newest, overtaken, dropped, toBoard, toEngine, boardButton, boardLed, script>>
history == <<answers, raised, newest, overtaken, dropped>>
board == <<boardButton, boardLed>>
lines == <<toBoard, toEngine>>

Resting == [step |-> "idle"]
Line(type, state) == [type |-> type, state |-> state]
Other(state) == IF state = "ON" THEN "OFF" ELSE "ON"

-----------------------------------------------------------------------------
PipelineInit ==
    /\ created = 0
    /\ eventQueue = <<>>
    /\ thread = [t \in Threads |-> Resting]
    /\ archive = <<>>
    /\ registered = FALSE
    /\ led = "OFF" /\ button = "OFF"
    /\ recorded = {}
    /\ answers = <<>> /\ raised = {}
    /\ newest = [d \in {"led", "board"} |-> 0] /\ overtaken = FALSE /\ dropped = FALSE
    /\ toBoard = <<>> /\ toEngine = <<Line("HELLO", "OFF")>>
    /\ boardButton = "OFF" /\ boardLed = "OFF"
    /\ script \in Scripts

Play(what) == script[what] > 0 /\ script' = [script EXCEPT ![what] = @ - 1]

(* The board, which said HELLO as it started.                              *)

BoardHeartbeat ==
    /\ Play("heartbeats")
    /\ toEngine' = Append(toEngine, Line("HEARTBEAT", "OFF"))
    /\ UNCHANGED <<toBoard, board>>

\* checkButton, once the button is stable.
BoardButton ==
    /\ Play("boardButton")
    /\ boardButton' = Other(boardButton)
    /\ toEngine' = Append(toEngine, Line("STATE_UPDATE", boardButton'))
    /\ UNCHANGED <<toBoard, boardLed>>

\* handleIncomingLine: a state update is applied and acknowledged, and
\* whatever answers the board's own messages changes nothing.
BoardReads ==
    /\ toBoard # <<>>
    /\ toBoard' = Tail(toBoard)
    /\ LET m == Head(toBoard) IN
       IF m.type = "STATE_UPDATE"
       THEN boardLed' = m.state /\ toEngine' = Append(toEngine, Line("ACK", "OFF"))
       ELSE UNCHANGED <<boardLed, toEngine>>
    /\ UNCHANGED <<boardButton, script>>

BoardStep ==
    /\ BoardHeartbeat \/ BoardButton \/ BoardReads
    /\ UNCHANGED <<created, eventQueue, thread, archive, registered, led, button, recorded, history>>

-----------------------------------------------------------------------------
(* How an event comes about.                                               *)

Event(type, target, state) ==
    [number |-> created + 1, type |-> type, target |-> target, state |-> state]

Make(t, e) ==
    /\ created' = created + 1
    /\ thread' = [thread EXCEPT ![t] = [step |-> "made", event |-> e]]

\* The messages that get an answer.
Asking == {"HELLO", "HEARTBEAT", "STATE_UPDATE"}

\* handle_message, from the loop of run().  The board's button is wired to the virtual LED.
HandleMessage ==
    LET m == Head(toEngine)
        target == IF m.type = "STATE_UPDATE" THEN "led" ELSE "hhip" IN
    /\ toEngine # <<>>
    /\ thread["communication"] = Resting
    /\ toEngine' = Tail(toEngine)
    /\ Make("communication", Event(m.type, target, m.state))
    /\ answers' = [i \in DOMAIN answers \cup (IF m.type \in Asking THEN {created'} ELSE {}) |->
                     IF i = created' THEN 0 ELSE answers[i]]
    /\ UNCHANGED <<eventQueue, archive, registered, led, button, recorded, raised, newest, overtaken,
                   dropped, toBoard, board, script>>

\* Mutant: the event tells the state the button had.
EmittedLate(new) == Event("STATE_UPDATE", "board", Other(new))

\* VirtualButton._emit, by the state that was set.
Emitted(new) == Event("STATE_UPDATE", "board", new)

\* press and release, whichever the button was not: it is set, recorded and published.
PressOrRelease ==
    /\ thread["interactive"] = Resting
    /\ Play("button")
    /\ button' = Other(button)
    /\ recorded' = recorded \cup {"button"}
    /\ Make("interactive", Emitted(button'))
    /\ UNCHANGED <<eventQueue, archive, registered, led, history, lines, board>>

-----------------------------------------------------------------------------
(* What both threads do with it.                                           *)

AddEvent(t) ==
    /\ thread[t].step = "made"
    /\ eventQueue' = Append(eventQueue, thread[t].event)
    /\ thread' = [thread EXCEPT ![t] = [step |-> "added"]]
    /\ UNCHANGED <<created, archive, registered, led, button, recorded, history, lines, board, script>>

\* Mutant: what is taken stays in the queue.
GetEventPeeks(t) ==
    /\ thread[t].step = "added"
    /\ UNCHANGED eventQueue
    /\ thread' = [thread EXCEPT ![t] =
                    IF eventQueue = <<>> THEN Resting ELSE [step |-> "taken", event |-> Head(eventQueue)]]
    /\ UNCHANGED <<created, archive, registered, led, button, recorded, history, lines, board, script>>

\* get_event(block=False): the event of whoever added first, or none.
GetEvent(t) ==
    /\ thread[t].step = "added"
    /\ eventQueue' = IF eventQueue = <<>> THEN eventQueue ELSE Tail(eventQueue)
    /\ thread' = [thread EXCEPT ![t] =
                    IF eventQueue = <<>> THEN Resting ELSE [step |-> "taken", event |-> Head(eventQueue)]]
    /\ UNCHANGED <<created, archive, registered, led, button, recorded, history, lines, board, script>>

(* EventBus.publish: the subscribers one after the other, as they were     *)
(* registered.                                                             *)

To(t, step) == thread' = [thread EXCEPT ![t].step = step]

\* StorageSubscriber.
Archive(t) ==
    /\ thread[t].step = "taken"
    /\ archive' = Append(archive, thread[t].event.number)
    /\ To(t, "archived")
    /\ UNCHANGED <<created, eventQueue, registered, led, button, recorded, history, lines, board, script>>

\* RouterSubscriber: to the LED, which is set and recorded, or over the line
\* to the board if that is registered.
Route(t) ==
    LET e == thread[t].event IN
    /\ thread[t].step = "archived"
    /\ To(t, "routed")
    /\ \/ e.type # "STATE_UPDATE" /\ UNCHANGED <<led, recorded, toBoard, newest, overtaken, dropped>>
       \/ /\ e.type = "STATE_UPDATE"
          /\ newest' = [newest EXCEPT ![e.target] = IF @ > e.number THEN @ ELSE e.number]
          /\ overtaken' = (overtaken \/ newest[e.target] > e.number)
          /\ \/ /\ e.target = "led"
                /\ led' = e.state
                /\ recorded' = recorded \cup {"led"}
                /\ UNCHANGED <<toBoard, dropped>>
             \/ /\ e.target = "board"
                /\ toBoard' = IF registered THEN Append(toBoard, Line("STATE_UPDATE", e.state)) ELSE toBoard
                /\ dropped' = ~registered
                /\ UNCHANGED <<led, recorded>>
    /\ UNCHANGED <<created, eventQueue, archive, registered, button, answers, raised, toEngine, board, script>>

Done(t) == thread' = [thread EXCEPT ![t] = Resting]

Answer(e, type) ==
    /\ toBoard' = Append(toBoard, Line(type, "OFF"))
    /\ answers' = [answers EXCEPT ![e.number] = @ + 1]

\* Mutant: a board that is not known gets no answer.
HandleHeartbeatSilently(e) ==
    IF registered THEN Answer(e, "ACK") ELSE UNCHANGED <<toBoard, answers>>

\* _handle_heartbeat.
HandleHeartbeat(e) == Answer(e, IF registered THEN "ACK" ELSE "ERROR")

\* ProtocolSubscriber with _on_bus_protocol_event, but for a state update from
\* the line; what the board acknowledges and the virtual button says is no
\* business of its handlers.
Protocol(t) ==
    LET e == thread[t].event IN
    /\ thread[t].step = "routed"
    /\ e.number \notin DOMAIN answers \/ e.type # "STATE_UPDATE"
    /\ Done(t)
    /\ \/ e.type = "HELLO" /\ registered' = TRUE /\ Answer(e, "HELLO_ACK")
       \/ e.type = "HEARTBEAT" /\ HandleHeartbeat(e) /\ UNCHANGED registered
       \/ e.number \notin DOMAIN answers /\ UNCHANGED <<registered, toBoard, answers>>
    /\ UNCHANGED <<created, eventQueue, archive, led, button, recorded, raised, newest, overtaken, dropped,
                   toEngine, board, script>>

\* _handle_state_update, which first copies what StateManager has...
CopyStates(t) ==
    LET e == thread[t].event IN
    /\ thread[t].step = "routed"
    /\ e.number \in DOMAIN answers /\ e.type = "STATE_UPDATE"
    /\ thread' = [thread EXCEPT ![t] = [step |-> "copying", event |-> e, known |-> recorded]]
    /\ UNCHANGED <<created, eventQueue, archive, registered, led, button, recorded, history, lines, board, script>>

\* ... and then writes the snapshot and answers.  A device recorded for the
\* first time meanwhile may make the copying raise, and the bus goes on.
Acknowledge(t) ==
    LET e == thread[t].event IN
    /\ thread[t].step = "copying"
    /\ Done(t)
    /\ \/ Answer(e, "ACK") /\ UNCHANGED raised
       \/ /\ recorded # thread[t].known
          /\ raised' = raised \cup {e.number}
          /\ UNCHANGED <<toBoard, answers>>
    /\ UNCHANGED <<created, eventQueue, archive, registered, led, button, recorded, newest, overtaken, dropped,
                   toEngine, board, script>>

ThreadStep(t) ==
    AddEvent(t) \/ GetEvent(t) \/ Archive(t) \/ Route(t) \/ Protocol(t) \/ CopyStates(t) \/ Acknowledge(t)

PipelineNext ==
    \/ BoardStep
    \/ HandleMessage
    \/ PressOrRelease
    \/ \E t \in Threads : ThreadStep(t)

PipelineSpec == PipelineInit /\ [][PipelineNext]_pipelineVars

-----------------------------------------------------------------------------
Numbers == 1 .. created
Switch == {"ON", "OFF"}
BoardSays == {"HELLO", "HEARTBEAT", "STATE_UPDATE", "ACK"}
EngineSays == {"HELLO_ACK", "STATE_UPDATE", "ACK", "ERROR"}
Lines(types) == [type : types, state : Switch]
Events == [number : Numbers, type : BoardSays, target : {"led", "board", "hhip"}, state : Switch]
Stages == {Resting, [step |-> "added"]}
          \cup [step : {"made", "taken", "archived", "routed"}, event : Events]
          \cup [step : {"copying"}, event : Events, known : SUBSET VirtualDevices]

PipelineTypeOK ==
    /\ created \in Nat
    /\ eventQueue \in Seq(Events)
    /\ thread \in [Threads -> Stages]
    /\ archive \in Seq(Numbers)
    /\ registered \in BOOLEAN
    /\ {led, button, boardButton, boardLed} \subseteq Switch
    /\ recorded \subseteq VirtualDevices
    /\ DOMAIN answers \subseteq Numbers /\ \A i \in DOMAIN answers : answers[i] \in Nat
    /\ raised \subseteq Numbers
    /\ newest \in [{"led", "board"} -> Nat]
    /\ overtaken \in BOOLEAN /\ dropped \in BOOLEAN
    /\ toBoard \in Seq(Lines(EngineSays)) /\ toEngine \in Seq(Lines(BoardSays))

AllIdle == \A t \in Threads : thread[t] = Resting

\* Although nobody waits for events and each thread takes just one, and maybe
\* the other's, for the one it adds: no event is lost or published twice.
\* Each is in one thread's hands before or after the queue, in the queue, or
\* archived, and when the threads rest none is left in the queue.
InHand(i) == \E t \in Threads : thread[t].step \in {"made", "taken"} /\ thread[t].event.number = i
Queued(i) == \E k \in DOMAIN eventQueue : eventQueue[k].number = i
Archived(i) == \E k \in DOMAIN archive : archive[k] = i

NothingIsLost ==
    /\ Len(eventQueue) = Cardinality({t \in Threads : thread[t].step = "added"})
    /\ \A i \in Numbers : InHand(i) \/ Queued(i) \/ Archived(i)
    /\ \A k, l \in DOMAIN archive : archive[k] = archive[l] => k = l

\* Each message that asks for an answer gets one, whichever thread publishes
\* it, but for at most one state update: that during which the virtual button
\* was recorded for the first time.
AnsweredOnce ==
    /\ \A i \in DOMAIN answers : answers[i] <= 1
    /\ AllIdle => \A i \in DOMAIN answers : answers[i] = 1 \/ i \in raised
    /\ Cardinality(raised) <= Cardinality(recorded \ {"led"})

\* At rest, with every line read, each LED shows the button it is wired to,
\* unless an update reached the router after a newer one, or the last came
\* before the board was registered.
LedsFollowButtons ==
    AllIdle /\ toBoard = <<>> /\ toEngine = <<>> /\ ~overtaken =>
      /\ led = boardButton
      /\ ~dropped => boardLed = button
=============================================================================
