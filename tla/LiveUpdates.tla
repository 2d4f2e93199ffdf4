----------------------------- MODULE LiveUpdates -----------------------------
(***************************************************************************)
(* The event stream of the dashboard: DashboardEventPublisher, to which    *)
(* any thread may publish, and WebSocketEventBridge, whose connections and *)
(* broadcasts are tasks of the one event loop.  Every connected socket     *)
(* subscribes a callback of its own, and each callback broadcasts to all   *)
(* sockets.  The history has no lock: a publisher that finds it too long   *)
(* reads its end and writes that back, whatever another has done to it     *)
(* meanwhile.  An event is its number.                                     *)
(***************************************************************************)
EXTENDS Integers, Sequences, FiniteSets

CONSTANTS Sockets,     \* WebSocket connections
          Publishers,  \* threads that publish
          Replay,      \* how many events of the history a new socket is sent
          MaxHistory   \* _max_history

ASSUME ReplayAssumption == Replay \in Nat \ {0} /\ MaxHistory \in Nat /\ Replay <= MaxHistory

VARIABLES made,        \* events created
          history,     \* _history
          publishing,  \* publisher -> where it is in publish
          subscribers, \* _subscribers: sockets whose callback is subscribed
          broadcasts,  \* <<event, subscriber>> -> what is left of the broadcast
          socket,      \* socket -> where it is in connect and after
          received,    \* socket -> events sent to it
          torn         \* for the properties: an end of the history was written back
                       \*   that was its end no more

liveVars == <<made, history, publishing, subscribers, broadcasts, socket, received, torn>>

Idle == [step |-> "idle"]
Events == 1 .. made

\* history[-n:]
End(h, n) == IF Len(h) > n THEN SubSeq(h, Len(h) - n + 1, Len(h)) ELSE h

\* history[-20:]
Recent(h) == {h[i] : i \in {j \in 1 .. Len(h) : j > Len(h) - Replay}}

-----------------------------------------------------------------------------
LiveInit ==
    /\ made = 0
    /\ history = <<>>
    /\ publishing = [t \in Publishers |-> Idle]
    /\ subscribers = {}
    /\ broadcasts = <<>>
    /\ socket = [s \in Sockets |-> [step |-> "new"]]
    /\ received = [s \in Sockets |-> {}]
    /\ torn = FALSE

(* publish, in the thread t.                                               *)

\* The event is made and recorded.
Publish(t) ==
    /\ publishing[t] = Idle
    /\ made' = made + 1
    /\ history' = Append(history, made + 1)
    /\ publishing' = [publishing EXCEPT ![t] = [step |-> "looking", event |-> made + 1]]
    /\ UNCHANGED <<subscribers, broadcasts, socket, received, torn>>

\* A history that is too long is cut, in three steps that others may come between.
LookAtLength(t) ==
    /\ publishing[t].step = "looking"
    /\ publishing' = [publishing EXCEPT ![t].step = IF Len(history) > MaxHistory THEN "cutting" ELSE "recorded"]
    /\ UNCHANGED <<made, history, subscribers, broadcasts, socket, received, torn>>

ReadEnd(t) ==
    /\ publishing[t].step = "cutting"
    /\ publishing' = [publishing EXCEPT ![t] =
         [step |-> "writing", event |-> publishing[t].event, end |-> End(history, MaxHistory)]]
    /\ UNCHANGED <<made, history, subscribers, broadcasts, socket, received, torn>>

WriteEnd(t) ==
    /\ publishing[t].step = "writing"
    /\ history' = publishing[t].end
    /\ torn' = (torn \/ publishing[t].end # End(history, MaxHistory))
    /\ publishing' = [publishing EXCEPT ![t] = [step |-> "recorded", event |-> publishing[t].event]]
    /\ UNCHANGED <<made, subscribers, broadcasts, socket, received>>

\* Mutant: what is told is the last of the history, whoever made it.
FanOutLast(t) ==
    LET e == IF history = <<>> THEN publishing[t].event ELSE history[Len(history)]
        new == {e} \X subscribers IN
    /\ publishing[t].step = "recorded"
    /\ broadcasts' = [b \in DOMAIN broadcasts \cup new |->
                        IF b \in new THEN [step |-> "scheduled"] ELSE broadcasts[b]]
    /\ publishing' = [publishing EXCEPT ![t] = Idle]
    /\ UNCHANGED <<made, history, subscribers, socket, received, torn>>

\* Every callback subscribed by now puts a broadcast on the event loop.
FanOut(t) ==
    LET e == publishing[t].event
        new == {e} \X subscribers IN
    /\ publishing[t].step = "recorded"
    /\ broadcasts' = [b \in DOMAIN broadcasts \cup new |->
                        IF b \in new THEN [step |-> "scheduled"] ELSE broadcasts[b]]
    /\ publishing' = [publishing EXCEPT ![t] = Idle]
    /\ UNCHANGED <<made, history, subscribers, socket, received, torn>>

PublisherStep(t) == LookAtLength(t) \/ ReadEnd(t) \/ WriteEnd(t) \/ FanOut(t)

-----------------------------------------------------------------------------
(* Tasks of the event loop.  A socket that has subscribed reads the        *)
(* history before the loop turns to another task.                          *)

LoopIsFree == \A s \in Sockets : socket[s].step # "subscribed"

\* _connections: a socket is there exactly while its callback is subscribed.
connections == subscribers

\* connect, after accept.
Subscribe(s) ==
    /\ LoopIsFree
    /\ socket[s].step = "new"
    /\ socket' = [socket EXCEPT ![s] = [step |-> "subscribed"]]
    /\ subscribers' = subscribers \cup {s}
    /\ UNCHANGED <<made, history, publishing, broadcasts, received, torn>>

ReadHistory(s) ==
    /\ socket[s].step = "subscribed"
    /\ socket' = [socket EXCEPT ![s] = [step |-> "open", replay |-> Recent(history)]]
    /\ UNCHANGED <<made, history, publishing, subscribers, broadcasts, received, torn>>

Open(s) == socket[s].step = "open"

\* One event of the history goes to the socket.
SendReplayed(s) ==
    /\ LoopIsFree
    /\ Open(s)
    /\ \E e \in socket[s].replay :
         /\ received' = [received EXCEPT ![s] = @ \cup {e}]
         /\ socket' = [socket EXCEPT ![s].replay = @ \ {e}]
    /\ UNCHANGED <<made, history, publishing, subscribers, broadcasts, torn>>

\* broadcast begins: it goes to the sockets connected now.
BeginBroadcast(b) ==
    /\ LoopIsFree
    /\ broadcasts[b].step = "scheduled"
    /\ broadcasts' = [broadcasts EXCEPT ![b] = [step |-> "sending", rest |-> connections, dead |-> {}]]
    /\ UNCHANGED <<made, history, publishing, subscribers, socket, received, torn>>

\* Mutant: a socket that raises ends the broadcast for those after it.
SendToAborts(b, s) ==
    /\ LoopIsFree
    /\ broadcasts[b].step = "sending"
    /\ s \in broadcasts[b].rest
    /\ \/ /\ Open(s)
          /\ received' = [received EXCEPT ![s] = @ \cup {b[1]}]
          /\ broadcasts' = [broadcasts EXCEPT ![b].rest = @ \ {s}]
       \/ /\ ~Open(s)
          /\ broadcasts' = [broadcasts EXCEPT ![b].rest = {}, ![b].dead = {s}]
          /\ UNCHANGED received
    /\ UNCHANGED <<made, history, publishing, subscribers, socket, torn>>

\* A socket whose client has gone raises and is remembered.
SendTo(b, s) ==
    /\ LoopIsFree
    /\ broadcasts[b].step = "sending"
    /\ s \in broadcasts[b].rest
    /\ \/ /\ Open(s)
          /\ received' = [received EXCEPT ![s] = @ \cup {b[1]}]
          /\ broadcasts' = [broadcasts EXCEPT ![b].rest = @ \ {s}]
       \/ /\ ~Open(s)
          /\ broadcasts' = [broadcasts EXCEPT ![b].rest = @ \ {s}, ![b].dead = @ \cup {s}]
          /\ UNCHANGED received
    /\ UNCHANGED <<made, history, publishing, subscribers, socket, torn>>

\* The broadcast ends with disconnect for those that raised.
EndBroadcast(b) ==
    /\ LoopIsFree
    /\ broadcasts[b].step = "sending"
    /\ broadcasts[b].rest = {}
    /\ subscribers' = subscribers \ broadcasts[b].dead
    /\ broadcasts' = [c \in DOMAIN broadcasts \ {b} |-> broadcasts[c]]
    /\ UNCHANGED <<made, history, publishing, socket, received, torn>>

\* The client goes.  While the history is being sent this ends connect with
\* an exception that nobody turns into disconnect; later it is handled.
ClientLeaves(s) ==
    /\ LoopIsFree
    /\ Open(s)
    /\ socket' = [socket EXCEPT ![s] = [step |-> "gone"]]
    /\ subscribers' = IF socket[s].replay = {} THEN subscribers \ {s} ELSE subscribers
    /\ UNCHANGED <<made, history, publishing, broadcasts, received, torn>>

BroadcastStep ==
    \E b \in DOMAIN broadcasts :
        BeginBroadcast(b) \/ EndBroadcast(b) \/ \E s \in Sockets : SendTo(b, s)

LoopStep == BroadcastStep \/ \E s \in Sockets : ReadHistory(s) \/ SendReplayed(s)

\* What can happen, whoever publishes.
LiveNext ==
    \/ \E t \in Publishers : Publish(t) \/ PublisherStep(t)
    \/ \E s \in Sockets : Subscribe(s) \/ ClientLeaves(s)
    \/ LoopStep

LiveSpec == LiveInit /\ [][LiveNext]_liveVars

-----------------------------------------------------------------------------
Publication ==
    {Idle} \cup [step : {"looking", "cutting", "recorded"}, event : Events]
           \cup [step : {"writing"}, event : Events, end : Seq(Events)]

Broadcast ==
    {[step |-> "scheduled"]} \cup [step : {"sending"}, rest : SUBSET Sockets, dead : SUBSET Sockets]

SocketState ==
    {[step |-> st] : st \in {"new", "subscribed", "gone"}} \cup [step : {"open"}, replay : SUBSET Events]

LiveTypeOK ==
    /\ made \in Nat
    /\ history \in Seq(Events)
    /\ publishing \in [Publishers -> Publication]
    /\ subscribers \in SUBSET Sockets
    /\ DOMAIN broadcasts \subseteq Events \X Sockets
    /\ \A b \in DOMAIN broadcasts : broadcasts[b] \in Broadcast
    /\ socket \in [Sockets -> SocketState]
    /\ received \in [Sockets -> SUBSET Events]
    /\ torn \in BOOLEAN

\* Publishers that have recorded event e and not yet told the subscribers of it.
Telling(e) == {t \in Publishers : publishing[t] # Idle /\ publishing[t].event = e}

\* Event e is still on its way to socket s.
OnItsWay(e, s) ==
    \/ e \in socket[s].replay
    \/ Telling(e) # {}
    \/ \E b \in DOMAIN broadcasts :
         /\ b[1] = e
         /\ broadcasts[b].step = "scheduled" \/ s \in broadcasts[b].rest

\* No event falls between the history and the live stream: each of the last
\* events of the history has reached every open socket or is on its way there,
\* whenever the socket connected and whatever threads publish and cut the
\* history meanwhile.  It is promised no more once a thread has written back
\* an end of the history that another had added to: what is lost so is sent
\* to no later socket, and what comes back so may miss an open one.
RecentReachesAll ==
    ~torn => \A s \in Sockets : Open(s) =>
               \A e \in Recent(history) : e \in received[s] \/ OnItsWay(e, s)

\* What is on its way to an open socket, from the history or from a thread
\* that publishes, gets there, torn history or not, although other sockets
\* fail in the same broadcast and are disconnected, unless the client leaves.
Arrives(e, s) == (Open(s) /\ OnItsWay(e, s)) ~> (e \in received[s] \/ socket[s].step = "gone")
==============================================================================
