-------------------------- MODULE LiveUpdatesProofs --------------------------
(***************************************************************************)
(* No event falls between the history and the live stream, for any number  *)
(* of sockets, publishing threads and events and whatever lengths of the   *)
(* history are kept and replayed, until two threads cut the history into   *)
(* one another, which takes more events than the history holds and more    *)
(* than one thread; and what discovery shows and registers is in order     *)
(* however its threads come between one another.                           *)
(***************************************************************************)
EXTENDS ApiProcess, TLAPS

(***************************************************************************)
(* The invariant.  An open socket is subscribed, so that whatever thread   *)
(* copies the subscribers from now on finds it; a broadcast remembers as   *)
(* dead only sockets whose client has gone, and goes to none that never    *)
(* connected.                                                              *)
(***************************************************************************)
OpenIsSubscribed ==
    /\ \A s \in Sockets : socket[s].step \in {"subscribed", "open"} => s \in subscribers
    /\ \A s \in subscribers : socket[s].step # "new"

DeadIsGone ==
    \A b \in DOMAIN broadcasts : broadcasts[b].step = "sending" =>
        /\ \A s \in broadcasts[b].rest : socket[s].step # "new"
        /\ \A s \in broadcasts[b].dead : socket[s].step = "gone"

StreamInv == LiveTypeOK /\ OpenIsSubscribed /\ DeadIsGone /\ RecentReachesAll

-----------------------------------------------------------------------------
(* One more event pushes at most old ones out of what is replayed.         *)
LEMMA RecentOfAppend ==
  ASSUME NEW S, NEW h \in Seq(S), NEW e \in S
  PROVE  Recent(Append(h, e)) \subseteq Recent(h) \cup {e}
<1> USE ReplayAssumption
<1> DEFINE g == Append(h, e)
<1>1. Len(g) = Len(h) + 1 /\ Len(h) \in Nat
  OBVIOUS
<1>2. SUFFICES ASSUME NEW j \in 1 .. Len(g), j > Len(g) - Replay
               PROVE  g[j] \in Recent(h) \cup {e}
  BY DEF Recent
<1>3. CASE j = Len(h) + 1
  BY <1>3
<1>4. CASE j # Len(h) + 1
  <2>1. j \in 1 .. Len(h) /\ j > Len(h) - Replay
    BY <1>1, <1>2, <1>4
  <2>2. g[j] = h[j]
    BY <2>1
  <2> QED
    BY <2>1, <2>2 DEF Recent
<1> QED
  BY <1>3, <1>4

\* What is replayed of the end of a history that is kept is what is replayed of it.
LEMMA RecentOfEnd ==
  ASSUME NEW S, NEW h \in Seq(S)
  PROVE  End(h, MaxHistory) \in Seq(S) /\ Recent(End(h, MaxHistory)) \subseteq Recent(h)
<1> USE ReplayAssumption
<1> DEFINE g == End(h, MaxHistory)
           d == Len(h) - MaxHistory
<1>1. CASE Len(h) <= MaxHistory
  BY <1>1 DEF End
<1>2. CASE Len(h) > MaxHistory
  <2>1. g = SubSeq(h, d + 1, Len(h)) /\ d \in Nat /\ Len(h) \in Nat
    BY <1>2 DEF End
  <2>2. g \in Seq(S) /\ Len(g) = MaxHistory /\ \A j \in 1 .. MaxHistory : g[j] = h[j + d]
    BY <1>2, <2>1
  <2> HIDE DEF g
  <2>3. ASSUME NEW j \in 1 .. MaxHistory, j > MaxHistory - Replay
        PROVE  g[j] \in Recent(h)
    <3>1. j + d \in 1 .. Len(h) /\ j + d > Len(h) - Replay
      BY <1>2, <2>1, <2>3
    <3> QED
      BY <2>2, <2>3, <3>1 DEF Recent
  <2> QED
    BY <2>2, <2>3 DEF Recent, g
<1> QED
  BY <1>1, <1>2

LEMMA SeqsOfMore ==
  ASSUME NEW S, NEW T, S \subseteq T
  PROVE  Seq(S) \subseteq Seq(T)
  OBVIOUS

LEMMA RecentIsOf ==
  ASSUME NEW S, NEW h \in Seq(S)
  PROVE  Recent(h) \subseteq S
  BY DEF Recent

-----------------------------------------------------------------------------
LEMMA StreamInit == LiveInit => StreamInv
<1> SUFFICES ASSUME LiveInit PROVE StreamInv
  OBVIOUS
<1>1. DOMAIN broadcasts = {}
  BY DEF LiveInit
<1>2. LiveTypeOK
  <2>1. publishing \in [Publishers -> Publication]
    BY DEF LiveInit, Publication
  <2>2. socket \in [Sockets -> SocketState]
    BY DEF LiveInit, SocketState
  <2>3. history \in Seq(Events) /\ torn \in BOOLEAN
    <3>1. <<>> \in Seq(Events) /\ FALSE \in BOOLEAN
      OBVIOUS
    <3> QED
      BY <3>1 DEF LiveInit
  <2> QED
    BY <1>1, <2>1, <2>2, <2>3 DEF LiveInit, LiveTypeOK
<1>3. OpenIsSubscribed /\ DeadIsGone /\ RecentReachesAll
  BY <1>1 DEF LiveInit, OpenIsSubscribed, DeadIsGone, RecentReachesAll, Open
<1> QED
  BY <1>2, <1>3 DEF StreamInv

-----------------------------------------------------------------------------
(* Publishing.                                                             *)

LEMMA PublishKeeps ==
  ASSUME StreamInv, NEW t \in Publishers, Publish(t)
  PROVE  StreamInv'
<1> USE DEF StreamInv
<1> DEFINE new == made + 1
<1>1. /\ publishing' = [publishing EXCEPT ![t] = [step |-> "looking", event |-> new]]
      /\ publishing[t] = Idle /\ made' = new
      /\ history' = Append(history, new)
      /\ UNCHANGED <<subscribers, broadcasts, socket, received, torn>>
  BY DEF Publish
<1>2. made \in Nat /\ Events \subseteq Events' /\ new \in Events'
  BY <1>1 DEF LiveTypeOK, Events
<1>3. /\ publishing'[t] = [step |-> "looking", event |-> new]
      /\ \A u \in Publishers \ {t} : publishing'[u] = publishing[u]
  BY <1>1 DEF LiveTypeOK
<1>4. LiveTypeOK'
  <2>1. history' \in Seq(Events')
    BY <1>1, <1>2 DEF LiveTypeOK, Events
  <2>2. publishing' \in [Publishers -> Publication']
    BY <1>1, <1>2, <1>3, SeqsOfMore DEF LiveTypeOK, Publication
  <2>3. socket' \in [Sockets -> SocketState'] /\ received' \in [Sockets -> SUBSET Events']
    BY <1>1, <1>2 DEF LiveTypeOK, SocketState
  <2>4. DOMAIN broadcasts' \subseteq Events' \X Sockets
    BY <1>1, <1>2 DEF LiveTypeOK
  <2> QED
    BY <1>1, <1>2, <2>1, <2>2, <2>3, <2>4 DEF LiveTypeOK, Broadcast
<1>5. OpenIsSubscribed' /\ DeadIsGone'
  BY <1>1 DEF OpenIsSubscribed, DeadIsGone
<1>6. Recent(history)' \subseteq Recent(history) \cup {new}
  <2>1. history \in Seq(Nat)
    BY SeqsOfMore DEF LiveTypeOK, Events
  <2>2. Recent(Append(history, new)) \subseteq Recent(history) \cup {new}
    BY <1>2, <2>1, RecentOfAppend
  <2>3. Recent(history)' = Recent(Append(history, new))
    BY <1>1 DEF Recent
  <2> QED
    BY <2>2, <2>3
<1>7. ASSUME NEW s \in Sockets, Open(s)', ~torn', NEW e \in Recent(history)'
      PROVE  (e \in received[s] \/ OnItsWay(e, s))'
  <2>1. CASE e = new
    BY <1>3, <2>1 DEF OnItsWay, Telling, Idle
  <2>2. CASE e \in Recent(history)
    <3>1. e \in received[s] \/ OnItsWay(e, s)
      BY <1>1, <1>7, <2>2 DEF RecentReachesAll, Open
    <3>2. Telling(e) # {} => Telling(e)' # {}
      BY <1>1, <1>3 DEF Telling
    <3> QED
      BY <1>1, <3>1, <3>2 DEF OnItsWay, Telling
  <2> QED
    BY <1>6, <1>7, <2>1, <2>2
<1>8. RecentReachesAll'
  BY <1>7 DEF RecentReachesAll
<1> QED
  BY <1>4, <1>5, <1>8

\* A thread that has made an event goes on to cut the history, or not.
LEMMA CuttingKeeps ==
  ASSUME StreamInv, NEW t \in Publishers, LookAtLength(t) \/ ReadEnd(t) \/ WriteEnd(t)
  PROVE  StreamInv'
<1> USE DEF StreamInv
<1> DEFINE e0 == publishing[t].event
<1>1. UNCHANGED <<made, subscribers, broadcasts, socket, received>>
  BY DEF LookAtLength, ReadEnd, WriteEnd
<1>2. publishing[t] \in Publication /\ publishing[t].step \in {"looking", "cutting", "writing"} /\ history \in Seq(Events)
  BY DEF LiveTypeOK, LookAtLength, ReadEnd, WriteEnd
<1>3. e0 \in Events
  BY <1>2 DEF Publication, Idle
<1>4. PICK p \in Publication : publishing' = [publishing EXCEPT ![t] = p] /\ p # Idle /\ p.event = e0
  <2>1. CASE LookAtLength(t)
    <3>1. PICK st \in {"cutting", "recorded"} : publishing' = [publishing EXCEPT ![t].step = st]
      BY <2>1 DEF LookAtLength
    <3>2. publishing[t] \in [step : {"looking"}, event : Events]
      BY <1>2, <2>1 DEF LookAtLength, Publication, Idle
    <3>3. publishing' = [publishing EXCEPT ![t] = [step |-> st, event |-> e0]]
      <4>1. [publishing[t] EXCEPT !.step = st] = [step |-> st, event |-> e0]
        BY <3>2
      <4> QED
        BY <3>1, <4>1
    <3>4. [step |-> st, event |-> e0] \in Publication /\ [step |-> st, event |-> e0] # Idle
      BY <1>3 DEF Publication, Idle
    <3> QED
      BY <3>3, <3>4
  <2>2. CASE ReadEnd(t)
    <3> DEFINE p == [step |-> "writing", event |-> e0, end |-> End(history, MaxHistory)]
    <3>1. End(history, MaxHistory) \in Seq(Events)
      BY <1>2, RecentOfEnd
    <3>2. p \in Publication /\ p # Idle /\ publishing' = [publishing EXCEPT ![t] = p]
      BY <1>3, <2>2, <3>1 DEF ReadEnd, Publication, Idle
    <3> QED
      BY <3>2
  <2>3. CASE WriteEnd(t)
    <3> DEFINE p == [step |-> "recorded", event |-> e0]
    <3>1. p \in Publication /\ p # Idle /\ publishing' = [publishing EXCEPT ![t] = p]
      BY <1>3, <2>3 DEF WriteEnd, Publication, Idle
    <3> QED
      BY <3>1
  <2> QED
    BY <2>1, <2>2, <2>3
<1>5. history' \in Seq(Events) /\ torn' \in BOOLEAN /\ (~torn' => ~torn /\ Recent(history') \subseteq Recent(history))
  <2>1. CASE WriteEnd(t)
    <3>1. publishing[t].end \in Seq(Events)
      BY <1>2, <2>1 DEF WriteEnd, Publication, Idle
    <3>2. End(history, MaxHistory) \in Seq(Events) /\ Recent(End(history, MaxHistory)) \subseteq Recent(history)
      BY <1>2, RecentOfEnd
    <3> QED
      BY <2>1, <3>1, <3>2 DEF WriteEnd, LiveTypeOK
  <2>2. CASE LookAtLength(t) \/ ReadEnd(t)
    BY <1>2, <2>2 DEF LookAtLength, ReadEnd, LiveTypeOK
  <2> QED
    BY <2>1, <2>2
<1>6. LiveTypeOK'
  <2>1. publishing' \in [Publishers -> Publication] /\ Publication' = Publication /\ Events' = Events
    BY <1>1, <1>4 DEF LiveTypeOK, Publication, Events
  <2> QED
    BY <1>1, <1>5, <2>1 DEF LiveTypeOK, Broadcast, SocketState
<1>7. OpenIsSubscribed' /\ DeadIsGone'
  BY <1>1 DEF OpenIsSubscribed, DeadIsGone
<1>8. ASSUME NEW s \in Sockets, Open(s)', ~torn', NEW e \in Recent(history)'
      PROVE  (e \in received[s] \/ OnItsWay(e, s))'
  <2>1. e \in Recent(history)
    BY <1>5, <1>8 DEF Recent
  <2>2. e \in received[s] \/ OnItsWay(e, s)
    BY <1>1, <1>5, <1>8, <2>1 DEF RecentReachesAll, Open
  <2>3. Telling(e) # {} => Telling(e)' # {}
    BY <1>4 DEF Telling, LiveTypeOK
  <2> QED
    BY <1>1, <2>2, <2>3 DEF OnItsWay, Telling
<1>9. RecentReachesAll'
  BY <1>8 DEF RecentReachesAll
<1> QED
  BY <1>6, <1>7, <1>9

LEMMA FanOutKeeps ==
  ASSUME StreamInv, NEW t \in Publishers, FanOut(t)
  PROVE  StreamInv'
<1> USE DEF StreamInv
<1> DEFINE e0 == publishing[t].event
           new == {e0} \X subscribers
<1>1. /\ publishing' = [publishing EXCEPT ![t] = Idle]
      /\ publishing[t].step = "recorded"
      /\ broadcasts' = [b \in DOMAIN broadcasts \cup new |->
                          IF b \in new THEN [step |-> "scheduled"] ELSE broadcasts[b]]
      /\ UNCHANGED <<made, history, subscribers, socket, received, torn>>
  BY DEF FanOut
<1>2. e0 \in Events /\ publishing[t] = [step |-> "recorded", event |-> e0]
  BY <1>1 DEF LiveTypeOK, Publication, SocketState, Events, Idle
<1>3. /\ DOMAIN broadcasts' = DOMAIN broadcasts \cup new
      /\ \A b \in new : broadcasts'[b] = [step |-> "scheduled"]
      /\ \A b \in DOMAIN broadcasts \ new : broadcasts'[b] = broadcasts[b]
  BY <1>1
<1>4. LiveTypeOK'
  <2>1. DOMAIN broadcasts' \subseteq Events \X Sockets
    BY <1>2, <1>3 DEF LiveTypeOK, Publication, SocketState, Events
  <2>2. \A b \in DOMAIN broadcasts' : broadcasts'[b] \in Broadcast
    BY <1>3 DEF LiveTypeOK, Publication, SocketState, Events, Broadcast
  <2> QED
    BY <1>1, <2>1, <2>2 DEF LiveTypeOK, Publication, SocketState, Events, Broadcast
<1>5. OpenIsSubscribed' /\ DeadIsGone'
  BY <1>1, <1>3 DEF OpenIsSubscribed, DeadIsGone
<1>6. ASSUME NEW s \in Sockets, Open(s)', ~torn', NEW e \in Recent(history)'
      PROVE  (e \in received[s] \/ OnItsWay(e, s))'
  <2>1. e \in received[s] \/ OnItsWay(e, s)
    BY <1>1, <1>6 DEF RecentReachesAll, Open, Recent
  <2>2. CASE e \in received[s] \/ e \in socket[s].replay
    BY <1>1, <2>2 DEF OnItsWay, Telling
  <2>3. CASE Telling(e) # {}
    <3>1. PICK u \in Publishers : publishing[u] # Idle /\ publishing[u].event = e
      BY <2>3 DEF Telling
    <3>2. CASE u = t
      <4>1. s \in subscribers
        BY <1>1, <1>6 DEF OpenIsSubscribed, Open
      <4>2. <<e, s>> \in new
        BY <3>1, <3>2, <4>1
      <4> QED
        BY <1>3, <4>2 DEF OnItsWay, Telling
    <3>3. CASE u # t
      BY <1>1, <3>1, <3>3 DEF OnItsWay, Telling, LiveTypeOK, Publication, SocketState, Events
    <3> QED
      BY <3>2, <3>3
  <2>4. CASE \E b \in DOMAIN broadcasts :
               b[1] = e /\ (broadcasts[b].step = "scheduled" \/ s \in broadcasts[b].rest)
    BY <1>3, <2>4 DEF OnItsWay, Telling
  <2> QED
    BY <2>1, <2>2, <2>3, <2>4 DEF OnItsWay, Telling
<1>7. RecentReachesAll'
  BY <1>6 DEF RecentReachesAll
<1> QED
  BY <1>4, <1>5, <1>7

-----------------------------------------------------------------------------
(* Sockets.                                                                *)

LEMMA SubscribeKeeps ==
  ASSUME StreamInv, NEW s \in Sockets, Subscribe(s)
  PROVE  StreamInv'
<1> USE DEF StreamInv
<1>1. /\ socket[s].step = "new"
      /\ socket' = [socket EXCEPT ![s] = [step |-> "subscribed"]]
      /\ subscribers' = subscribers \cup {s}
      /\ UNCHANGED <<made, history, publishing, broadcasts, received, torn>>
  BY DEF Subscribe
<1>2. socket'[s] = [step |-> "subscribed"] /\ \A u \in Sockets \ {s} : socket'[u] = socket[u]
  BY <1>1 DEF LiveTypeOK, Publication, SocketState, Events
<1>3. LiveTypeOK'
  BY <1>1 DEF LiveTypeOK, Publication, SocketState, Events
<1>4. OpenIsSubscribed'
  BY <1>1, <1>2 DEF OpenIsSubscribed, LiveTypeOK, Publication, SocketState, Events
<1>5. DeadIsGone'
  BY <1>1, <1>2 DEF DeadIsGone, LiveTypeOK, Publication, SocketState, Events, Broadcast
<1>6. RecentReachesAll'
  BY <1>1, <1>2 DEF RecentReachesAll, OnItsWay, Telling, Open, Recent
<1> QED
  BY <1>3, <1>4, <1>5, <1>6

LEMMA ReadHistoryKeeps ==
  ASSUME StreamInv, NEW s \in Sockets, ReadHistory(s)
  PROVE  StreamInv'
<1> USE DEF StreamInv
<1>1. /\ socket[s].step = "subscribed"
      /\ socket' = [socket EXCEPT ![s] = [step |-> "open", replay |-> Recent(history)]]
      /\ UNCHANGED <<made, history, publishing, subscribers, broadcasts, received, torn>>
  BY DEF ReadHistory
<1>2. /\ socket'[s] = [step |-> "open", replay |-> Recent(history)]
      /\ \A u \in Sockets \ {s} : socket'[u] = socket[u]
  BY <1>1 DEF LiveTypeOK, Publication, SocketState, Events
<1>3. LiveTypeOK'
  BY <1>1, RecentIsOf DEF LiveTypeOK, Publication, SocketState, Events
<1>4. OpenIsSubscribed'
  BY <1>1, <1>2 DEF OpenIsSubscribed, LiveTypeOK, Publication, SocketState, Events
<1>5. DeadIsGone'
  BY <1>1, <1>2 DEF DeadIsGone, LiveTypeOK, Publication, SocketState, Events, Broadcast
<1>6. RecentReachesAll'
  BY <1>1, <1>2 DEF RecentReachesAll, OnItsWay, Telling, Open, Recent
<1> QED
  BY <1>3, <1>4, <1>5, <1>6

LEMMA SendReplayedKeeps ==
  ASSUME StreamInv, NEW s \in Sockets, SendReplayed(s)
  PROVE  StreamInv'
<1> USE DEF StreamInv
<1>1. PICK e0 \in socket[s].replay :
        /\ received' = [received EXCEPT ![s] = @ \cup {e0}]
        /\ socket' = [socket EXCEPT ![s].replay = @ \ {e0}]
        /\ Open(s)
        /\ UNCHANGED <<made, history, publishing, subscribers, broadcasts, torn>>
  BY DEF SendReplayed
<1>2. /\ socket'[s] = [step |-> "open", replay |-> socket[s].replay \ {e0}]
      /\ \A u \in Sockets \ {s} : socket'[u] = socket[u]
      /\ socket[s].replay \subseteq Events
      /\ received'[s] = received[s] \cup {e0}
      /\ \A u \in Sockets \ {s} : received'[u] = received[u]
  <2>1. socket[s] \in [step : {"open"}, replay : SUBSET Events]
    BY <1>1 DEF LiveTypeOK, Publication, SocketState, Events, Open
  <2>2. socket'[s] = [socket[s] EXCEPT !.replay = @ \ {e0}]
    BY <1>1 DEF LiveTypeOK, Publication, SocketState, Events
  <2>3. socket'[s] = [step |-> "open", replay |-> socket[s].replay \ {e0}]
    BY <2>1, <2>2
  <2> QED
    BY <1>1, <2>1, <2>3 DEF LiveTypeOK, Publication, SocketState, Events
<1>3. LiveTypeOK'
  BY <1>1, <1>2 DEF LiveTypeOK, Publication, SocketState, Events
<1>4. OpenIsSubscribed'
  <2>1. socket'[s].step = "open" /\ socket[s].step = "open"
    BY <1>1, <1>2 DEF Open
  <2>2. \A u \in Sockets : socket'[u].step = socket[u].step
    BY <1>2, <2>1
  <2>3. subscribers' = subscribers /\ subscribers \subseteq Sockets
    BY <1>1 DEF LiveTypeOK, Publication, SocketState, Events
  <2> HIDE DEF StreamInv
  <2>4. OpenIsSubscribed
    BY DEF StreamInv
  <2> QED
    BY <2>2, <2>3, <2>4 DEF OpenIsSubscribed
<1>5. DeadIsGone'
  BY <1>1, <1>2, SMTT(20) DEF DeadIsGone, LiveTypeOK, Publication, SocketState, Events, Broadcast, Open
<1>6. ASSUME NEW u \in Sockets, Open(u)', ~torn', NEW e \in Recent(history)'
      PROVE  (e \in received[u] \/ OnItsWay(e, u))'
  <2>1. Open(u) /\ ~torn /\ e \in Recent(history)
    BY <1>1, <1>2, <1>6 DEF Open, Recent
  <2>2. e \in received[u] \/ OnItsWay(e, u)
    BY <2>1 DEF RecentReachesAll
  <2> QED
    BY <1>1, <1>2, <2>2 DEF OnItsWay, Telling
<1>7. RecentReachesAll'
  BY <1>6 DEF RecentReachesAll
<1> QED
  BY <1>3, <1>4, <1>5, <1>7

LEMMA ClientLeavesKeeps ==
  ASSUME StreamInv, NEW s \in Sockets, ClientLeaves(s)
  PROVE  StreamInv'
<1> USE DEF StreamInv
<1>1. /\ Open(s)
      /\ socket' = [socket EXCEPT ![s] = [step |-> "gone"]]
      /\ subscribers' \in {subscribers, subscribers \ {s}}
      /\ UNCHANGED <<made, history, publishing, broadcasts, received, torn>>
  BY DEF ClientLeaves
<1>2. socket'[s] = [step |-> "gone"] /\ \A u \in Sockets \ {s} : socket'[u] = socket[u]
  BY <1>1 DEF LiveTypeOK, Publication, SocketState, Events
<1>3. LiveTypeOK'
  BY <1>1 DEF LiveTypeOK, Publication, SocketState, Events
<1>4. OpenIsSubscribed'
  BY <1>1, <1>2 DEF OpenIsSubscribed, LiveTypeOK, Publication, SocketState, Events
<1>5. DeadIsGone'
  BY <1>1, <1>2 DEF DeadIsGone, LiveTypeOK, Publication, SocketState, Events, Broadcast
<1>6. RecentReachesAll'
  BY <1>1, <1>2 DEF RecentReachesAll, OnItsWay, Telling, Open, Recent
<1> QED
  BY <1>3, <1>4, <1>5, <1>6

-----------------------------------------------------------------------------
(* Broadcasts.                                                             *)

LEMMA BeginBroadcastKeeps ==
  ASSUME StreamInv, NEW b \in DOMAIN broadcasts, BeginBroadcast(b)
  PROVE  StreamInv'
<1> USE DEF StreamInv
<1> DEFINE begun == [step |-> "sending", rest |-> subscribers, dead |-> {}]
<1>1. /\ broadcasts' = [broadcasts EXCEPT ![b] = begun]
      /\ UNCHANGED <<made, history, publishing, subscribers, socket, received, torn>>
  BY DEF BeginBroadcast, connections
<1>2. /\ DOMAIN broadcasts' = DOMAIN broadcasts
      /\ broadcasts'[b] = begun
      /\ \A c \in DOMAIN broadcasts \ {b} : broadcasts'[c] = broadcasts[c]
  BY <1>1
<1>3. LiveTypeOK'
  <2>1. begun \in Broadcast
    BY DEF LiveTypeOK, Publication, SocketState, Events, Broadcast
  <2>2. \A c \in DOMAIN broadcasts' : broadcasts'[c] \in Broadcast
    BY <1>2, <2>1 DEF LiveTypeOK, Publication, SocketState, Events
  <2> QED
    BY <1>1, <1>2, <2>2 DEF LiveTypeOK, Publication, SocketState, Events, Broadcast
<1>4. OpenIsSubscribed'
  BY <1>1 DEF OpenIsSubscribed
<1>5. DeadIsGone'
  BY <1>1, <1>2 DEF DeadIsGone, OpenIsSubscribed
<1>6. ASSUME NEW s \in Sockets, Open(s)', ~torn', NEW e \in Recent(history)'
      PROVE  (e \in received[s] \/ OnItsWay(e, s))'
  <2>1. s \in subscribers
    BY <1>1, <1>6 DEF OpenIsSubscribed, Open
  <2>2. e \in received[s] \/ OnItsWay(e, s)
    BY <1>1, <1>6 DEF RecentReachesAll, Open, Recent
  <2> QED
    BY <1>1, <1>2, <2>1, <2>2 DEF OnItsWay, Telling
<1>7. RecentReachesAll'
  BY <1>6 DEF RecentReachesAll
<1> QED
  BY <1>3, <1>4, <1>5, <1>7

LEMMA SendToKeeps ==
  ASSUME StreamInv, NEW b \in DOMAIN broadcasts, NEW s \in Sockets, SendTo(b, s)
  PROVE  StreamInv'
<1> USE DEF StreamInv
<1>1. /\ LoopIsFree
      /\ broadcasts[b].step = "sending"
      /\ s \in broadcasts[b].rest
      /\ UNCHANGED <<made, history, publishing, subscribers, socket, torn>>
  BY DEF SendTo
<1>2. broadcasts[b] \in [step : {"sending"}, rest : SUBSET Sockets, dead : SUBSET Sockets] /\ b[1] \in Events
  BY <1>1 DEF LiveTypeOK, Publication, SocketState, Events, Broadcast
<1>3. CASE Open(s)
  <2>1. /\ received' = [received EXCEPT ![s] = @ \cup {b[1]}]
        /\ broadcasts' = [broadcasts EXCEPT ![b].rest = @ \ {s}]
    BY <1>3 DEF SendTo
  <2>2. /\ broadcasts'[b] = [step |-> "sending", rest |-> broadcasts[b].rest \ {s}, dead |-> broadcasts[b].dead]
        /\ DOMAIN broadcasts' = DOMAIN broadcasts
        /\ \A c \in DOMAIN broadcasts \ {b} : broadcasts'[c] = broadcasts[c]
    BY <1>2, <2>1
  <2>3. /\ received'[s] = received[s] \cup {b[1]}
        /\ \A u \in Sockets \ {s} : received'[u] = received[u]
    BY <2>1 DEF LiveTypeOK, Publication, SocketState, Events
  <2>4. LiveTypeOK'
    <3>1. broadcasts'[b] \in Broadcast
      BY <1>2, <2>2 DEF Broadcast
    <3>2. \A c \in DOMAIN broadcasts' : broadcasts'[c] \in Broadcast
      BY <2>2, <3>1 DEF LiveTypeOK, Publication, SocketState, Events
    <3>3. DOMAIN broadcasts' \subseteq Events' \X Sockets /\ received' \in [Sockets -> SUBSET Events']
      BY <1>1, <1>2, <2>1, <2>2 DEF LiveTypeOK, Events
    <3>4. Broadcast' = Broadcast /\ Publication' = Publication /\ SocketState' = SocketState /\ Events' = Events
      BY <1>1 DEF Broadcast, Publication, SocketState, Events
    <3> QED
      BY <1>1, <3>2, <3>3, <3>4 DEF LiveTypeOK
  <2>5. OpenIsSubscribed' /\ DeadIsGone'
    BY <1>1, <2>2 DEF OpenIsSubscribed, DeadIsGone
  <2>6. ASSUME NEW u \in Sockets, Open(u)', ~torn', NEW e \in Recent(history)'
        PROVE  (e \in received[u] \/ OnItsWay(e, u))'
    <3>1. e \in received[u] \/ OnItsWay(e, u)
      BY <1>1, <2>6 DEF RecentReachesAll, Open, Recent
    <3> QED
      BY <1>1, <2>2, <2>3, <3>1 DEF OnItsWay, Telling
  <2>7. RecentReachesAll'
    BY <2>6 DEF RecentReachesAll
  <2> QED
    BY <2>4, <2>5, <2>7
<1>4. CASE ~Open(s)
  <2>1. /\ received' = received
        /\ broadcasts' = [broadcasts EXCEPT ![b].rest = @ \ {s}, ![b].dead = @ \cup {s}]
    BY <1>4 DEF SendTo
  <2>2. /\ broadcasts'[b] = [step |-> "sending", rest |-> broadcasts[b].rest \ {s}, dead |-> broadcasts[b].dead \cup {s}]
        /\ DOMAIN broadcasts' = DOMAIN broadcasts
        /\ \A c \in DOMAIN broadcasts \ {b} : broadcasts'[c] = broadcasts[c]
    BY <1>2, <2>1
  <2>3. socket[s].step = "gone"
    <3>1. socket[s].step \in {"new", "subscribed", "gone", "open"}
      BY DEF LiveTypeOK, Publication, SocketState, Events
    <3>2. socket[s].step # "new"
      BY <1>1 DEF DeadIsGone
    <3> QED
      BY <1>1, <1>4, <3>1, <3>2 DEF LoopIsFree, Open
  <2>4. LiveTypeOK'
    <3>1. broadcasts'[b] \in Broadcast
      BY <1>2, <2>2 DEF Broadcast
    <3>2. \A c \in DOMAIN broadcasts' : broadcasts'[c] \in Broadcast
      BY <2>2, <3>1 DEF LiveTypeOK, Publication, SocketState, Events
    <3> QED
      BY <1>1, <2>1, <2>2, <3>2 DEF LiveTypeOK, Publication, SocketState, Events, Broadcast
  <2>5. OpenIsSubscribed' /\ DeadIsGone'
    BY <1>1, <2>2, <2>3 DEF OpenIsSubscribed, DeadIsGone
  <2>6. ASSUME NEW u \in Sockets, Open(u)', ~torn', NEW e \in Recent(history)'
        PROVE  (e \in received[u] \/ OnItsWay(e, u))'
    <3>1. e \in received[u] \/ OnItsWay(e, u)
      BY <1>1, <2>6 DEF RecentReachesAll, Open, Recent
    <3>2. u # s
      BY <1>1, <1>4, <2>6 DEF Open
    <3> QED
      BY <1>1, <2>1, <2>2, <3>1, <3>2 DEF OnItsWay, Telling
  <2>7. RecentReachesAll'
    BY <2>6 DEF RecentReachesAll
  <2> QED
    BY <2>4, <2>5, <2>7
<1> QED
  BY <1>3, <1>4

LEMMA EndBroadcastKeeps ==
  ASSUME StreamInv, NEW b \in DOMAIN broadcasts, EndBroadcast(b)
  PROVE  StreamInv'
<1> USE DEF StreamInv
<1>1. /\ broadcasts[b].step = "sending"
      /\ broadcasts[b].rest = {}
      /\ subscribers' = subscribers \ broadcasts[b].dead
      /\ broadcasts' = [c \in DOMAIN broadcasts \ {b} |-> broadcasts[c]]
      /\ UNCHANGED <<made, history, publishing, socket, received, torn>>
  BY DEF EndBroadcast
<1>2. /\ DOMAIN broadcasts' = DOMAIN broadcasts \ {b}
      /\ \A c \in DOMAIN broadcasts \ {b} : broadcasts'[c] = broadcasts[c]
  BY <1>1
<1>3. LiveTypeOK'
  BY <1>1, <1>2 DEF LiveTypeOK, Publication, SocketState, Events, Broadcast
<1>4. OpenIsSubscribed'
  BY <1>1 DEF OpenIsSubscribed, DeadIsGone
<1>5. DeadIsGone'
  BY <1>1, <1>2 DEF DeadIsGone
<1>6. ASSUME NEW s \in Sockets, Open(s)', ~torn', NEW e \in Recent(history)'
      PROVE  (e \in received[s] \/ OnItsWay(e, s))'
  <2>1. e \in received[s] \/ OnItsWay(e, s)
    BY <1>1, <1>6 DEF RecentReachesAll, Open, Recent
  <2> QED
    BY <1>1, <1>2, <2>1 DEF OnItsWay, Telling
<1>7. RecentReachesAll'
  BY <1>6 DEF RecentReachesAll
<1> QED
  BY <1>3, <1>4, <1>5, <1>7

-----------------------------------------------------------------------------
LEMMA StreamNext == StreamInv /\ [LiveNext]_liveVars => StreamInv'
<1> SUFFICES ASSUME StreamInv, [LiveNext]_liveVars PROVE StreamInv'
  OBVIOUS
<1>1. ASSUME NEW t \in Publishers, Publish(t) \/ PublisherStep(t) PROVE StreamInv'
  BY <1>1, PublishKeeps, CuttingKeeps, FanOutKeeps DEF PublisherStep
<1>2. ASSUME NEW s \in Sockets, Subscribe(s) \/ ClientLeaves(s) PROVE StreamInv'
  BY <1>2, SubscribeKeeps, ClientLeavesKeeps
<1>3. CASE LoopStep
  <2>1. CASE BroadcastStep
    BY <2>1, BeginBroadcastKeeps, EndBroadcastKeeps, SendToKeeps DEF BroadcastStep
  <2>2. CASE \E s \in Sockets : ReadHistory(s) \/ SendReplayed(s)
    BY <2>2, ReadHistoryKeeps, SendReplayedKeeps
  <2> QED
    BY <1>3, <2>1, <2>2 DEF LoopStep
<1>4. CASE UNCHANGED liveVars
  <2>1. LiveTypeOK'
    BY <1>4 DEF liveVars, StreamInv, LiveTypeOK, Publication, SocketState, Events
  <2>2. OpenIsSubscribed' /\ DeadIsGone' /\ RecentReachesAll'
    BY <1>4 DEF liveVars, StreamInv, OpenIsSubscribed, DeadIsGone, RecentReachesAll, OnItsWay, Telling, Open, Recent
  <2> QED
    BY <2>1, <2>2 DEF StreamInv
<1> QED
  BY <1>1, <1>2, <1>3, <1>4 DEF LiveNext

\* Whatever publishes and connects, each of the last Replay events has reached
\* every open socket or is on its way: nothing is lost between the history a
\* socket is sent by connect and the events published from then on.
THEOREM StreamReachesAll == LiveSpec => []RecentReachesAll
<1>1. LiveSpec => []StreamInv
  BY StreamInit, StreamNext, PTL DEF LiveSpec
<1> QED
  BY <1>1, PTL DEF StreamInv

-----------------------------------------------------------------------------
(* What the history holds.  As long as no end was written back too late it *)
(* is the last events in their order; and that takes more of them than are *)
(* kept.                                                                   *)

HistoryIsLast ==
    ~torn => /\ Len(history) <= made
             /\ Len(history) = made \/ Len(history) >= MaxHistory
             /\ \A i \in 1 .. Len(history) : history[i] = made - Len(history) + i

Cutting(t) == publishing[t].step \in {"cutting", "writing"}

CutsAreLate == (torn \/ \E t \in Publishers : Cutting(t)) => made > MaxHistory

HistoryInv == LiveTypeOK /\ HistoryIsLast /\ CutsAreLate

\* The end of the last events is the last events.
LEMMA EndIsLast ==
  ASSUME HistoryInv, ~torn, NEW g, g = End(history, MaxHistory)
  PROVE  /\ Len(g) <= made
         /\ Len(g) = made \/ Len(g) >= MaxHistory
         /\ \A i \in 1 .. Len(g) : g[i] = made - Len(g) + i
<1> USE ReplayAssumption
<1> DEFINE d == Len(history) - MaxHistory
<1>1. /\ history \in Seq(Events) /\ Len(history) \in Nat /\ made \in Nat /\ Len(history) <= made
      /\ Len(history) = made \/ Len(history) >= MaxHistory
      /\ \A i \in 1 .. Len(history) : history[i] = made - Len(history) + i
  BY DEF HistoryInv, LiveTypeOK, HistoryIsLast
<1>2. CASE Len(history) <= MaxHistory
  <2>1. g = history
    BY <1>1, <1>2 DEF End
  <2> QED
    BY <1>1, <2>1
<1>3. CASE Len(history) > MaxHistory
  <2>1. g = SubSeq(history, d + 1, Len(history)) /\ d \in Nat
    BY <1>1, <1>3 DEF End
  <2>2. Len(g) = MaxHistory /\ \A j \in 1 .. MaxHistory : g[j] = history[j + d]
    BY <1>1, <1>3, <2>1
  <2>3. ASSUME NEW j \in 1 .. MaxHistory PROVE g[j] = made - MaxHistory + j
    <3>1. j + d \in 1 .. Len(history)
      BY <1>1, <1>3, <2>3
    <3>2. g[j] = history[j + d]
      BY <2>2, <2>3
    <3>3. history[j + d] = made - Len(history) + (j + d)
      BY <1>1, <3>1
    <3>4. made - Len(history) + (j + d) = made - MaxHistory + j
      BY <1>1, <2>3
    <3> QED
      BY <3>2, <3>3, <3>4
  <2> QED
    BY <1>1, <1>3, <2>2, <2>3
<1> QED
  BY <1>1, <1>2, <1>3

LEMMA HistoryInit == LiveInit => HistoryInv
  BY StreamInit DEF StreamInv, LiveInit, HistoryInv, HistoryIsLast, CutsAreLate, Cutting, Idle

LEMMA HistoryNext == StreamInv /\ HistoryInv /\ [LiveNext]_liveVars => HistoryInv'
<1> SUFFICES ASSUME StreamInv, HistoryInv, [LiveNext]_liveVars PROVE HistoryInv'
  OBVIOUS
<1> USE ReplayAssumption
<1>1. LiveTypeOK /\ LiveTypeOK' /\ made \in Nat /\ Len(history) \in Nat /\ history \in Seq(Events)
  BY StreamNext DEF StreamInv, LiveTypeOK
<1>2. ASSUME NEW t \in Publishers, Publish(t) PROVE HistoryInv'
  <2>1. made' = made + 1 /\ history' = Append(history, made + 1) /\ torn' = torn
    BY <1>2 DEF Publish
  <2>2. /\ Len(history') = Len(history) + 1 /\ history'[Len(history) + 1] = made + 1
        /\ \A i \in 1 .. Len(history) : history'[i] = history[i]
    BY <1>1, <2>1
  <2>3. ASSUME ~torn', NEW i \in 1 .. Len(history')
        PROVE  history'[i] = made' - Len(history') + i
    <3>1. CASE i = Len(history) + 1
      BY <1>1, <2>1, <2>2, <3>1
    <3>2. CASE i # Len(history) + 1
      <4>1. i \in 1 .. Len(history)
        BY <1>1, <2>2, <2>3, <3>2
      <4>2. history[i] = made - Len(history) + i
        BY <2>1, <2>3, <4>1 DEF HistoryInv, HistoryIsLast
      <4> QED
        BY <1>1, <2>1, <2>2, <4>1, <4>2
    <3> QED
      BY <3>1, <3>2
  <2>6. HistoryIsLast'
    BY <1>1, <2>1, <2>2, <2>3 DEF HistoryInv, HistoryIsLast
  <2>4. \A u \in Publishers : Cutting(u)' => Cutting(u)
    BY <1>1, <1>2 DEF Publish, Cutting, LiveTypeOK
  <2>5. CutsAreLate'
    BY <1>1, <2>1, <2>4 DEF HistoryInv, CutsAreLate
  <2> QED
    BY <1>1, <2>5, <2>6 DEF HistoryInv
<1>3. ASSUME NEW t \in Publishers, LookAtLength(t) PROVE HistoryInv'
  <2>1. UNCHANGED <<made, history, torn>>
    BY <1>3 DEF LookAtLength
  <2>2. CASE Len(history) > MaxHistory
    <3>1. made > MaxHistory
      BY <1>1, <2>2 DEF HistoryInv, HistoryIsLast, CutsAreLate
    <3> QED
      BY <1>1, <2>1, <3>1 DEF HistoryInv, HistoryIsLast, CutsAreLate
  <2>3. CASE ~(Len(history) > MaxHistory)
    <3>1. \A u \in Publishers : Cutting(u)' => Cutting(u)
      BY <1>1, <1>3, <2>3 DEF LookAtLength, Cutting, LiveTypeOK
    <3> QED
      BY <1>1, <2>1, <3>1 DEF HistoryInv, HistoryIsLast, CutsAreLate
  <2> QED
    BY <2>2, <2>3
<1>4. ASSUME NEW t \in Publishers, ReadEnd(t) \/ FanOut(t) PROVE HistoryInv'
  <2>1. UNCHANGED <<made, history, torn>>
    BY <1>4 DEF ReadEnd, FanOut
  <2>2. \A u \in Publishers : Cutting(u)' => Cutting(u)
    <3>1. CASE ReadEnd(t)
      BY <1>1, <3>1 DEF ReadEnd, Cutting, LiveTypeOK
    <3>2. CASE FanOut(t)
      BY <1>1, <3>2 DEF FanOut, Cutting, LiveTypeOK, Idle
    <3> QED
      BY <1>4, <3>1, <3>2
  <2> QED
    BY <1>1, <2>1, <2>2 DEF HistoryInv, HistoryIsLast, CutsAreLate
<1>5. ASSUME NEW t \in Publishers, WriteEnd(t) PROVE HistoryInv'
  <2>1. made' = made /\ history' = publishing[t].end /\ made > MaxHistory
    BY <1>1, <1>5 DEF WriteEnd, HistoryInv, CutsAreLate, Cutting
  <2>2. ~torn' => ~torn /\ history' = End(history, MaxHistory)
    BY <1>1, <1>5 DEF WriteEnd, LiveTypeOK
  <2>3. HistoryIsLast'
    BY <2>1, <2>2, EndIsLast DEF HistoryIsLast
  <2>4. CutsAreLate'
    BY <2>1 DEF CutsAreLate
  <2> QED
    BY <1>1, <2>3, <2>4 DEF HistoryInv
<1>6. CASE UNCHANGED <<made, history, publishing, torn>>
  BY <1>1, <1>6 DEF HistoryInv, HistoryIsLast, CutsAreLate, Cutting
<1>7. ASSUME NEW s \in Sockets, Subscribe(s) \/ ClientLeaves(s) \/ ReadHistory(s) \/ SendReplayed(s)
      PROVE  UNCHANGED <<made, history, publishing, torn>>
  BY <1>7 DEF Subscribe, ClientLeaves, ReadHistory, SendReplayed
<1>8. ASSUME BroadcastStep PROVE UNCHANGED <<made, history, publishing, torn>>
  BY <1>8 DEF BroadcastStep, BeginBroadcast, EndBroadcast, SendTo
<1>9. CASE UNCHANGED liveVars
  BY <1>6, <1>9 DEF liveVars
<1> QED
  BY <1>2, <1>3, <1>4, <1>5, <1>6, <1>7, <1>8, <1>9 DEF LiveNext, PublisherStep, LoopStep

LEMMA HistoryHolds == LiveSpec => [](StreamInv /\ HistoryInv)
  BY StreamInit, StreamNext, HistoryInit, HistoryNext, PTL DEF LiveSpec

\* As long as no end of the history was written back too late, each of the
\* last Replay events that were ever made has reached every open socket or is
\* on its way there.
THEOREM LastEventsReachAll ==
  LiveSpec => [](~torn => \A s \in Sockets : Open(s) =>
                   \A e \in Events : e > made - Replay => e \in received[s] \/ OnItsWay(e, s))
<1>1. StreamInv /\ HistoryInv =>
        (~torn => \A s \in Sockets : Open(s) =>
           \A e \in Events : e > made - Replay => e \in received[s] \/ OnItsWay(e, s))
  <2> SUFFICES ASSUME StreamInv, HistoryInv, ~torn, NEW s \in Sockets, Open(s), NEW e \in Events, e > made - Replay
               PROVE  e \in received[s] \/ OnItsWay(e, s)
    OBVIOUS
  <2>1. made \in Nat /\ Len(history) \in Nat /\ e \in Nat /\ e <= made
    BY DEF StreamInv, LiveTypeOK, Events
  <2> DEFINE i == Len(history) - made + e
  <2>5. Len(history) <= made /\ (Len(history) = made \/ Len(history) >= MaxHistory)
    BY DEF HistoryInv, HistoryIsLast
  <2>6. e \in 1 .. made
    BY DEF Events
  <2>2. i \in 1 .. Len(history) /\ i > Len(history) - Replay
    BY <2>1, <2>5, <2>6, ReplayAssumption
  <2>3. history[i] = e
    <3>1. history[i] = made - Len(history) + i
      BY <2>2 DEF HistoryInv, HistoryIsLast
    <3> QED
      BY <2>1, <3>1
  <2>4. e \in Recent(history)
    BY <2>2, <2>3 DEF Recent
  <2> QED
    BY <2>4 DEF StreamInv, RecentReachesAll
<1> QED
  BY <1>1, HistoryHolds, PTL

\* It takes more events than the history keeps: the first MaxHistory of them
\* are never torn apart.
THEOREM FirstEventsAreSafe == LiveSpec => [](made <= MaxHistory => ~torn)
<1>1. HistoryInv => (made <= MaxHistory => ~torn)
  BY ReplayAssumption DEF HistoryInv, CutsAreLate, LiveTypeOK
<1> QED
  BY <1>1, HistoryHolds, PTL

-----------------------------------------------------------------------------
(* One thread alone writes back what it has just read.                     *)

OwnEndIsEnd ==
    /\ ~torn
    /\ \A t \in Publishers : publishing[t].step = "writing" => publishing[t].end = End(history, MaxHistory)

\* And it takes two threads that publish.
THEOREM OneThreadIsSafe ==
  ASSUME \A t, u \in Publishers : t = u
  PROVE  LiveSpec => []~torn
<1>1. LiveInit => OwnEndIsEnd
  BY DEF LiveInit, OwnEndIsEnd, Idle
<1>2. StreamInv /\ OwnEndIsEnd /\ [LiveNext]_liveVars => OwnEndIsEnd'
  <2> SUFFICES ASSUME StreamInv, OwnEndIsEnd, [LiveNext]_liveVars PROVE OwnEndIsEnd'
    OBVIOUS
  <2>1. publishing \in [Publishers -> Publication] /\ torn \in BOOLEAN
    BY DEF StreamInv, LiveTypeOK
  <2>2. ASSUME NEW t \in Publishers, Publish(t) \/ PublisherStep(t) PROVE OwnEndIsEnd'
    <3>1. \A u \in Publishers : u = t
      OBVIOUS
    <3>2. CASE Publish(t)
      BY <2>1, <3>1, <3>2 DEF Publish, OwnEndIsEnd
    <3>3. CASE LookAtLength(t)
      BY <2>1, <3>1, <3>3 DEF LookAtLength, OwnEndIsEnd
    <3>4. CASE ReadEnd(t)
      BY <2>1, <3>1, <3>4 DEF ReadEnd, OwnEndIsEnd
    <3>5. CASE WriteEnd(t)
      BY <2>1, <3>1, <3>5 DEF WriteEnd, OwnEndIsEnd
    <3>6. CASE FanOut(t)
      BY <2>1, <3>1, <3>6 DEF FanOut, OwnEndIsEnd, Idle
    <3> QED
      BY <2>2, <3>2, <3>3, <3>4, <3>5, <3>6 DEF PublisherStep
  <2>3. CASE UNCHANGED <<history, publishing, torn>>
    BY <2>3 DEF OwnEndIsEnd
  <2>4. ASSUME NEW s \in Sockets, Subscribe(s) \/ ClientLeaves(s) \/ ReadHistory(s) \/ SendReplayed(s)
        PROVE  UNCHANGED <<history, publishing, torn>>
    BY <2>4 DEF Subscribe, ClientLeaves, ReadHistory, SendReplayed
  <2>5. ASSUME BroadcastStep PROVE UNCHANGED <<history, publishing, torn>>
    BY <2>5 DEF BroadcastStep, BeginBroadcast, EndBroadcast, SendTo
  <2>6. CASE UNCHANGED liveVars
    BY <2>3, <2>6 DEF liveVars
  <2> QED
    BY <2>2, <2>3, <2>4, <2>5, <2>6 DEF LiveNext, LoopStep
<1>3. OwnEndIsEnd => ~torn
  BY DEF OwnEndIsEnd
<1> QED
  BY <1>1, <1>2, <1>3, StreamInit, StreamNext, PTL DEF LiveSpec

-----------------------------------------------------------------------------
(* What discovery shows and registers.                                     *)

\* A board that answers speaks HHIP, so the port it is on has not been emptied.
LEMMA OnlyFirmwareAnswers ==
  ASSUME NEW b, NEW boot \in Heard(b), NEW reply \in Heard(b), Answers(boot, reply)
  PROVE  b \in Firmware
  BY DEF Heard, Answers, Greetings

LEMMA IdsAreAnyId ==
  ASSUME NEW p \in Ports
  PROVE  Ids(p) \cup {Nothing} \subseteq AnyId
<1>1. Ids(p) \in {Ids(q) : q \in Ports}
  OBVIOUS
<1>2. Ids(p) \subseteq UNION {Ids(q) : q \in Ports}
  BY <1>1, Zenon
<1> QED
  BY <1>2 DEF AnyId

\* One port is shown otherwise; what was a port that is shown stays one.
LEMMA ShowsOne ==
  ASSUME DiscoveryTypeOK, NEW p \in Ports, NEW d \in Shown(p), Show(p, d)
  PROVE  /\ DOMAIN devices' = DOMAIN devices \cup {p} /\ DOMAIN devices' \subseteq Ports
         /\ \A q \in DOMAIN devices' : devices'[q] \in Shown(q)
  BY DEF Show, DiscoveryTypeOK

LEMMA MoreProbes ==
  ASSUME DOMAIN devices \subseteq DOMAIN devices'
  PROVE  Probe \subseteq Probe' /\ ScanPass \subseteq ScanPass'
<1>1. Probe \subseteq Probe'
  BY DEF Probe
<1>2. ScanPass \subseteq ScanPass'
  BY DEF ScanPass
<1> QED
  BY <1>1, <1>2

\* A probe that goes on, on a port whose new state is in order.
LEMMA ProbeGoesOn ==
  ASSUME DiscoveryTypeOK, NEW t \in Threads, UNCHANGED <<plugged, held>>,
         scan' = scan \/ scan' = AtRest, registered' \subseteq AnyId, pushed' = pushed,
         NEW p \in DOMAIN devices,
         \/ UNCHANGED devices
         \/ \E d \in Shown(p) : Show(p, d),
         NEW pr \in Probe, probe' = [probe EXCEPT ![t] = pr]
  PROVE  DiscoveryTypeOK'
<1>1. p \in Ports
  BY DEF DiscoveryTypeOK
<1>2. /\ DOMAIN devices' = DOMAIN devices
      /\ \A q \in DOMAIN devices' : devices'[q] \in Shown(q)
  <2>1. CASE UNCHANGED devices
    BY <2>1 DEF DiscoveryTypeOK
  <2>2. CASE \E d \in Shown(p) : Show(p, d)
    BY <1>1, <2>2, ShowsOne
  <2> QED
    BY <2>1, <2>2
<1>3. Probe \subseteq Probe' /\ ScanPass \subseteq ScanPass'
  BY <1>2, MoreProbes
<1>4. AtRest \in ScanPass /\ held' \subseteq Listed'
  BY DEF ScanPass, DiscoveryTypeOK, Listed
<1>5. probe' \in [Threads -> Probe'] /\ scan' \in ScanPass'
  BY <1>3, <1>4 DEF DiscoveryTypeOK
<1>6. DOMAIN devices' \subseteq Ports /\ registered' \subseteq AnyId'
  BY <1>2 DEF DiscoveryTypeOK, AnyId, Ids
<1> QED
  BY <1>2, <1>4, <1>5, <1>6 DEF DiscoveryTypeOK

LEMMA DiscoveryInitType == DiscoveryInit => DiscoveryTypeOK
<1> SUFFICES ASSUME DiscoveryInit PROVE DiscoveryTypeOK
  OBVIOUS
<1>1. DOMAIN devices = {}
  BY DEF DiscoveryInit
<1>2. probe \in [Threads -> Probe] /\ scan \in ScanPass
  BY DEF DiscoveryInit, Probe, ScanPass
<1> QED
  BY <1>1, <1>2 DEF DiscoveryInit, DiscoveryTypeOK, Listed

\* A status more keeps what is shown in order, and so does an id of the port.
LEMMA ShownOtherwise ==
  ASSUME DiscoveryTypeOK, NEW p \in DOMAIN devices,
         NEW st \in {"connecting", "connected", "busy", "error", "disconnected"}, NEW id \in Ids(p) \cup {Nothing}
  PROVE  [devices[p] EXCEPT !.status = st] \in Shown(p) /\ [devices[p] EXCEPT !.id = id] \in Shown(p)
  BY DEF DiscoveryTypeOK, Shown

LEMMA ProbeKeepsType ==
  ASSUME DiscoveryTypeOK, NEW t \in Threads, ProbeStep(t)
  PROVE  DiscoveryTypeOK'
<1> DEFINE p == probe[t].port
<1>1. probe[t] \in Probe /\ probe[t] # AtRest
  <2>1. probe[t].step # "rest"
    BY DEF ProbeStep, BeginProbe, OpenPort, Greet, TakeId, MakeUpId, ReadId, StoreDevice, Announce
  <2> QED
    BY <2>1 DEF DiscoveryTypeOK, AtRest
<1>2. p \in DOMAIN devices /\ p \in Ports /\ devices[p] \in Shown(p) /\ Id(p) \in Ids(p) \cup {Nothing}
  <2>1. p \in DOMAIN devices
    BY <1>1 DEF Probe
  <2>2. p \in Ports /\ devices[p] \in Shown(p)
    BY <2>1 DEF DiscoveryTypeOK
  <2> QED
    BY <2>1, <2>2 DEF Shown, Id
<1>3. Ids(p) \cup {Nothing} \subseteq AnyId /\ registered \subseteq AnyId
  BY <1>2, IdsAreAnyId DEF DiscoveryTypeOK
<1>4. AtRest \in Probe
  BY DEF Probe
<1>5. ASSUME NEW st \in {"begin", "open", "greet", "make up", "register", "announce"}
      PROVE  [step |-> st, port |-> p] \in Probe
  BY <1>2 DEF Probe
<1>6. ASSUME NEW st \in {"connecting", "connected", "busy", "error", "disconnected"}, NEW id \in Ids(p) \cup {Nothing}
      PROVE  [devices[p] EXCEPT !.status = st] \in Shown(p) /\ [devices[p] EXCEPT !.id = id] \in Shown(p)
  BY <1>2, <1>6, ShownOtherwise
<1> DEFINE keeps(pr) == /\ pr \in Probe /\ probe' = [probe EXCEPT ![t] = pr]
                        /\ UNCHANGED <<plugged, held>> /\ pushed' = pushed
                        /\ scan' = scan \/ scan' = AtRest
                        /\ registered' \subseteq AnyId
                        /\ UNCHANGED devices \/ \E d \in Shown(p) : Show(p, d)
<1>7. SUFFICES \E pr : keeps(pr)
  BY <1>2, <1>7, ProbeGoesOn
<1>8. CASE BeginProbe(t)
  <2>1. keeps([step |-> "open", port |-> p])
    BY <1>3, <1>5, <1>6, <1>8 DEF BeginProbe, portVars
  <2> QED
    BY <2>1
<1>9. CASE OpenPort(t)
  <2>1. PICK pr \in {AtRest, [step |-> "greet", port |-> p]} : probe' = [probe EXCEPT ![t] = pr]
    BY <1>9 DEF OpenPort
  <2>2. UNCHANGED devices \/ \E st \in {"busy", "error"} : Show(p, [devices[p] EXCEPT !.status = st])
    BY <1>9 DEF OpenPort
  <2>3. keeps(pr)
    BY <1>3, <1>4, <1>5, <1>6, <1>9, <2>1, <2>2 DEF OpenPort, portVars
  <2> QED
    BY <2>3
<1>10. CASE Greet(t)
  <2>1. Show(p, [devices[p] EXCEPT !.status = "connected"]) /\ UNCHANGED <<plugged, held, registered, scan, pushed>>
    BY <1>10 DEF Greet, portVars
  <2>2. PICK boot \in Heard(plugged[p]), reply \in Heard(plugged[p]) :
          probe' = [probe EXCEPT ![t] =
            IF Answers(boot, reply) THEN [step |-> "identify", port |-> p, id |-> IdOf[plugged[p]]]
                                    ELSE [step |-> "announce", port |-> p]]
    BY <1>10 DEF Greet
  <2>3. CASE Answers(boot, reply)
    <3>1. IdOf[plugged[p]] \in Ids(p)
      BY <2>3, OnlyFirmwareAnswers DEF Ids
    <3>2. [step |-> "identify", port |-> p, id |-> IdOf[plugged[p]]] \in Probe
      BY <1>2, <1>3, <3>1 DEF Probe
    <3>3. keeps([step |-> "identify", port |-> p, id |-> IdOf[plugged[p]]])
      BY <1>3, <1>6, <2>1, <2>2, <2>3, <3>2
    <3> QED
      BY <3>3
  <2>4. CASE ~Answers(boot, reply)
    <3>1. keeps([step |-> "announce", port |-> p])
      BY <1>3, <1>5, <1>6, <2>1, <2>2, <2>4
    <3> QED
      BY <3>1
  <2> QED
    BY <2>3, <2>4
<1>11. CASE TakeId(t)
  <2>1. probe[t].id \in Ids(p)
    BY <1>1, <1>11 DEF TakeId, Probe
  <2>2. keeps([step |-> "make up", port |-> p])
    BY <1>3, <1>5, <1>6, <1>11, <2>1 DEF TakeId, portVars
  <2> QED
    BY <2>2
<1>12. CASE MakeUpId(t)
  <2>1. MadeUp[p] \in Ids(p)
    BY DEF Ids
  <2>2. keeps([step |-> "register", port |-> p])
    BY <1>3, <1>5, <1>6, <1>12, <2>1 DEF MakeUpId, portVars
  <2> QED
    BY <2>2
<1>13. CASE ReadId(t)
  <2>1. [step |-> "store", port |-> p, id |-> Id(p)] \in Probe
    BY <1>2, <1>3 DEF Probe
  <2>2. keeps([step |-> "store", port |-> p, id |-> Id(p)])
    BY <1>3, <1>13, <2>1 DEF ReadId, portVars
  <2> QED
    BY <2>2
<1>14. CASE StoreDevice(t)
  <2>1. probe[t].id \in AnyId
    BY <1>1, <1>14 DEF StoreDevice, Probe
  <2>2. keeps([step |-> "announce", port |-> p])
    BY <1>3, <1>5, <1>14, <2>1 DEF StoreDevice, portVars
  <2> QED
    BY <2>2
<1>15. CASE Announce(t)
  <2>1. keeps(AtRest)
    BY <1>3, <1>4, <1>15 DEF Announce, portVars
  <2> QED
    BY <2>1
<1> QED
  BY <1>8, <1>9, <1>10, <1>11, <1>12, <1>13, <1>14, <1>15 DEF ProbeStep

LEMMA ScanKeepsType ==
  ASSUME DiscoveryTypeOK, BeginScan \/ BeginBlindScan \/ ScanStep \/ \E p \in Ports : RequestConnect(p)
  PROVE  DiscoveryTypeOK'
<1>1. /\ UNCHANGED <<plugged, held>> /\ held' \subseteq Listed'
      /\ registered' \subseteq registered /\ registered' \subseteq AnyId'
  <2>1. UNCHANGED <<plugged, held>> /\ registered' \subseteq registered
    BY DEF BeginScan, BeginBlindScan, ScanStep, EndScan, Unregister, ForgetId, ScanPort, MarkGone, RequestConnect, portVars
  <2> QED
    BY <2>1 DEF DiscoveryTypeOK, Listed, AnyId, Ids
<1>2. ASSUME UNCHANGED devices, scan' \in ScanPass, probe' \in [Threads -> Probe], pushed' \subseteq Ports
      PROVE  DiscoveryTypeOK'
  <2>1. Probe \subseteq Probe' /\ ScanPass \subseteq ScanPass'
    BY <1>2, MoreProbes
  <2> QED
    BY <1>1, <1>2, <2>1 DEF DiscoveryTypeOK
<1>3. ASSUME NEW p \in Ports, NEW d \in Shown(p), Show(p, d), scan' \in ScanPass,
             \/ probe' = probe
             \/ probe' = [probe EXCEPT !["scan"] = [step |-> "open", port |-> p]],
             pushed' = pushed
      PROVE  DiscoveryTypeOK'
  <2>1. /\ DOMAIN devices' = DOMAIN devices \cup {p} /\ DOMAIN devices' \subseteq Ports
        /\ \A q \in DOMAIN devices' : devices'[q] \in Shown(q)
    BY <1>3, ShowsOne
  <2>2. Probe \subseteq Probe' /\ ScanPass \subseteq ScanPass'
    BY <2>1, MoreProbes
  <2>3. [step |-> "open", port |-> p] \in Probe'
    BY <2>1 DEF Probe
  <2>4. probe' \in [Threads -> Probe']
    BY <1>3, <2>2, <2>3 DEF DiscoveryTypeOK
  <2> QED
    BY <1>1, <1>3, <2>1, <2>2, <2>4 DEF DiscoveryTypeOK
<1>4. CASE BeginScan \/ BeginBlindScan
  <2>1. Pass(Listed) \in ScanPass /\ Pass({}) \in ScanPass
    BY DEF Pass, Listed, ScanPass
  <2> QED
    BY <1>2, <1>4, <2>1 DEF BeginScan, BeginBlindScan, DiscoveryTypeOK
<1>5. CASE EndScan
  <2>1. AtRest \in ScanPass /\ InUse \subseteq Ports
    BY DEF ScanPass, InUse, DiscoveryTypeOK
  <2> QED
    BY <1>2, <1>5, <2>1 DEF EndScan, DiscoveryTypeOK
<1>6. ASSUME NEW p \in Ports, ScanPort(p) PROVE DiscoveryTypeOK'
  <2>1. scan' \in ScanPass /\ pushed' = pushed
    <3>1. scan \in [step : {"ports"}, seen : SUBSET Ports, todo : SUBSET Ports]
      BY <1>6 DEF ScanPort, DiscoveryTypeOK, ScanPass, AtRest
    <3>2. [scan EXCEPT !.todo = @ \ {p}] \in [step : {"ports"}, seen : SUBSET Ports, todo : SUBSET Ports]
      BY <3>1
    <3> QED
      BY <1>6, <3>2 DEF ScanPort, ScanPass
  <2>2. CASE UNCHANGED <<devices, probe>>
    BY <1>2, <2>1, <2>2 DEF DiscoveryTypeOK
  <2>3. CASE ~UNCHANGED <<devices, probe>>
    <3>1. Show(p, IF p \in DOMAIN devices THEN [devices[p] EXCEPT !.status = "connecting"] ELSE NewDevice)
          /\ probe' = [probe EXCEPT !["scan"] = [step |-> "open", port |-> p]]
      BY <1>6, <2>3 DEF ScanPort
    <3>2. (IF p \in DOMAIN devices THEN [devices[p] EXCEPT !.status = "connecting"] ELSE NewDevice) \in Shown(p)
      <4>1. NewDevice \in Shown(p)
        BY DEF NewDevice, Shown
      <4>2. p \in DOMAIN devices => [devices[p] EXCEPT !.status = "connecting"] \in Shown(p)
        BY ShownOtherwise
      <4> QED
        BY <4>1, <4>2
    <3> QED
      BY <1>3, <2>1, <3>1, <3>2
  <2> QED
    BY <2>2, <2>3
<1>7. ASSUME NEW p \in Ports, MarkGone(p) PROVE DiscoveryTypeOK'
  <2>1. p \in DOMAIN devices
    BY <1>7 DEF MarkGone, Gone
  <2>2. Id(p) \in AnyId
    <3>1. Id(p) \in Ids(p) \cup {Nothing}
      BY <2>1 DEF DiscoveryTypeOK, Shown, Id
    <3> QED
      BY <3>1, IdsAreAnyId
  <2>3. [step |-> "marked", port |-> p, id |-> Id(p)] \in ScanPass
    BY <2>1, <2>2 DEF ScanPass
  <2>4. [devices[p] EXCEPT !.status = "disconnected"] \in Shown(p)
    BY <2>1, ShownOtherwise
  <2> QED
    BY <1>3, <1>7, <2>3, <2>4 DEF MarkGone
<1>8. CASE Unregister
  <2>1. scan.port \in DOMAIN devices
    BY <1>8 DEF Unregister, DiscoveryTypeOK, ScanPass, AtRest
  <2>2. [step |-> "unregistered", port |-> scan.port] \in ScanPass
    BY <2>1 DEF ScanPass
  <2> QED
    BY <1>2, <1>8, <2>2 DEF Unregister, DiscoveryTypeOK
<1>9. CASE ForgetId
  <2>1. scan.port \in DOMAIN devices /\ AtRest \in ScanPass
    BY <1>9 DEF ForgetId, DiscoveryTypeOK, ScanPass, AtRest
  <2>2. scan.port \in Ports /\ [devices[scan.port] EXCEPT !.id = Nothing] \in Shown(scan.port)
    BY <2>1, ShownOtherwise DEF DiscoveryTypeOK
  <2> QED
    BY <1>3, <1>9, <2>1, <2>2 DEF ForgetId
<1>10. ASSUME NEW p \in Ports, RequestConnect(p) PROVE DiscoveryTypeOK'
  <2>1. [step |-> "begin", port |-> p] \in Probe
    BY <1>10 DEF RequestConnect, Probe
  <2> QED
    BY <1>2, <1>10, <2>1 DEF RequestConnect, DiscoveryTypeOK
<1> QED
  BY <1>4, <1>5, <1>6, <1>7, <1>8, <1>9, <1>10 DEF ScanStep

LEMMA PortsKeepType ==
  ASSUME DiscoveryTypeOK, PortChanges
  PROVE  DiscoveryTypeOK'
<1>1. plugged' \in [Ports -> Boards \cup {Nothing}] /\ held' \subseteq Listed'
  BY DiscoveryAssumption DEF PortChanges, DiscoveryTypeOK, Listed
<1>2. UNCHANGED <<devices, registered, scan, probe, pushed>>
  BY DEF PortChanges
<1>3. Probe \subseteq Probe' /\ ScanPass \subseteq ScanPass'
  BY <1>2, MoreProbes
<1> QED
  BY <1>1, <1>2, <1>3 DEF DiscoveryTypeOK, AnyId, Ids

\* However scans, requests and boards come between one another, what is shown
\* of a port and what the device manager knows are ids that a board reported or
\* that were made up for that port, or none, and no program has an empty port
\* open.
THEOREM DiscoveryTypeCorrect == DiscoverySpec => []DiscoveryTypeOK
<1>1. DiscoveryTypeOK /\ [DiscoveryNext]_discoveryVars => DiscoveryTypeOK'
  <2> SUFFICES ASSUME DiscoveryTypeOK, [DiscoveryNext]_discoveryVars PROVE DiscoveryTypeOK'
    OBVIOUS
  <2>1. CASE UNCHANGED discoveryVars
    <3>1. Probe \subseteq Probe' /\ ScanPass \subseteq ScanPass'
      BY <2>1, MoreProbes DEF discoveryVars
    <3> QED
      BY <2>1, <3>1 DEF discoveryVars, portVars, DiscoveryTypeOK, AnyId, Ids, Listed
  <2> QED
    BY <2>1, PortsKeepType, ScanKeepsType, ProbeKeepsType DEF DiscoveryNext
<1> QED
  BY DiscoveryInitType, <1>1, PTL DEF DiscoverySpec

-----------------------------------------------------------------------------
\* The API process runs discovery and the event stream, each by its own rules
\* alone.
THEOREM ApiRunsBoth == ApiSpec => DiscoverySpec /\ LiveSpec
<1>1. ApiInit => DiscoveryInit /\ LiveInit
  BY DEF ApiInit
<1>2. [ApiNext]_apiVars => [DiscoveryNext]_discoveryVars /\ [LiveNext]_liveVars
  <2> SUFFICES ASSUME [ApiNext]_apiVars PROVE [DiscoveryNext]_discoveryVars /\ [LiveNext]_liveVars
    OBVIOUS
  <2>1. CASE Surroundings
    BY <2>1, Zenon DEF Surroundings, DiscoveryNext, LiveNext
  <2>2. CASE Passing
    BY <2>2, Zenon DEF Passing, DiscoveryNext
  <2>3. ASSUME NEW t \in Threads, Probing(t) PROVE DiscoveryNext /\ UNCHANGED liveVars
    BY <2>3, Zenon DEF Probing, DiscoveryNext
  <2>4. ASSUME NEW t \in Publishers, Publishing(t) PROVE LiveNext /\ UNCHANGED discoveryVars
    BY <2>4, Zenon DEF Publishing, LiveNext
  <2>5. CASE Looping
    BY <2>5, Zenon DEF Looping, LiveNext
  <2>6. CASE UNCHANGED apiVars
    BY <2>6 DEF apiVars
  <2> QED
    BY <2>1, <2>2, <2>3, <2>4, <2>5, <2>6 DEF ApiNext
<1> QED
  BY <1>1, <1>2, PTL DEF ApiSpec, DiscoverySpec, LiveSpec

\* So every variable of the process has its type, with all its threads.
THEOREM ApiTypeCorrect == ApiSpec => []ApiTypeOK
<1>1. LiveSpec => []LiveTypeOK
  <2>1. StreamInv => LiveTypeOK
    BY DEF StreamInv
  <2> QED
    BY <2>1, StreamInit, StreamNext, PTL DEF LiveSpec
<1>2. DiscoveryTypeOK /\ LiveTypeOK => ApiTypeOK
  BY DEF ApiTypeOK
<1> QED
  BY <1>1, <1>2, ApiRunsBoth, DiscoveryTypeCorrect, PTL

\* And no event falls between the history and the live stream, whatever
\* discovery does besides.
THEOREM ApiReachesAll == ApiSpec => []RecentReachesAll
BY ApiRunsBoth, StreamReachesAll, PTL
==============================================================================
