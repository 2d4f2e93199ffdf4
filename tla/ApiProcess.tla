----------------------------- MODULE ApiProcess -----------------------------
(***************************************************************************)
(* The threads of the API process that no lock keeps apart: those of       *)
(* hardware discovery, those of requests to experiments, which publish to  *)
(* the dashboard one event after the other, and the event loop, which      *)
(* carries the events to its sockets.  Discovery is given the same         *)
(* publisher and fails to use it (Discovery), so that the two share        *)
(* nothing.                                                                *)
(***************************************************************************)
EXTENDS Discovery, LiveUpdates

CONSTANTS MaxEvents,  \* bound: events that are published
          Budgets     \* bound: how often what else may happen

VARIABLE left         \* what may still happen

apiVars == <<discoveryVars, liveVars, left>>

Spend(what) == left[what] > 0 /\ left' = [left EXCEPT ![what] = @ - 1]

ApiInit == DiscoveryInit /\ LiveInit /\ left \in Budgets

Surroundings ==
    \/ /\ \/ Spend("ports") /\ PortChanges
          \/ Spend("requests") /\ \E p \in Ports : RequestConnect(p)
          \/ Spend("failures") /\ BeginBlindScan
       /\ UNCHANGED liveVars
    \/ /\ \/ Spend("events") /\ made < MaxEvents /\ \E t \in Publishers : Publish(t)
          \/ Spend("sockets") /\ \E s \in Sockets : Subscribe(s) \/ ClientLeaves(s)
       /\ UNCHANGED discoveryVars

Passing == (BeginScan \/ ScanStep) /\ UNCHANGED <<liveVars, left>>

Probing(t) == ProbeStep(t) /\ UNCHANGED <<liveVars, left>>

Publishing(t) == PublisherStep(t) /\ UNCHANGED <<discoveryVars, left>>

Looping == LoopStep /\ UNCHANGED <<discoveryVars, left>>

ApiNext ==
    \/ Surroundings
    \/ Passing
    \/ \E t \in Threads : Probing(t)
    \/ \E t \in Publishers : Publishing(t)
    \/ Looping

\* The scan loop goes on whatever a pass raises, threads and the event loop
\* run, a handshake ends by its time limit, and sending to a socket ends
\* in one way or the other.
ApiFairness ==
    /\ WF_apiVars(Passing)
    /\ WF_apiVars(\E t \in Threads : Probing(t))
    /\ WF_apiVars(\E t \in Publishers : Publishing(t))
    /\ WF_apiVars(Looping)

ApiSpec == ApiInit /\ [][ApiNext]_apiVars /\ ApiFairness

-----------------------------------------------------------------------------
\* What discovery and the live updates keep has its types, whatever threads
\* come between the steps of one another: a board is shown and registered
\* under an identifier of its port.
ApiTypeOK == DiscoveryTypeOK /\ LiveTypeOK

\* What is on its way to an open socket, from the history or from a thread
\* that publishes, gets there, whatever the history has lost and although
\* other sockets fail in the same broadcast and are disconnected, unless the
\* client leaves.
EventsArrive == \A e \in 1 .. MaxEvents, s \in Sockets : Arrives(e, s)
==============================================================================
