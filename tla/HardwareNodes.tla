---------------------------- MODULE HardwareNodes ----------------------------
(***************************************************************************)
(* The boards of the engineering workspace: WorkspaceSyncService with the  *)
(* DiscoveryListener that feeds it.  A node stands for a board, connected  *)
(* or expected.  Board events and requests come in threads of their own;   *)
(* every operation runs under the lock of the service, but loading a       *)
(* project reads the file first, then takes the lock for the nodes, then   *)
(* again for the reconnection.  Pins, heartbeat times, firmware versions   *)
(* and what is broadcast are left out.                                     *)
(***************************************************************************)
EXTENDS ProjectJson

CONSTANTS Boards,  \* device identifiers
          Ports,   \* endpoints
          NoPort   \* the endpoint of a node that has none

VARIABLES nodes,     \* _nodes: board -> node
          syncWires, \* _wires: what the service believes the wires are
          nodeFile,  \* the store of each workspace: [nodes, wires], or NoFile
          loading    \* a request inside load_project

nodesVars == <<nodes, syncWires, nodeFile, loading>>

NotLoading == [step |-> "none"]

\* What is plugged in when a request asks the hybrid layer: where each board is.
Plugged == UNION {[S -> Ports] : S \in SUBSET Boards}

-----------------------------------------------------------------------------
(* HardwareNode.                                                           *)

WithNode(f, d, n) == [e \in DOMAIN f \cup {d} |-> IF e = d THEN n ELSE f[e]]

NewNode(ws, port) == [status |-> "online", disabled |-> FALSE, moved |-> FALSE, workspace |-> ws, endpoint |-> port]

\* from_hybrid_device and what upsert_from_device keeps of the node there was:
\* its place on the canvas and its workspace, not that it was disabled.
Upserted(d, port) ==
    IF d \in DOMAIN nodes
    THEN [nodes[d] EXCEPT !.status = "online", !.disabled = FALSE, !.endpoint = port]
    ELSE NewNode(Default, port)

Waiting(n) == [n EXCEPT !.status = "waiting"]
Offline(n) == [n EXCEPT !.status = "offline", !.disabled = TRUE]

\* touch_heartbeat: a board that shows life is no longer waited for.
Touched(n) == IF n.status \in {"connecting", "waiting"} THEN [n EXCEPT !.status = "online"] ELSE n

\* reconnect's match: the board itself, else whatever is at its endpoint.
MatchedPort(d, n, plugged) ==
    IF d \in DOMAIN plugged THEN plugged[d]
    ELSE IF \E e \in DOMAIN plugged : plugged[e] = n.endpoint THEN n.endpoint
    ELSE NoPort

\* Mutant: what was not found is taken for found.
ReconnectedAnyway(d, n, plugged) ==
    [n EXCEPT !.disabled = FALSE, !.status = "online", !.endpoint = MatchedPort(d, n, plugged)]

Reconnected(d, n, plugged) ==
    LET port == MatchedPort(d, n, plugged)
        asked == [n EXCEPT !.disabled = FALSE]
    IN IF port # NoPort THEN [asked EXCEPT !.status = "online", !.endpoint = port] ELSE Waiting(asked)

\* Bulk sweeps pass over what the user disabled.
Swept(plugged) ==
    [d \in DOMAIN nodes |-> IF nodes[d].disabled THEN nodes[d] ELSE Reconnected(d, nodes[d], plugged)]

-----------------------------------------------------------------------------
(* Stores.                                                                 *)

\* What save_project_hardware keeps of a node.
Layout(n) == [moved |-> n.moved, endpoint |-> n.endpoint]

\* Mutant: the store gets what was there before the operation.
PersistNodesEarly(ws) ==
    /\ nodeFile' = [nodeFile EXCEPT ![ws] = [nodes |-> nodes, wires |-> syncWires]]
    /\ ReadForSave("nodes", ws, Whole([d \in DOMAIN nodes' |-> Layout(nodes'[d])], syncWires))

\* _persist(ws): every node goes to the store of this workspace; a project
\* gets a new hardware section, with the wires this service knows of.
PersistNodes(ws) ==
    /\ nodeFile' = [nodeFile EXCEPT ![ws] = [nodes |-> nodes', wires |-> syncWires]]
    /\ ReadForSave("nodes", ws, Whole([d \in DOMAIN nodes' |-> Layout(nodes'[d])], syncWires))

-----------------------------------------------------------------------------
NodesInit ==
    /\ nodes = <<>>
    /\ syncWires = {}
    /\ nodeFile = [ws \in Workspaces |-> NoFile]
    /\ loading = NotLoading

ChangeNode(d, n) ==
    /\ Unlocked("nodes")
    /\ nodes' = WithNode(nodes, d, n)
    /\ PersistNodes(n.workspace)
    /\ UNCHANGED <<syncWires, loading, project>>

\* upsert_from_device, on PHYSICAL_DEVICE_CONNECTED.
BoardReports(d, port) == ChangeNode(d, Upserted(d, port))

\* remove_device, on PHYSICAL_DEVICE_DISCONNECTED, whether or not the user had disabled it.
BoardLost(d) == d \in DOMAIN nodes /\ ChangeNode(d, Waiting(nodes[d]))

\* disable_device: POST /workspace/hardware/disconnect.
UserDisconnects(d) == d \in DOMAIN nodes /\ ChangeNode(d, Offline(nodes[d]))

\* update_layout.
UserMoves(d) == d \in DOMAIN nodes /\ ChangeNode(d, [nodes[d] EXCEPT !.moved = TRUE])

\* update_pin_state, on GPIO_STATE and GPIO_WRITE.
PinReports(d) == d \in DOMAIN nodes /\ ChangeNode(d, Touched(nodes[d]))

\* touch_heartbeat alone, which saves nothing.
Heartbeat(d) ==
    /\ Unlocked("nodes")
    /\ d \in DOMAIN nodes
    /\ nodes' = [nodes EXCEPT ![d] = Touched(@)]
    /\ UNCHANGED <<syncWires, nodeFile, loading, projectVars>>

\* reconnect for all, or for a board that is not known, which comes to the same.
Sweep(plugged) ==
    /\ Unlocked("nodes")
    /\ nodes' = Swept(plugged)
    /\ PersistNodes(Default)
    /\ UNCHANGED <<syncWires, loading, project>>

\* reconnect for one board.
UserReconnects(d, plugged) ==
    /\ Unlocked("nodes")
    /\ d \in DOMAIN nodes
    /\ nodes' = [nodes EXCEPT ![d] = Reconnected(d, @, plugged)]
    /\ PersistNodes(Default)
    /\ UNCHANGED <<syncWires, loading, project>>

\* load_project up to the lock: project.json if there is one, else the
\* store.  A file that is no JSON raises, and nothing is loaded.
FromProject(d) ==
    [status |-> "waiting", disabled |-> FALSE, moved |-> project.nodes[d].moved,
     workspace |-> Project, endpoint |-> project.nodes[d].endpoint]

LoadProject(plugged) ==
    /\ loading = NotLoading
    /\ \/ /\ project.kind = "whole"
          /\ loading' = [step |-> "read", plugged |-> plugged, wires |-> project.wires,
                         nodes |-> [d \in DOMAIN project.nodes |-> FromProject(d)]]
       \/ /\ project = NoFile
          /\ nodeFile[Project] # NoFile
          /\ loading' = [step |-> "read", plugged |-> plugged, wires |-> nodeFile[Project].wires,
                         nodes |-> nodeFile[Project].nodes]
    /\ UNCHANGED <<nodes, syncWires, nodeFile, projectVars>>

\* _hydrate: what was read takes the place of the nodes there are.
Hydrate ==
    /\ loading.step = "read"
    /\ Unlocked("nodes")
    /\ nodes' = [d \in DOMAIN nodes \cup DOMAIN loading.nodes |->
                   IF d \in DOMAIN loading.nodes THEN loading.nodes[d] ELSE nodes[d]]
    /\ syncWires' = loading.wires
    /\ loading' = [loading EXCEPT !.step = "hydrated"]
    /\ UNCHANGED <<nodeFile, projectVars>>

\* The sweep that ends load_project.
ReconnectLoaded ==
    /\ loading.step = "hydrated"
    /\ Unlocked("nodes")
    /\ nodes' = Swept(loading.plugged)
    /\ PersistNodes(Default)
    /\ loading' = NotLoading
    /\ UNCHANGED <<syncWires, project>>

SaveNodes ==
    /\ OpenProject("nodes") \/ WriteProject("nodes")
    /\ UNCHANGED nodesVars

\* The process ends, perhaps inside the write of the default store; the new
\* service loads that store and waits for what was online.
Reloaded(n) == IF n.status = "online" /\ ~n.disabled THEN Waiting(n) ELSE n

NodesRestart(cut) ==
    LET known == ~cut /\ nodeFile[Default] # NoFile
        stored == nodeFile[Default].nodes IN
    /\ nodes' = IF known THEN [d \in DOMAIN stored |-> Reloaded(stored[d])] ELSE <<>>
    /\ syncWires' = IF known THEN nodeFile[Default].wires ELSE {}
    /\ nodeFile' = IF known THEN nodeFile ELSE [nodeFile EXCEPT ![Default] = NoFile]
    /\ loading' = NotLoading

\* DiscoveryListener.handle_event: what the event bus brings of a board.
BoardEvent ==
    \/ \E d \in Boards, port \in Ports : BoardReports(d, port)
    \/ \E d \in Boards : BoardLost(d) \/ PinReports(d) \/ Heartbeat(d)

\* The routes under /workspace/hardware.
UserRequest ==
    \/ \E d \in Boards : UserDisconnects(d) \/ UserMoves(d)
    \/ \E plugged \in Plugged : Sweep(plugged) \/ LoadProject(plugged)
    \/ \E d \in Boards, plugged \in Plugged : UserReconnects(d, plugged)

NodesStep == Hydrate \/ ReconnectLoaded \/ SaveNodes

-----------------------------------------------------------------------------
Node == [status : {"online", "waiting", "offline", "error", "connecting"}, disabled : BOOLEAN,
         moved : BOOLEAN, workspace : Workspaces, endpoint : Ports]

IsNodes(f) == DOMAIN f \subseteq Boards /\ \A d \in DOMAIN f : f[d] \in Node

NodesTypeOK ==
    /\ IsNodes(nodes)
    /\ \A ws \in Workspaces : nodeFile[ws] = NoFile \/ IsNodes(nodeFile[ws].nodes)
    /\ loading = NotLoading \/ IsNodes(loading.nodes)

\* What the user decided about a board of the default workspace, that it is
\* off and where it lies, is in the store, although heartbeats change nodes
\* without saving and a loading project brings back old ones: a restart at
\* any moment between the loads does not forget it.
Decided(n) == <<n.disabled, n.moved>>
DecisionsAreStored ==
    loading.step # "hydrated" =>
      \A d \in DOMAIN nodes : nodes[d].workspace = Default =>
        /\ nodeFile[Default] # NoFile
        /\ d \in DOMAIN nodeFile[Default].nodes
        /\ Decided(nodeFile[Default].nodes[d]) = Decided(nodes[d])
==============================================================================
