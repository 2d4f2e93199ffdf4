------------------------------- MODULE Wiring -------------------------------
(***************************************************************************)
(* The wires of the engineering workspace: WireManager with its graph, its *)
(* validator and its stores, and the pin mapper of the hybrid layer that   *)
(* mirrors wires between a physical and a virtual pin.  Requests run in    *)
(* threads of the API process.  The manager has a lock, the pin mapper has *)
(* none, and a request makes its link in the pin mapper before it takes    *)
(* the lock.  Colours, routes, latencies, wire types and the undo history, *)
(* which nothing pops, are left out.                                       *)
(***************************************************************************)
EXTENDS ProjectJson

CONSTANTS EndPoints,     \* ends a request may name: [device, pin, kind, type,
                         \*   supportsInput, supportsOutput, available]
          Asked,         \* the wires that may be asked for: <<source, destination, workspace>>
          WireIds,       \* identifiers uuid4 may draw
          Threads,       \* request threads
          Directions, Statuses,   \* what a PATCH may set
          GroundNames, TxNames, RxNames  \* pin names with GND, TX, RX in them

WireDirections == {"bidirectional", "source_to_dest", "dest_to_source"}
WireStatuses == {"active", "waiting", "invalid", "disabled", "error"}

ASSUME AskedAssumption == Asked \subseteq EndPoints \X EndPoints \X Workspaces
ASSUME PinsAssumption == EndPoints # {} /\ IsFiniteSet(EndPoints)
ASSUME UpdatesAssumption == Directions \subseteq WireDirections /\ Statuses \subseteq WireStatuses

VARIABLES wires,     \* _connections: identifier -> wire
          graph,     \* ConnectionGraph: [ids, adj, edgeIds]
          links,     \* PinMapper._connections: number -> link
          pinState,  \* _pin_state: what was last seen on a pin, or "unset"
          wireFile,  \* the store of each workspace: identifier -> wire
          making,    \* making[t]: the wire a request of thread t is making
          drawn,     \* identifiers drawn so far
          orphans    \* links whose wires or requests an earlier process had

wiringVars == <<wires, graph, links, pinState, wireFile, making, drawn, orphans>>

Key(e) == <<e.device, e.pin>>
Pins == {Key(e) : e \in EndPoints}
NoWire == [step |-> "none"]

-----------------------------------------------------------------------------
(* PinValidator: which wires are refused.                                  *)

PowerTypes == {"POWER", "VCC", "VDD", "3V3", "5V", "VIN"}
GroundTypes == {"GROUND", "GND", "AGND"}
SignalTypes == {"GPIO", "ADC", "DAC", "PWM", "UART", "SPI", "I2C", "CAN", "DIGITAL", "ANALOG"}

IsPower(e) == e.type \in PowerTypes \/ e.pin \in PowerTypes
IsGround(e) == e.type \in GroundTypes \/ e.pin \in GroundTypes \cup GroundNames
IsSignal(e) == e.type \in SignalTypes
IsUartTx(e) == e.type = "UART" /\ e.pin \in TxNames
IsUartRx(e) == e.type = "UART" /\ e.pin \in RxNames
OnlyOutput(e) == e.supportsOutput /\ ~e.supportsInput

Refused(s, d) ==
    \/ Key(s) = Key(d)
    \/ IsSignal(s) /\ IsPower(d)
    \/ IsSignal(d) /\ IsPower(s) /\ ~d.supportsInput
    \/ IsPower(s) /\ IsGround(d)
    \/ IsGround(s) /\ IsPower(d)
    \/ IsUartTx(s) /\ IsUartTx(d)
    \/ IsUartRx(s) /\ IsUartRx(d)
    \/ OnlyOutput(s) /\ OnlyOutput(d) /\ IsSignal(s) /\ IsSignal(d)

-----------------------------------------------------------------------------
(* ConnectionGraph: an undirected multigraph of pins.                      *)

NoGraph == [ids |-> {}, adj |-> [p \in Pins |-> {}], edgeIds |-> [e \in {{p, q} : p, q \in Pins} |-> {}]]

AddEdge(g, id, w) ==
    [ids |-> g.ids \cup {id},
     adj |-> [p \in Pins |-> g.adj[p] \cup (IF p = w.a THEN {w.b} ELSE {})
                                      \cup (IF p = w.b THEN {w.a} ELSE {})],
     edgeIds |-> [g.edgeIds EXCEPT ![{w.a, w.b}] = @ \cup {id}]]

\* Mutant: the first wire to go takes the neighbourhood with it.
StillJoinedNot(g, id, w) == FALSE

\* Two pins stay neighbours while another wire joins them.
StillJoined(g, id, w) == g.edgeIds[{w.a, w.b}] \ {id} # {}

RemoveEdge(g, id, w) ==
    [ids |-> g.ids \ {id},
     adj |-> IF StillJoined(g, id, w) THEN g.adj
             ELSE [p \in Pins |-> g.adj[p] \ ((IF p = w.a THEN {w.b} ELSE {})
                                              \cup (IF p = w.b THEN {w.a} ELSE {}))],
     edgeIds |-> [g.edgeIds EXCEPT ![{w.a, w.b}] = @ \ {id}]]

\* load: all wires of a store, in whatever order.
GraphOf(ws) ==
    [ids |-> DOMAIN ws,
     adj |-> [p \in Pins |-> {ws[id].b : id \in {i \in DOMAIN ws : ws[i].a = p}}
                             \cup {ws[id].a : id \in {i \in DOMAIN ws : ws[i].b = p}}],
     edgeIds |-> [e \in {{p, q} : p, q \in Pins} |-> {id \in DOMAIN ws : {ws[id].a, ws[id].b} = e}]]

\* The breadth-first search of find_connected_components: what is reached
\* from p in n rounds.  trace_signal_path gives up after 32 pins; that limit
\* is left out.
Reached(g, p) ==
    LET round[n \in 0..Cardinality(Pins)] ==
          IF n = 0 THEN {p} ELSE round[n - 1] \cup UNION {g.adj[q] : q \in round[n - 1]}
    IN round[Cardinality(Pins)]

-----------------------------------------------------------------------------
(* Stores.                                                                 *)

WithWire(f, id, w) == [i \in DOMAIN f \cup {id} |-> IF i = id THEN w ELSE f[i]]
WithoutWire(f, id) == [i \in DOMAIN f \ {id} |-> f[i]]

\* Mutant: the store gets what was there before the operation.
PersistWiresEarly(ws) ==
    /\ wireFile' = [wireFile EXCEPT ![ws] = wires]
    /\ ReadForSave("wiring", ws, [Contents EXCEPT !.wires = DOMAIN wires'])

\* _persist(ws): every wire in memory goes to the store of this workspace,
\* and to project.json if that is a project.
PersistWires(ws) ==
    /\ wireFile' = [wireFile EXCEPT ![ws] = wires']
    /\ ReadForSave("wiring", ws, [Contents EXCEPT !.wires = DOMAIN wires'])

-----------------------------------------------------------------------------
WiringInit ==
    /\ wires = <<>>
    /\ graph = NoGraph
    /\ links = <<>>
    /\ pinState = [p \in Pins |-> "unset"]
    /\ wireFile = [ws \in Workspaces |-> <<>>]
    /\ making = [t \in Threads |-> NoWire]
    /\ drawn = {}
    /\ orphans = {}

IsPhysical(e) == e.kind = "physical"
IsVirtual(e) == e.kind \in {"virtual", "simulated"}
\* _split_phys_virt: the two ends of a wire that is mirrored, or nothing.
Mirrored(s, d) == (IsPhysical(s) /\ IsVirtual(d)) \/ (IsPhysical(d) /\ IsVirtual(s))

\* PinConnection.create, with what validation found.
NewWire(s, d, ws) ==
    [a |-> Key(s), b |-> Key(d), direction |-> "bidirectional", workspace |-> ws,
     status |-> IF s.available /\ d.available THEN "active" ELSE "waiting",
     valid |-> ~Refused(s, d), link |-> 0]

\* A request to connect: refused unless the wire is valid or forced.  For a
\* mirrored wire the pin mapper numbers its next link by how many it has.
Connect(t, s, d, ws, force) ==
    /\ making[t] = NoWire
    /\ force \/ ~Refused(s, d)
    /\ making' = [making EXCEPT ![t] =
                    [step |-> IF Mirrored(s, d) THEN "numbered" ELSE "linked",
                     wire |-> NewWire(s, d, ws), number |-> Cardinality(DOMAIN links) + 1]]
    /\ UNCHANGED <<wires, graph, links, pinState, wireFile, drawn, orphans, projectVars>>

\* PinMapper.create_connection, which no lock protects: a number that is
\* taken by now is taken over.
MakeLink(t) ==
    LET m == making[t] IN
    /\ m.step = "numbered"
    /\ links' = WithWire(links, m.number, {m.wire.a, m.wire.b})
    /\ making' = [making EXCEPT ![t] = [m EXCEPT !.step = "linked", !.wire.link = m.number]]
    /\ UNCHANGED <<wires, graph, pinState, wireFile, drawn, orphans, projectVars>>

\* The rest of connect, under the lock.
RecordWire(t) ==
    LET m == making[t] IN
    /\ m.step = "linked"
    /\ Unlocked("wiring")
    /\ \E id \in WireIds \ drawn :
         /\ drawn' = drawn \cup {id}
         /\ wires' = WithWire(wires, id, m.wire)
         /\ graph' = AddEdge(graph, id, m.wire)
    /\ making' = [making EXCEPT ![t] = NoWire]
    /\ PersistWires(m.wire.workspace)
    /\ UNCHANGED <<links, pinState, orphans, project>>

\* Mutant: the link stays.
LinksAll(w) == links

\* The links but that of a wire, which goes by its number, whoever has it by now.
LinksWithout(w) == WithoutWire(links, w.link)

\* disconnect.
Disconnect(id) ==
    /\ Unlocked("wiring")
    /\ id \in DOMAIN wires
    /\ wires' = WithoutWire(wires, id)
    /\ graph' = RemoveEdge(graph, id, wires[id])
    /\ links' = LinksWithout(wires[id])
    /\ PersistWires(wires[id].workspace)
    /\ UNCHANGED <<pinState, making, drawn, orphans, project>>

UpdateConnection(id, direction, status) ==
    /\ Unlocked("wiring")
    /\ id \in DOMAIN wires
    /\ wires' = [wires EXCEPT ![id].direction = direction, ![id].status = status]
    /\ PersistWires(wires[id].workspace)
    /\ UNCHANGED <<graph, links, pinState, making, drawn, orphans, project>>

\* Mutant: a wire conducts as long as it is there.
ConductsAlways(w, p) == TRUE

\* _propagate_signal: the pins a write to p is mirrored to, over the wires
\* the graph has at p.
Conducts(w, p) ==
    /\ w.valid
    /\ w.status = "active"
    /\ w.direction # (IF p = w.a THEN "dest_to_source" ELSE "source_to_dest")

Propagated(p) ==
    LET atPin == {id \in graph.ids : p \in {wires[id].a, wires[id].b} /\ Conducts(wires[id], p)}
    IN {IF wires[id].a = p THEN wires[id].b ELSE wires[id].a : id \in atPin}

\* write_pin, and set_pin_mode to HIGH or LOW: the digital twin follows
\* whether or not the device was there to be written to.
WritePin(p, value) ==
    /\ Unlocked("wiring")
    /\ pinState' = [q \in Pins |-> IF q \in {p} \cup Propagated(p) THEN value ELSE pinState[q]]
    /\ UNCHANGED <<wires, graph, links, wireFile, making, drawn, orphans, projectVars>>

SaveWires ==
    /\ OpenProject("wiring") \/ WriteProject("wiring")
    /\ UNCHANGED wiringVars

\* The process ends, perhaps inside the write of the default store, and a
\* new manager loads that store; the pin mapper loads its own.
WiringRestart(cut) ==
    LET stored == IF cut THEN <<>> ELSE wireFile[Default] IN
    /\ wireFile' = [wireFile EXCEPT ![Default] = stored]
    /\ wires' = stored
    /\ graph' = GraphOf(stored)
    /\ pinState' = [p \in Pins |-> "unset"]
    /\ making' = [t \in Threads |-> NoWire]
    /\ orphans' = DOMAIN links
    /\ UNCHANGED <<links, drawn>>

WiringRequest ==
    \/ \E t \in Threads, w \in Asked, force \in BOOLEAN : Connect(t, w[1], w[2], w[3], force)
    \/ \E id \in WireIds : Disconnect(id)
    \/ \E id \in WireIds, dir \in Directions, st \in Statuses : UpdateConnection(id, dir, st)
    \/ \E p \in Pins, v \in {"LOW", "HIGH"} : WritePin(p, v)

WiringStep ==
    \/ \E t \in Threads : MakeLink(t) \/ RecordWire(t)
    \/ SaveWires

-----------------------------------------------------------------------------
Wire == [a : Pins, b : Pins, direction : WireDirections, workspace : Workspaces,
         status : WireStatuses, valid : BOOLEAN, link : Nat]

IsWires(f) == DOMAIN f \subseteq WireIds /\ \A id \in DOMAIN f : f[id] \in Wire

WiringTypeOK ==
    /\ IsWires(wires)
    /\ graph.ids \subseteq WireIds
    /\ graph.adj \in [Pins -> SUBSET Pins]
    /\ \A n \in DOMAIN links : n \in Nat /\ links[n] \subseteq Pins
    /\ pinState \in [Pins -> {"unset", "LOW", "HIGH"}]
    /\ \A ws \in Workspaces : IsWires(wireFile[ws])
    /\ \A t \in Threads : making[t] = NoWire \/ making[t].wire \in Wire
    /\ drawn \subseteq WireIds

\* The graph the searches run on is the graph of the wires in memory, also
\* where several wires join the same two pins and some of them are taken
\* away: a search from a pin reaches exactly the pins that wires lead to.
Closed(S) == \A id \in DOMAIN wires : wires[id].a \in S <=> wires[id].b \in S
GraphIsTheWires ==
    /\ graph.ids = DOMAIN wires
    /\ \A p \in Pins :
         /\ Closed(Reached(graph, p))
         /\ \A S \in SUBSET Pins : p \in S /\ Closed(S) => Reached(graph, p) \subseteq S

\* A write reaches other pins than its own only over one wire each: one that
\* is there, sound, switched on and not against its direction.
Leads(w, p, q) ==
    /\ w.valid /\ w.status = "active"
    /\ \/ w.a = p /\ w.b = q /\ w.direction # "dest_to_source"
       \/ w.b = p /\ w.a = q /\ w.direction # "source_to_dest"
SignalsFollowWires ==
    [][\E p \in Pins : \A q \in Pins :
         pinState'[q] \notin {pinState[q], "unset"} => q = p \/ \E id \in DOMAIN wires : Leads(wires[id], p, q)]_wiringVars

\* No link of the pin mapper is left behind by the wire it was made for,
\* although links are made without the lock, two requests may get the same
\* number, and a number is given again after a wire is gone.
NoLinkLeftBehind ==
    \A n \in DOMAIN links \ orphans :
      \/ \E id \in DOMAIN wires : wires[id].link = n
      \/ \E t \in Threads : making[t] # NoWire /\ making[t].wire.link = n

\* The wires of the default workspace are in its store as they are in
\* memory, whatever is done to those of a project in between: a restart
\* brings back these wires and no others.  A process that ends while it
\* writes the store leaves it empty, and the next one starts without wires.
OfDefault(f) == {<<id, f[id]>> : id \in {i \in DOMAIN f : f[i].workspace = Default}}
DefaultWiresAreStored == OfDefault(wires) = OfDefault(wireFile[Default])
==============================================================================
