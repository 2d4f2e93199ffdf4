------------------------------ MODULE Discovery ------------------------------
(***************************************************************************)
(* HardwareDiscoveryService with the device manager it registers boards    *)
(* at.  Scan passes, from the loop or from a request, run one at a time    *)
(* under the lock of the service; the request to connect a port probes it  *)
(* without the lock.  Boards are plugged in and out, and other programs    *)
(* open ports, at any moment.                                              *)
(*                                                                         *)
(* Discovery tells the dashboard of what it finds with an argument too     *)
(* many, a TypeError that ends the pass or the request: nothing is ever    *)
(* published, and a pass that found something new does not come to its     *)
(* end, where the list of devices is pushed.  Labels, VID and PID, times,  *)
(* the firmware and the event bus, which nobody here listens to, are left  *)
(* out.                                                                    *)
(***************************************************************************)
EXTENDS Integers, FiniteSets

CONSTANTS Ports,      \* serial ports
          Boards,     \* boards
          Firmware,   \* those that speak HHIP
          IdOf,       \* board -> the device_id it reports
          Nothing,    \* what is plugged into an empty port, the id of no board
          MadeUp      \* port -> the id made up for a board on it

ASSUME DiscoveryAssumption ==
    /\ Firmware \subseteq Boards
    /\ Nothing \notin Boards

VARIABLES plugged,    \* port -> board
          held,       \* ports another program has open
          devices,    \* _devices: port -> what is shown of it
          registered, \* the ids the device manager knows
          scan,       \* the scan pass under way
          probe,      \* thread -> its _probe_device
          pushed      \* the ports that /ws/discovery was last told to be in use

portVars == <<plugged, held>>
discoveryVars == <<portVars, devices, registered, scan, probe, pushed>>

AtRest == [step |-> "rest"]

Threads == {"scan", "request"}

Show(p, d) == devices' = [q \in DOMAIN devices \cup {p} |-> IF q = p THEN d ELSE devices[q]]

Id(p) == devices[p].id

Ids(p) == {IdOf[b] : b \in Firmware} \cup {MadeUp[p]}

\* The ids of all ports, and none.
AnyId == (UNION {Ids(p) : p \in Ports}) \cup {Nothing}

-----------------------------------------------------------------------------
(* perform_handshake.                                                      *)

Greetings == {"HELLO", "HELLO_ACK"}

\* What a board may be heard to say first while discovery listens, and after
\* discovery has said HELLO.  Other messages of a board that has been
\* running count as no answer.
Heard(b) == IF b \in Firmware THEN Greetings \cup {"other", "nothing"} ELSE {"other", "nothing"}

\* A greeting in either of the two windows will do.
Answers(boot, reply) == boot \in Greetings \/ reply \in Greetings

-----------------------------------------------------------------------------
DiscoveryInit ==
    /\ plugged = [p \in Ports |-> Nothing]
    /\ held = {}
    /\ devices = <<>>
    /\ registered = {}
    /\ scan = AtRest
    /\ probe = [t \in Threads |-> AtRest]
    /\ pushed = {}

(* _probe_device, by the scan or by a request.                             *)

BeginProbe(t) ==
    LET p == probe[t].port IN
    /\ probe[t].step = "begin"
    /\ Show(p, [devices[p] EXCEPT !.status = "connecting"])
    /\ probe' = [probe EXCEPT ![t] = [step |-> "open", port |-> p]]
    /\ UNCHANGED <<portVars, registered, scan, pushed>>

\* connect: another program may have the port, or nothing is there any more.
OpenPort(t) ==
    LET p == probe[t].port IN
    /\ probe[t].step = "open"
    /\ \/ /\ p \notin held
          /\ plugged[p] # Nothing
          /\ probe' = [probe EXCEPT ![t] = [step |-> "greet", port |-> p]]
          /\ UNCHANGED devices
       \/ /\ p \in held
          /\ Show(p, [devices[p] EXCEPT !.status = "busy"])
          /\ probe' = [probe EXCEPT ![t] = AtRest]
       \/ /\ p \notin held
          /\ plugged[p] = Nothing
          /\ Show(p, [devices[p] EXCEPT !.status = "error"])
          /\ probe' = [probe EXCEPT ![t] = AtRest]
    /\ UNCHANGED <<portVars, registered, scan, pushed>>

\* A board without an answer is shown as connected too, and announced.
Greet(t) ==
    LET p == probe[t].port IN
    /\ probe[t].step = "greet"
    /\ Show(p, [devices[p] EXCEPT !.status = "connected"])
    /\ \E boot, reply \in Heard(plugged[p]) :
         probe' = [probe EXCEPT ![t] =
           IF Answers(boot, reply) THEN [step |-> "identify", port |-> p, id |-> IdOf[plugged[p]]]
                                   ELSE [step |-> "announce", port |-> p]]
    /\ UNCHANGED <<portVars, registered, scan, pushed>>

TakeId(t) ==
    LET p == probe[t].port IN
    /\ probe[t].step = "identify"
    /\ Show(p, [devices[p] EXCEPT !.id = probe[t].id])
    /\ probe' = [probe EXCEPT ![t] = [step |-> "make up", port |-> p]]
    /\ UNCHANGED <<portVars, registered, scan, pushed>>

(* _register_physical reads the id twice; a scan may take it away before   *)
(* either.                                                                 *)

\* Mutant: the id is made up of something else than the port.
MakeUpOneId(t) ==
    LET p == probe[t].port IN
    /\ probe[t].step = "make up"
    /\ \/ Id(p) = Nothing /\ Show(p, [devices[p] EXCEPT !.id = MadeUp[CHOOSE q \in Ports : TRUE]])
       \/ Id(p) # Nothing /\ UNCHANGED devices
    /\ probe' = [probe EXCEPT ![t] = [step |-> "register", port |-> p]]
    /\ UNCHANGED <<portVars, registered, scan, pushed>>

MakeUpId(t) ==
    LET p == probe[t].port IN
    /\ probe[t].step = "make up"
    /\ \/ Id(p) = Nothing /\ Show(p, [devices[p] EXCEPT !.id = MadeUp[p]])
       \/ Id(p) # Nothing /\ UNCHANGED devices
    /\ probe' = [probe EXCEPT ![t] = [step |-> "register", port |-> p]]
    /\ UNCHANGED <<portVars, registered, scan, pushed>>

\* What is registered may be no id at all.
ReadId(t) ==
    LET p == probe[t].port IN
    /\ probe[t].step = "register"
    /\ probe' = [probe EXCEPT ![t] = [step |-> "store", port |-> p, id |-> Id(p)]]
    /\ UNCHANGED <<portVars, devices, registered, scan, pushed>>

StoreDevice(t) ==
    /\ probe[t].step = "store"
    /\ registered' = registered \cup {probe[t].id}
    /\ probe' = [probe EXCEPT ![t] = [step |-> "announce", port |-> probe[t].port]]
    /\ UNCHANGED <<portVars, devices, scan, pushed>>

\* _publish_connected raises: the request ends, or the pass with what is left
\* of its ports.
Announce(t) ==
    /\ probe[t].step = "announce"
    /\ probe' = [probe EXCEPT ![t] = AtRest]
    /\ scan' = IF t = "scan" THEN AtRest ELSE scan
    /\ UNCHANGED <<portVars, devices, registered, pushed>>

ProbeStep(t) ==
    \/ BeginProbe(t) \/ OpenPort(t) \/ Greet(t) \/ TakeId(t)
    \/ MakeUpId(t) \/ ReadId(t) \/ StoreDevice(t) \/ Announce(t)

-----------------------------------------------------------------------------
(* _scan_locked.                                                           *)

Listed == {p \in Ports : plugged[p] # Nothing}

Pass(seen) == [step |-> "ports", seen |-> seen, todo |-> seen]

BeginScan ==
    /\ scan = AtRest
    /\ scan' = Pass(Listed)
    /\ UNCHANGED <<portVars, devices, registered, probe, pushed>>

\* Should listing the ports fail, none is there.
BeginBlindScan ==
    /\ scan = AtRest
    /\ scan' = Pass({})
    /\ UNCHANGED <<portVars, devices, registered, probe, pushed>>

NewDevice == [status |-> "connecting", id |-> Nothing]

\* Mutant: a port that is known is never probed again.
NeedsProbeOnce(p) == p \notin DOMAIN devices

\* Only a port that is new, or was shown as empty, is probed.
NeedsProbe(p) == p \in DOMAIN devices => devices[p].status = "disconnected"

\* A port waits for the probe of the one before it.
ScanPort(p) ==
    /\ scan.step = "ports"
    /\ p \in scan.todo
    /\ probe["scan"] = AtRest
    /\ scan' = [scan EXCEPT !.todo = @ \ {p}]
    /\ \/ /\ NeedsProbe(p)
          /\ Show(p, IF p \in DOMAIN devices THEN [devices[p] EXCEPT !.status = "connecting"] ELSE NewDevice)
          /\ probe' = [probe EXCEPT !["scan"] = [step |-> "open", port |-> p]]
       \/ ~NeedsProbe(p) /\ UNCHANGED <<devices, probe>>
    /\ UNCHANGED <<portVars, registered, pushed>>

PortsAreDone == scan.step = "ports" /\ scan.todo = {} /\ probe["scan"] = AtRest

Gone == {p \in DOMAIN devices \ scan.seen : devices[p].status # "disconnected"}

(* _mark_disconnected.                                                     *)

MarkGone(p) ==
    /\ PortsAreDone
    /\ p \in Gone
    /\ scan' = [step |-> "marked", port |-> p, id |-> Id(p)]
    /\ Show(p, [devices[p] EXCEPT !.status = "disconnected"])
    /\ UNCHANGED <<portVars, registered, probe, pushed>>

\* The board is unregistered under the id that was shown of it.
Unregister ==
    /\ scan.step = "marked"
    /\ registered' = registered \ ({scan.id} \ {Nothing})
    /\ scan' = [step |-> "unregistered", port |-> scan.port]
    /\ UNCHANGED <<portVars, devices, probe, pushed>>

\* _publish_disconnected raises then, and ends the pass.
ForgetId ==
    /\ scan.step = "unregistered"
    /\ Show(scan.port, [devices[scan.port] EXCEPT !.id = Nothing])
    /\ scan' = AtRest
    /\ UNCHANGED <<portVars, registered, probe, pushed>>

\* The ports shown as in use.
InUse == {p \in DOMAIN devices : devices[p].status # "disconnected"}

EndScan ==
    /\ PortsAreDone
    /\ Gone = {}
    /\ scan' = AtRest
    /\ pushed' = InUse
    /\ UNCHANGED <<portVars, devices, registered, probe>>

ScanStep == EndScan \/ Unregister \/ ForgetId \/ \E p \in Ports : ScanPort(p) \/ MarkGone(p)

\* POST /discovery/devices/{port}/connect: the port is looked up under the
\* lock, which a scan holds, and probed without it.
RequestConnect(p) ==
    /\ scan = AtRest
    /\ p \in DOMAIN devices
    /\ probe["request"] = AtRest
    /\ probe' = [probe EXCEPT !["request"] = [step |-> "begin", port |-> p]]
    /\ UNCHANGED <<portVars, devices, registered, scan, pushed>>

-----------------------------------------------------------------------------
(* Boards come and go, other programs open and close ports.                *)
PortChanges ==
    /\ \E p \in Ports :
         \/ /\ plugged[p] = Nothing
            /\ \E b \in Boards : /\ \A q \in Ports : plugged[q] # b
                                 /\ plugged' = [plugged EXCEPT ![p] = b]
            /\ UNCHANGED held
         \/ plugged[p] # Nothing /\ plugged' = [plugged EXCEPT ![p] = Nothing] /\ held' = held \ {p}
         \/ plugged[p] # Nothing /\ p \notin held /\ held' = held \cup {p} /\ UNCHANGED plugged
         \/ p \in held /\ held' = held \ {p} /\ UNCHANGED plugged
    /\ UNCHANGED <<devices, registered, scan, probe, pushed>>

DiscoveryNext ==
    \/ PortChanges
    \/ BeginScan \/ BeginBlindScan \/ ScanStep
    \/ \E p \in Ports : RequestConnect(p)
    \/ \E t \in Threads : ProbeStep(t)

DiscoverySpec == DiscoveryInit /\ [][DiscoveryNext]_discoveryVars

-----------------------------------------------------------------------------
Shown(p) ==
    [status : {"connecting", "connected", "busy", "error", "disconnected"}, id : Ids(p) \cup {Nothing}]

\* A probe of a port that is shown, some with the id they are about to show or
\* to register, which may be none.
Probe ==
    {AtRest} \cup [step : {"begin", "open", "greet", "make up", "register", "announce"}, port : DOMAIN devices]
             \cup {pr \in [step : {"identify", "store"}, port : DOMAIN devices, id : AnyId] :
                     pr.id \in Ids(pr.port) \/ (pr.step = "store" /\ pr.id = Nothing)}

ScanPass ==
    {AtRest} \cup [step : {"ports"}, seen : SUBSET Ports, todo : SUBSET Ports]
             \cup [step : {"marked"}, port : DOMAIN devices, id : AnyId]
             \cup [step : {"unregistered"}, port : DOMAIN devices]

\* Every variable has its type: what is shown of a port and what the device
\* manager knows are ids that a board reported or that were made up for that
\* port, or none, and no program has an empty port open.
DiscoveryTypeOK ==
    /\ plugged \in [Ports -> Boards \cup {Nothing}]
    /\ held \subseteq Listed
    /\ DOMAIN devices \subseteq Ports
    /\ \A p \in DOMAIN devices : devices[p] \in Shown(p)
    /\ registered \subseteq AnyId
    /\ probe \in [Threads -> Probe]
    /\ scan \in ScanPass
    /\ pushed \subseteq Ports

\* When ports are left alone, what is shown and what was last pushed come to
\* be what is plugged in, although every pass that finds something new ends
\* early, whatever was swapped during a pass, a request may write the outcome
\* of its probe over what the scan has found, and a failed listing has shown
\* every port as empty.
ShownComesTrue == <>[](InUse = Listed /\ pushed = Listed)
==============================================================================
