------------------------------- MODULE Canvas -------------------------------
(***************************************************************************)
(* The canvas of one engineering workspace: LabWorkspaceService with its   *)
(* undo history and its session file.  The service has no lock; requests   *)
(* are taken one at a time here.  Of a part the model keeps whether its    *)
(* position is two numbers, which nothing checks, whether anything else    *)
(* was set on it and whether it has reported; colours, logs, samples and   *)
(* clocks are left out, and so is an empty position, which a restart       *)
(* replaces by zeros.                                                      *)
(***************************************************************************)
EXTENDS Naturals, Sequences, FiniteSets

CONSTANTS NodeIds, EdgeIds,  \* identifiers uuid4 may draw
          Components,        \* the catalogue
          Clashing,          \* pairs of components, the first at 5 V, the second for 3.3 V
          HistoryLimit       \* HistoryStack._limit

ASSUME LimitAssumption == HistoryLimit \in Nat

VARIABLES canvas,   \* the workspace: [status, parts, edges], or NoCanvas
          undo,     \* HistoryStack._undo, the oldest first
          redo,     \* HistoryStack._redo
          session,  \* the session file: what canvas was, NoCanvas or TornSession
          used,     \* identifiers drawn so far
          unsaved   \* those a request that raised left on the canvas since the last save

canvasVars == <<canvas, undo, redo, session, used, unsaved>>

NoCanvas == [status |-> "none"]
TornSession == [status |-> "torn"]

\* validate_wire treats every protocol but ground alike here.
Protocols == {"ground", "other"}

-----------------------------------------------------------------------------
(* Models.                                                                 *)

NewPart(component, placed) == [component |-> component, placed |-> placed, patched |-> FALSE, reported |-> FALSE]

\* validate_wire: no wire without its two parts, from 5 V into 3.3 V (no
\* ground wire starts at a pin named for 5 V here), or
\* from a pin to itself; anything else it finds is a warning.
Sound(parts, source, target, protocol, samePin) ==
    /\ {source, target} \subseteq DOMAIN parts
    /\ protocol = "ground" \/ <<parts[source].component, parts[target].component>> \notin Clashing
    /\ ~(samePin /\ source = target)

Without(f, ids) == [i \in DOMAIN f \ ids |-> f[i]]
With(f, i, x) == [j \in DOMAIN f \cup {i} |-> IF j = i THEN x ELSE f[j]]

\* Mutant: the wires of a part that is deleted stay.
EdgesAll(edges, ids) == edges

\* delete_nodes takes the wires at a part along.
EdgesClearOf(edges, ids) == Without(edges, {i \in DOMAIN edges : {edges[i].source, edges[i].target} \cap ids # {}})

-----------------------------------------------------------------------------
(* History and session file.                                               *)

Front(stack) == SubSeq(stack, 1, Len(stack) - 1)
Last(stack) == stack[Len(stack)]

Snapshot == [parts |-> canvas.parts, edges |-> canvas.edges]

\* HistoryStack.push drops the oldest entry beyond the limit.
Push(stack, s) ==
    LET longer == Append(stack, s) IN IF Len(longer) > HistoryLimit THEN Tail(longer) ELSE longer

Recorded == undo' = Push(undo, Snapshot) /\ redo' = <<>>

Persisted == session' = canvas' /\ unsaved' = {}
NotPersisted == UNCHANGED <<session, unsaved>>

\* Mutant: what undo and redo bring back is not saved.
RestoreUnsaved(s) == canvas' = [canvas EXCEPT !.parts = s.parts, !.edges = s.edges] /\ NotPersisted

\* _restore_snapshot, which saves.
Restore(s) ==
    /\ canvas' = [canvas EXCEPT !.parts = s.parts, !.edges = s.edges]
    /\ Persisted

-----------------------------------------------------------------------------
CanvasInit == canvas = NoCanvas /\ undo = <<>> /\ redo = <<>> /\ session = NoCanvas /\ used = {} /\ unsaved = {}

Exists == canvas # NoCanvas

CreateCanvas ==
    /\ ~Exists
    /\ canvas' = [status |-> "created", parts |-> <<>>, edges |-> <<>>]
    /\ Persisted
    /\ undo' = <<>> /\ redo' = <<>>
    /\ UNCHANGED used

AddNode(component, placed) ==
    /\ Exists
    /\ Recorded
    /\ \E id \in NodeIds \ used :
         /\ used' = used \cup {id}
         /\ canvas' = [canvas EXCEPT !.parts = With(@, id, NewPart(component, placed))]
    /\ Persisted

\* A component that is not in the catalogue, or a mode that is none: by then
\* the history has been pushed.
AddNodeRefused ==
    /\ Exists
    /\ Recorded
    /\ NotPersisted
    /\ UNCHANGED <<canvas, used>>

\* A new position and a new mode, label or property.
UpdateNode(id, placed) ==
    /\ Exists /\ id \in DOMAIN canvas.parts
    /\ Recorded
    /\ canvas' = [canvas EXCEPT !.parts[id].placed = placed, !.parts[id].patched = TRUE]
    /\ Persisted
    /\ UNCHANGED used

\* A mode that is none is found after the position was set, and nothing is saved.
UpdateNodeRefused(id, placed) ==
    /\ Exists /\ id \in DOMAIN canvas.parts
    /\ Recorded
    /\ canvas' = [canvas EXCEPT !.parts[id].placed = placed]
    /\ NotPersisted
    /\ UNCHANGED used

DeleteNodes(ids) ==
    /\ Exists
    /\ Recorded
    /\ canvas' = [canvas EXCEPT !.parts = Without(@, ids), !.edges = EdgesClearOf(@, ids)]
    /\ Persisted
    /\ UNCHANGED used

Placed(ids) == {i \in ids : canvas.parts[i].placed}

\* A copy of each of these parts, without the wires.
Copied(ids, copy) ==
    /\ used' = used \cup {copy[i] : i \in ids}
    /\ canvas' = [canvas EXCEPT !.parts =
         [j \in DOMAIN @ \cup {copy[i] : i \in ids} |->
            IF j \in DOMAIN @ THEN @[j]
            ELSE [@[CHOOSE i \in ids : copy[i] = j] EXCEPT !.reported = FALSE]]]

Copies(ids) == {f \in [ids -> NodeIds \ used] : \A i, j \in ids : f[i] = f[j] => i = j}

\* Those that are there, each 40 to the right and below.
DuplicateNodes(ids) ==
    LET there == ids \cap DOMAIN canvas.parts IN
    /\ Exists
    /\ Recorded
    /\ Placed(there) = there
    /\ \E copy \in Copies(there) : Copied(there, copy)
    /\ Persisted

\* One without numbers raises, and whatever was copied before it stays.
DuplicateNodesRefused(ids) ==
    LET there == ids \cap DOMAIN canvas.parts IN
    /\ Exists
    /\ Recorded
    /\ Placed(there) # there
    /\ \E before \in SUBSET Placed(there) : \E copy \in Copies(before) :
         /\ Copied(before, copy)
         /\ unsaved' = unsaved \cup {copy[i] : i \in before}
    /\ UNCHANGED session

WireAdded(id, source, target, protocol, samePin) ==
    /\ used' = used \cup {id}
    /\ canvas' = [canvas EXCEPT !.edges =
         With(@, id, [source |-> source, target |-> target,
                      valid |-> Sound(canvas.parts, source, target, protocol, samePin)])]

\* A wire is kept whether or not it is sound.
AddWire(source, target, protocol, samePin) ==
    /\ Exists
    /\ Recorded
    /\ \E id \in EdgeIds \ used : WireAdded(id, source, target, protocol, samePin)
    /\ Persisted

\* It was kept before auto_route_points adds the two x, which raises when one
\* of them is no number; an absent one counts as zero.
AddWireRefused(source, target, protocol, samePin) ==
    LET ends == {source, target} \cap DOMAIN canvas.parts IN
    /\ Exists
    /\ Recorded
    /\ Placed(ends) # ends
    /\ \E id \in EdgeIds \ used :
         WireAdded(id, source, target, protocol, samePin) /\ unsaved' = unsaved \cup {id}
    /\ UNCHANGED session

DeleteWires(ids) ==
    /\ Exists
    /\ Recorded
    /\ canvas' = [canvas EXCEPT !.edges = Without(@, ids)]
    /\ Persisted
    /\ UNCHANGED used

\* With nothing to take back the workspace stays as it is.
UndoCanvas ==
    /\ Exists /\ undo # <<>>
    /\ undo' = Front(undo)
    /\ redo' = Append(redo, Snapshot)
    /\ Restore(Last(undo))
    /\ UNCHANGED used

RedoCanvas ==
    /\ Exists /\ redo # <<>>
    /\ redo' = Front(redo)
    /\ undo' = Append(undo, Snapshot)
    /\ Restore(Last(redo))
    /\ UNCHANGED used

\* connect, disconnect, run and pause change the status alone.
SetStatus(status) ==
    /\ Exists
    /\ canvas' = [canvas EXCEPT !.status = status]
    /\ Persisted
    /\ UNCHANGED <<undo, redo, used>>

Connected == SetStatus("connected")
Disconnected == SetStatus(IF canvas.status = "running" THEN "paused" ELSE "stopped")
RunCanvas == SetStatus("running")
PauseCanvas == SetStatus("paused")

\* A speed that is none is found after the status was set, and nothing is saved.
RunRefused ==
    /\ Exists
    /\ canvas' = [canvas EXCEPT !.status = "running"]
    /\ NotPersisted
    /\ UNCHANGED <<undo, redo, used>>

AllReported(reported) == [i \in DOMAIN canvas.parts |-> [canvas.parts[i] EXCEPT !.reported = reported]]

\* Neither a step nor a reset can be taken back.
ResetCanvas ==
    /\ Exists
    /\ canvas' = [canvas EXCEPT !.status = "connected", !.parts = AllReported(FALSE)]
    /\ Persisted
    /\ UNCHANGED <<undo, redo, used>>

StepCanvas ==
    /\ canvas.status \in {"running", "paused", "connected"}
    /\ canvas' = [canvas EXCEPT !.status = IF @ = "connected" THEN "running" ELSE @, !.parts = AllReported(TRUE)]
    /\ Persisted
    /\ UNCHANGED <<undo, redo, used>>

\* A new service reads the session files, one perhaps cut short by the kill:
\* that one raises, and the service, with the API around it, does not start.
CanvasRestart(torn) ==
    /\ session' = IF torn /\ session # NoCanvas THEN TornSession ELSE session
    /\ canvas' = IF session' = TornSession THEN NoCanvas ELSE session
    /\ undo' = <<>> /\ redo' = <<>> /\ unsaved' = {}
    /\ UNCHANGED used

CanvasRequest ==
    \/ CreateCanvas \/ AddNodeRefused \/ UndoCanvas \/ RedoCanvas
    \/ \E c \in Components, placed \in BOOLEAN : AddNode(c, placed)
    \/ \E id \in NodeIds, placed \in BOOLEAN : UpdateNode(id, placed) \/ UpdateNodeRefused(id, placed)
    \/ \E ids \in SUBSET NodeIds : DeleteNodes(ids) \/ DuplicateNodes(ids) \/ DuplicateNodesRefused(ids)
    \/ \E s, d \in NodeIds, protocol \in Protocols, samePin \in BOOLEAN :
         AddWire(s, d, protocol, samePin) \/ AddWireRefused(s, d, protocol, samePin)
    \/ \E ids \in SUBSET EdgeIds : DeleteWires(ids)
    \/ Connected \/ Disconnected \/ RunCanvas \/ PauseCanvas \/ RunRefused
    \/ ResetCanvas \/ StepCanvas

-----------------------------------------------------------------------------
Parts == [component : Components, placed : BOOLEAN, patched : BOOLEAN, reported : BOOLEAN]
Edges == [source : NodeIds, target : NodeIds, valid : BOOLEAN]
CanvasStatuses == {"created", "connected", "running", "paused", "stopped"}

IsPicture(s) ==
    /\ DOMAIN s.parts \subseteq used \cap NodeIds /\ \A i \in DOMAIN s.parts : s.parts[i] \in Parts
    /\ DOMAIN s.edges \subseteq used \cap EdgeIds /\ \A i \in DOMAIN s.edges : s.edges[i] \in Edges

CanvasTypeOK ==
    /\ used \subseteq NodeIds \cup EdgeIds /\ unsaved \subseteq used
    /\ canvas = NoCanvas \/ (canvas.status \in CanvasStatuses /\ IsPicture(canvas))
    /\ \A i \in DOMAIN undo : IsPicture(undo[i])
    /\ \A i \in DOMAIN redo : IsPicture(redo[i])

\* A wire shown as sound ends at two parts of the canvas, whatever was
\* deleted, copied, taken back, redone or read from the session file since
\* the wire was drawn.
Joined(s) == \A i \in DOMAIN s.edges : s.edges[i].valid => {s.edges[i].source, s.edges[i].target} \subseteq DOMAIN s.parts
SoundWiresEndAtParts == Exists => Joined(canvas)

\* The session file has the parts, what was set on them and the wires that
\* every request that succeeded left behind, and no more: it lags behind the
\* workspace in the positions, copies and wires of requests that raised on the
\* way and in the status of a refused run, until the next request that saves.
Drawn(c, but) ==
    [edges |-> Without(c.edges, but),
     parts |-> [i \in DOMAIN c.parts \ but |-> [c.parts[i] EXCEPT !.placed = TRUE]]]
SessionIsWhatWasDone ==
    Exists => session \notin {NoCanvas, TornSession} /\ Drawn(session, {}) = Drawn(canvas, unsaved)

\* The history never holds more than its limit, although undo and redo move
\* entries between the two stacks without looking at it.
HistoryIsBounded == Len(undo) + Len(redo) <= HistoryLimit
==============================================================================
