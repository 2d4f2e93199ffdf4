------------------------------ MODULE Workspace ------------------------------
(***************************************************************************)
(* The wires, the boards and the canvas of the engineering workspace in    *)
(* one API process: two services with a lock each and project.json between *)
(* them, and a third whose session files decide whether the process starts.*)
(***************************************************************************)
EXTENDS Wiring, HardwareNodes, Canvas

CONSTANT Budgets   \* bound: how many requests and board events of each service

VARIABLE left   \* how many are left

workspaceVars == <<wiringVars, nodesVars, projectVars, canvasVars, left>>

WorkspaceInit == WiringInit /\ NodesInit /\ ProjectInit /\ CanvasInit /\ left \in Budgets

Spend(s) == left[s] > 0 /\ left' = [left EXCEPT ![s] = @ - 1]

\* The application makes its services as it starts.
Started == session # TornSession

Request ==
    /\ Started
    /\ \/ Spend("wiring") /\ WiringRequest /\ UNCHANGED <<nodesVars, canvasVars>>
       \/ Spend("nodes") /\ (BoardEvent \/ UserRequest) /\ UNCHANGED <<wiringVars, canvasVars>>
       \/ Spend("canvas") /\ CanvasRequest /\ UNCHANGED <<wiringVars, nodesVars, projectVars>>

Step ==
    /\ UNCHANGED <<canvasVars, left>>
    /\ \/ WiringStep /\ UNCHANGED nodesVars
       \/ NodesStep /\ UNCHANGED wiringVars

\* A kill: project.json stays as it is, emptied if a service had it open.
Restart ==
    /\ Started
    /\ Spend("restarts")
    /\ \E cutWires, cutNodes, torn \in BOOLEAN :
         WiringRestart(cutWires) /\ NodesRestart(cutNodes) /\ CanvasRestart(torn)
    /\ saving' = [s \in Services |-> NotSaving]
    /\ UNCHANGED project

WorkspaceNext == Request \/ Step \/ Restart

WorkspaceSpec == WorkspaceInit /\ [][WorkspaceNext]_workspaceVars

WorkspaceTypeOK == WiringTypeOK /\ NodesTypeOK /\ CanvasTypeOK
==============================================================================
