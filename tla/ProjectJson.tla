----------------------------- MODULE ProjectJson -----------------------------
(***************************************************************************)
(* project.json of one project.  Two services of the API process keep      *)
(* their part of it: the wire manager the wires, the workspace sync the    *)
(* nodes.  Each reads the file, changes its part and writes the file in    *)
(* place, under a lock that only its own operations take, so the two may   *)
(* overlap at any step.  A service holds its lock until the file is        *)
(* written, which is why saving[s] also tells whether s is locked.         *)
(***************************************************************************)
EXTENDS Naturals, FiniteSets

CONSTANTS Default,   \* the workspace without a project
          Project    \* the workspace that is a project

Workspaces == {Default, Project}
Services == {"wiring", "nodes"}

VARIABLES project,   \* what project.json holds
          saving     \* saving[s]: how far service s is with writing it

projectVars == <<project, saving>>

NoFile == [kind |-> "none"]
\* Emptied by open("w"), or two texts over one another: no JSON.
Cut == [kind |-> "cut"]
Whole(nodes, wires) == [kind |-> "whole", nodes |-> nodes, wires |-> wires]

NotSaving == [phase |-> "idle"]
Saving(phase, content) == [phase |-> phase, content |-> content, spoiled |-> FALSE]
Unlocked(s) == saving[s] = NotSaving

\* What a service starts from: a file that is missing or no JSON is an empty one.
Contents == IF project.kind = "whole" THEN project ELSE Whole(<<>>, {})

ProjectInit == project = NoFile /\ saving = [s \in Services |-> NotSaving]

\* The operation of s has read the file and holds what it will write; a
\* workspace that is no project has no such file.
ReadForSave(s, ws, content) ==
    saving' = IF ws = Default THEN saving ELSE [saving EXCEPT ![s] = Saving("read", content)]

\* write_text opens the file, which empties it...
OpenProject(s) ==
    /\ saving[s].phase = "read"
    /\ saving' = [saving EXCEPT ![s].phase = "open"]
    /\ project' = Cut

\* ... and writes at its start.  What the other service wrote since then may
\* be longer, and its end stays behind.
WriteProject(s) ==
    /\ saving[s].phase = "open"
    /\ project' \in {saving[s].content} \cup (IF saving[s].spoiled THEN {Cut} ELSE {})
    /\ saving' = [r \in Services |->
                    IF r = s THEN NotSaving
                    ELSE IF saving[r].phase = "open" THEN [saving[r] EXCEPT !.spoiled = TRUE]
                    ELSE saving[r]]
==============================================================================
