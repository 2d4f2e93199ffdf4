---------------------------- MODULE MCWorkspace ----------------------------
EXTENDS Workspace, TLC

EndPoint(d, p, k, t, in, out, there) ==
    [device |-> d, pin |-> p, kind |-> k, type |-> t, supportsInput |-> in, supportsOutput |-> out,
     available |-> there]

\* A pin of a board, the input of a simulated part, and a power pin of a
\* board that is not there.
D2 == EndPoint("esp", "D2", "physical", "GPIO", TRUE, TRUE, TRUE)
In == EndPoint("led", "IN", "virtual", "GPIO", TRUE, FALSE, TRUE)
Rail == EndPoint("esp", "5V", "physical", "POWER", FALSE, TRUE, FALSE)
MCEndPoints == {D2, In, Rail}

\* Two wires that join the same pins in two workspaces, one that is refused
\* unless forced, and one more that is mirrored.
MCAsked == {<<D2, In, Default>>, <<In, D2, Project>>, <<Rail, D2, Default>>, <<In, Rail, Default>>}

MCClashing == {<<"five", "three">>}

Bound(w, n, c, r) == [wiring |-> w, nodes |-> n, canvas |-> c, restarts |-> r]
MCBudgets == {Bound(4, 0, 0, 1), Bound(0, 4, 0, 1), Bound(2, 2, 0, 0), Bound(0, 0, 6, 0), Bound(0, 0, 4, 1)}

\* The canvas draws the names the wires and threads have: it shares no state
\* with them, and TLC has fewer permutations to try.
Symmetric ==
    UNION {Permutations(S) : S \in {WireIds, Threads}}
==============================================================================
