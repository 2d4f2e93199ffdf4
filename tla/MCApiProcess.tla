---------------------------- MODULE MCApiProcess ----------------------------
EXTENDS ApiProcess

\* Each board answers with an id of its own; an id made up is the port.
MCIdOf == [b \in Firmware |-> b]
MCMadeUp == [p \in Ports |-> p]

\* Port changes, requests to connect, failed listings, events, and sockets
\* that connect or leave.
Bound(p, r, f, e, s) == [ports |-> p, requests |-> r, failures |-> f, events |-> e, sockets |-> s]

MCBudgets == {Bound(3, 1, 0, 0, 0), Bound(2, 1, 1, 0, 0), Bound(0, 0, 0, 3, 1), Bound(0, 0, 0, 1, 4)}
==============================================================================
