------------------------ MODULE CorrectionLifecycle ------------------------
(***************************************************************************)
(* What the physical-correction component promises the rest of the engine, *)
(* stated without hosts, wires, retries or files.  A correction is asked   *)
(* for once; the device may carry it out; it is settled once, as           *)
(* completed, failed or rolled back; and a settled outcome is never        *)
(* revised, whatever crashes and restarts happen in between.               *)
(*                                                                         *)
(* It is the reading of VALID_TRANSACTION_TRANSITIONS                      *)
(* (engine/synchronization/transactions/state.py) that a caller of         *)
(* PhysicalCorrectionBridge can rely on.  CorrectionProtocol implements    *)
(* it: the phase of a transaction is what its journalled state says.       *)
(***************************************************************************)
CONSTANT Txns           \* transaction ids (uuids: never reused)

VARIABLES
  phase,                \* Txns -> Phases: how far each correction has got
  carriedOut            \* Txns -> BOOLEAN: the device has moved its clock for it

vars == <<phase, carriedOut>>

Settled == {"completed", "failed", "rolledBack"}
Phases  == {"idle", "pending"} \cup Settled

TypeOK ==
  /\ phase \in [Txns -> Phases]
  /\ carriedOut \in [Txns -> BOOLEAN]

Init ==
  /\ phase = [t \in Txns |-> "idle"]
  /\ carriedOut = [t \in Txns |-> FALSE]

\* A correction is asked for.
Ask(t) ==
  /\ phase[t] = "idle"
  /\ phase' = [phase EXCEPT ![t] = "pending"]
  /\ UNCHANGED carriedOut

\* The device carries it out: possibly after the host has given up on it.
CarryOut(t) ==
  /\ phase[t] # "idle"
  /\ carriedOut' = [carriedOut EXCEPT ![t] = TRUE]
  /\ UNCHANGED phase

\* The host gives up on it; whether the device carried it out is unknown.
GiveUp(t) ==
  /\ phase[t] \in {"idle", "pending"}
  /\ phase' = [phase EXCEPT ![t] = "failed"]
  /\ UNCHANGED carriedOut

\* The host settles a correction the device has carried out.
Judge(t) ==
  /\ phase[t] = "pending"
  /\ carriedOut[t]
  /\ \E outcome \in Settled : phase' = [phase EXCEPT ![t] = outcome]
  /\ UNCHANGED carriedOut

\* Against a simulated device the whole life of a correction is one call.
RunSimulated(t) ==
  /\ phase[t] = "idle"
  /\ \E outcome \in Settled \cup {"pending"} :
       phase' = [phase EXCEPT ![t] = outcome]
  /\ carriedOut' = [carriedOut EXCEPT ![t] = TRUE]

Next == \E t \in Txns :
          Ask(t) \/ CarryOut(t) \/ GiveUp(t) \/ Judge(t) \/ RunSimulated(t)

Spec == Init /\ [][Next]_vars
=============================================================================
