------------------------------- MODULE Engine -------------------------------
(***************************************************************************)
(* The engine process: what it does between two lines of the board,        *)
(* CorrectionProtocol, and with such a line, EventPipeline.  The           *)
(* communication thread does one or the other and they share no state, so  *)
(* a behaviour shows one of them while the other rests.                    *)
(***************************************************************************)
EXTENDS CorrectionProtocol, EventPipeline

CONSTANT Silence   \* the script with which the board and the interactive thread rest

VARIABLE silent

engineVars == <<vars, pipelineVars, silent>>

EngineInit == Init /\ PipelineInit /\ silent = (script = Silence)

Controlling(A) == silent /\ A /\ UNCHANGED <<pipelineVars, silent>>

EngineNext ==
    \/ Controlling(Next)
    \/ ~silent /\ PipelineNext /\ UNCHANGED <<vars, silent>>

\* As Fairness of CorrectionProtocol.
EngineSpec ==
    /\ EngineInit
    /\ [][EngineNext]_engineVars
    /\ WF_engineVars(Controlling(Tick))
    /\ WF_engineVars(Controlling(StartPoll))
    /\ \A t \in Txns : WF_engineVars(Controlling(RetryOrFail(t) \/ Recover(t)))
    /\ \A d \in Devices : /\ WF_engineVars(Controlling(HandleCorrectionRequest(d)))
                          /\ SF_engineVars(Controlling(Receive(d)))
=============================================================================
