----------------------- MODULE MCCorrectionProtocol -----------------------
(* CorrectionProtocol on small instances. *)
EXTENDS CorrectionProtocol, TLC

\* Transactions are interchangeable: nothing orders or names them.
Symmetry == Permutations(Txns)
=============================================================================
