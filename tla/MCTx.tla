-------------------------------- MODULE MCTx --------------------------------
(***************************************************************************)
(* Every disciplined client of a pool of two cells.                      *)
(***************************************************************************)
EXTENDS TxDiscipline

=============================================================================
