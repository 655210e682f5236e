-------------------------------- MODULE MCTuple --------------------------------
(* Instance of Tuple for TLC; the values are in Tuple_match.cfg.           *)
EXTENDS Tuple, TLC

=============================================================================
