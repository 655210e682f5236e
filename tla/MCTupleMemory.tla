----------------------------- MODULE MCTupleMemory -----------------------------
(* Instances of TupleMemory for TLC.                                       *)
EXTENDS TupleMemory

OneOfEach ==
  {[valueType |-> "INTEGER", value |-> 1], [valueType |-> "STRING", value |-> 1]}

(* Room for two tuples of two elements in each memory.                     *)
LocalPool == 1..10
RemotePool == 101..110

=============================================================================
