---------------------------- MODULE MCGrowingBucket ----------------------------
(* Instances of GrowingBucket for TLC.                                     *)
EXTENDS GrowingBucket, TLC

CONSTANTS h1, g1, g2, t1

OnePusher == {h1}
OneReader == {g1}
TwoReaders == {g1, g2}

ReaderSymmetry == Permutations(TwoReaders)

OneEach == [p \in Pushers |-> t1]
FirstTuple == [p \in Readers |-> {t1}]
NoTuple == {}

=============================================================================
