-------------------------- MODULE MCBenchSequence --------------------------
(***************************************************************************)
(* Small objects, with samples shorter than, as long as and longer than    *)
(* them.  SizeMod is so small that the counter of a run without writes     *)
(* comes round to one within a run.                                        *)
(***************************************************************************)
EXTENDS BenchSequence

MCMaxLengths == 0 .. 4
MCSampleSizes == {0, 1, 3, 4, 5}
MCWriteRates == 0 .. 3
=============================================================================
