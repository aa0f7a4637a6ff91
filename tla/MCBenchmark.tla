---------------------------- MODULE MCBenchmark ----------------------------
(***************************************************************************)
(* Every benchmark on every implementation with every pattern, a misspelt  *)
(* one included, for sizes from nothing to more than a chunk and more than *)
(* the buffer of the eager bzip object.                                    *)
(***************************************************************************)
EXTENDS Benchmark

MCConfigs ==
    [benchmark : Benchmarks, implementation : Implementations,
     pattern : Patterns \cup {"other"}, size : 0 .. 4]
=============================================================================
