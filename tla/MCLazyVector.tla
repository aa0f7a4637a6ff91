---------------------------- MODULE MCLazyVector ----------------------------
(***************************************************************************)
(* Objects of one to four chunks, the last one short or not; the elements  *)
(* of an mmap object's source all differ, those of a col object's do not.  *)
(* WordMod is so small that fib wraps around.                              *)
(***************************************************************************)
EXTENDS LazyVector

Object(kind, backend, length, read_only) ==
    [kind |-> kind, backend |-> backend, length |-> length, load_ct |-> 2,
     from |-> 1, by |-> 2, source |-> [i \in 0 .. length - 1 |-> IF kind = "col" THEN 3 ELSE i + 1],
     read_only |-> read_only]

MCObjects ==
    {Object("seq", "ufo", 5, FALSE), Object("seq", "nyc", 2, FALSE),
     Object("fib", "ufo", 7, TRUE), Object("fib", "ufo", 8, TRUE),
     Object("fib", "ufo", 6, FALSE), Object("fib", "nyc", 2, TRUE),
     Object("fib", "toronto", 3, TRUE),
     Object("col", "ufo", 3, FALSE), Object("mmap", "ufo", 5, TRUE),
     Object("mmap", "ufo", 2, TRUE), Object("mmap", "nyc", 2, FALSE)}

MCMMap == {Object("mmap", "ufo", length, TRUE) : length \in 2 .. 4}
=============================================================================
