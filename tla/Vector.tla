------------------------------- MODULE Vector -------------------------------
(***************************************************************************)
(* What an object of the benchmarks promises, whichever system keeps it:   *)
(* an array that is read and written in place, as the "normil" objects     *)
(* (src/normil.c) are.                                                     *)
(***************************************************************************)
CONSTANTS Arrays,  \* what the array may hold to begin with
          Values   \* what may be written to it

VARIABLES contents,  \* the array
          answer     \* what the last access read or wrote, if any

Read(i) == answer' = <<contents[i]>> /\ UNCHANGED contents

Write(i, v) == answer' = <<v>> /\ contents' = [contents EXCEPT ![i] = v]

Init == contents \in Arrays /\ answer = <<>>

Next == \E i \in DOMAIN contents : Read(i) \/ \E v \in Values : Write(i, v)

Spec == Init /\ [][Next]_<<contents, answer>>
=============================================================================
