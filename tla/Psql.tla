-------------------------------- MODULE Psql --------------------------------
(***************************************************************************)
(* The table-backed object (src/postgres.c): its elements are the rows of  *)
(* the table "league", fetched in chunks, on demand, over one connection   *)
(* that all populate calls of the object share under one mutex, while      *)
(* other sessions of the database go on changing the table.  A row is its  *)
(* id, and the table is the sequence of its rows in physical order.        *)
(***************************************************************************)
EXTENDS Integers, Sequences, FiniteSets, SequencesExt

CONSTANTS
    Workers,     \* threads on which the core calls populate
    NoOne,       \* none of them
    Rows,        \* rows in the table to begin with, with ids 1 .. Rows
    LoadCt,      \* elements to a chunk
    MaxChanges,  \* bound: changes made to the table by other sessions
    MaxLoads     \* bound: chunks requested

ASSUME ConstantsAssumption ==
    /\ Rows \in Nat /\ MaxChanges \in Nat /\ MaxLoads \in Nat
    /\ LoadCt \in Nat \ {0}
    /\ NoOne \notin Workers

VARIABLES
    league,      \* the rows of the table, in physical order
    next_id,     \* the serial's next value
    connection,  \* data->database: "none", "open", "closed"
    transaction, \* the worker whose BEGIN opened the current one, or NoOne
    lock,        \* the worker that holds data->lock, or NoOne
    size,        \* element_ct, as counted on creation
    job,         \* the chunk each worker was called to populate
    pc,          \* where each worker is in Player_populate
    loaded,      \* the rows in each chunk that is loaded
    phase,       \* how far the object, and the process, have come
    changes,     \* changes made to the table so far
    loads        \* chunks requested so far

table == <<league, next_id, changes>>
object == <<connection, size, phase>>
work == <<transaction, lock, job, pc, loaded, loads>>
vars == <<table, object, work>>

Chunks == 0 .. (Rows + MaxChanges) \div LoadCt
Start(c) == c * LoadCt
End(c) == IF Start(c) + LoadCt < size THEN Start(c) + LoadCt ELSE size

Init ==
    /\ league = [i \in 1 .. Rows |-> i]
    /\ next_id = Rows + 1
    /\ connection = "none"
    /\ transaction = NoOne
    /\ lock = NoOne
    /\ size = 0
    /\ job = [w \in Workers |-> 0]
    /\ pc = [w \in Workers |-> "idle"]
    /\ loaded = <<>>
    /\ phase = "connect"
    /\ changes = 0
    /\ loads = 0

-----------------------------------------------------------------------------
(* Players_*_new.  Only the mutex and the core let the process live on     *)
(* without an object; both leave the connection open.                      *)

(* Mutant of Connect: the status of the connection is not looked at. *)
Connect_Unchecked ==
    /\ phase = "connect"
    /\ connection' \in {"open", "bad"}
    /\ phase' = "count"
    /\ UNCHANGED <<table, work, size>>

Connect ==
    /\ phase = "connect"
    /\ \/ connection' = "open" /\ phase' = "count"
       \/ connection' = "closed" /\ phase' = "exited"
    /\ UNCHANGED <<table, work, size>>

Count ==
    /\ phase = "count"
    /\ \/ size' = Len(league) /\ phase' = "create" /\ UNCHANGED connection
       \/ connection' = "closed" /\ phase' = "exited" /\ UNCHANGED size
    /\ UNCHANGED <<table, work>>

Create ==
    /\ phase = "create"
    /\ phase' \in {"running", "refused"}
    /\ UNCHANGED <<table, work, connection, size>>

-----------------------------------------------------------------------------
(* Player_populate, one action per call it makes.                          *)

Alive == phase \notin {"exited", "freed", "refused"}

(* A fault in a chunk that is not loaded and not being loaded. *)
Fault(w, c) ==
    /\ phase = "running"
    /\ pc[w] = "idle"
    /\ loads < MaxLoads
    /\ Start(c) < size
    /\ c \notin DOMAIN loaded
    /\ \A v \in Workers : pc[v] # "idle" => job[v] # c
    /\ pc' = [pc EXCEPT ![w] = "lock"]
    /\ job' = [job EXCEPT ![w] = c]
    /\ loads' = loads + 1
    /\ UNCHANGED <<table, object, transaction, lock, loaded>>

(* Mutant of Lock: the mutex is not waited for. *)
Lock_Ignored(w) ==
    /\ Alive
    /\ pc[w] = "lock"
    /\ lock' = w
    /\ pc' = [pc EXCEPT ![w] = "begin"]
    /\ UNCHANGED <<table, object, transaction, job, loaded, loads>>

Lock(w) ==
    /\ Alive
    /\ pc[w] = "lock"
    /\ lock = NoOne
    /\ lock' = w
    /\ pc' = [pc EXCEPT ![w] = "begin"]
    /\ UNCHANGED <<table, object, transaction, job, loaded, loads>>

(* A BEGIN inside a transaction succeeds with a warning and changes nothing. *)
Begin(w) ==
    /\ Alive
    /\ pc[w] = "begin"
    /\ transaction' = IF transaction = NoOne THEN w ELSE transaction
    /\ pc' = [pc EXCEPT ![w] = "select"]
    /\ UNCHANGED <<table, object, lock, job, loaded, loads>>

(* Mutants of InRange: the end is included, and ids start at zero. *)
InRange_Inclusive(c, id) == id >= Start(c) + 1 /\ id <= End(c) + 1
InRange_ZeroBased(c, id) == id >= Start(c) /\ id < End(c)

(* WHERE id >= start + 1 AND id < end + 1 *)
InRange(c, id) == id >= Start(c) + 1 /\ id < End(c) + 1

(* Places of the table with a row in the range. *)
Matching(c) == {i \in DOMAIN league : InRange(c, league[i])}

Ascending(s) == \A m, n \in DOMAIN s : m < n => s[m] < s[n]

(* With no ORDER BY the server answers in physical or in index order. *)
Answers(c) ==
    LET rows(places) == [n \in DOMAIN places |-> league[places[n]]]
    IN  {rows(places) : places \in {p \in SetToSeqs(Matching(c)) :
                                       Ascending(p) \/ Ascending(rows(p))}}

Select(w) ==
    /\ Alive
    /\ pc[w] = "select"
    /\ \E rows \in Answers(job[w]) :
          loaded' = [c \in DOMAIN loaded \cup {job[w]} |->
                        IF c = job[w] THEN rows ELSE loaded[c]]
    /\ pc' = [pc EXCEPT ![w] = "end"]
    /\ UNCHANGED <<table, object, transaction, lock, job, loads>>

Commit(w) ==
    /\ Alive
    /\ pc[w] = "end"
    /\ transaction' = NoOne
    /\ pc' = [pc EXCEPT ![w] = "unlock"]
    /\ UNCHANGED <<table, object, lock, job, loaded, loads>>

(* Mutant of Unlock: the call returns with the mutex held. *)
Unlock_Forgotten(w) ==
    /\ Alive
    /\ pc[w] = "unlock"
    /\ pc' = [pc EXCEPT ![w] = "idle"]
    /\ UNCHANGED <<table, object, transaction, lock, job, loaded, loads>>

Unlock(w) ==
    /\ Alive
    /\ pc[w] = "unlock"
    /\ lock' = NoOne
    /\ pc' = [pc EXCEPT ![w] = "idle"]
    /\ UNCHANGED <<table, object, transaction, job, loaded, loads>>

(* Mutant of Fail: the mutex is released before the process exits. *)
Fail_Unlocks(w) ==
    /\ Alive
    /\ pc[w] \in {"begin", "select", "end"}
    /\ connection' = "closed"
    /\ lock' = NoOne
    /\ pc' = [pc EXCEPT ![w] = "exit"]
    /\ UNCHANGED <<table, size, phase, transaction, job, loaded, loads>>

(* Any of the three statements may fail: the connection is finished and    *)
(* the process starts to exit, with the mutex still held.                  *)
Fail(w) ==
    /\ Alive
    /\ pc[w] \in {"begin", "select", "end"}
    /\ connection' = "closed"
    /\ pc' = [pc EXCEPT ![w] = "exit"]
    /\ UNCHANGED <<table, size, phase, transaction, lock, job, loaded, loads>>

Exit(w) ==
    /\ Alive
    /\ pc[w] = "exit"
    /\ phase' = "exited"
    /\ UNCHANGED <<table, connection, size, work>>

-----------------------------------------------------------------------------
(* External: a chunk nobody uses is dropped to make room for others. *)
Evict(c) ==
    /\ phase = "running"
    /\ c \in DOMAIN loaded
    /\ \A w \in Workers : pc[w] # "idle" => job[w] # c
    /\ loaded' = [d \in DOMAIN loaded \ {c} |-> loaded[d]]
    /\ UNCHANGED <<table, object, transaction, lock, job, pc, loads>>

(* Players_*_free, after the last access. *)
Free ==
    /\ phase = "running"
    /\ \A w \in Workers : pc[w] = "idle"
    /\ connection' = "closed"
    /\ phase' = "freed"
    /\ UNCHANGED <<table, size, work>>

(* External: other sessions.  An update writes the row to a new place. *)
Change ==
    /\ Alive
    /\ changes < MaxChanges
    /\ changes' = changes + 1
    /\ \/ /\ league' = Append(league, next_id)
          /\ next_id' = next_id + 1
       \/ /\ UNCHANGED next_id
          /\ \E i \in 1 .. Len(league) :
                league' \in {RemoveAt(league, i), Append(RemoveAt(league, i), league[i])}
    /\ UNCHANGED <<object, work>>

Stopped == ~Alive /\ UNCHANGED vars

Populate(w) == Lock(w) \/ Begin(w) \/ Select(w) \/ Commit(w) \/ Unlock(w) \/ Exit(w)

Next ==
    \/ Connect \/ Count \/ Create
    \/ \E w \in Workers : Populate(w) \/ Fail(w) \/ \E c \in Chunks : Fault(w, c)
    \/ \E c \in Chunks : Evict(c)
    \/ Free \/ Change \/ Stopped

(* The threads inside populate keep running, nothing else need happen. *)
Spec == Init /\ [][Next]_vars /\ \A w \in Workers : WF_vars(Populate(w))

-----------------------------------------------------------------------------
(* The workers between the mutex's lock and its unlock. *)
Inside(w) == pc[w] \in {"begin", "select", "end", "unlock", "exit"}

(* The workers that are about to send a statement over the connection. *)
Talking(w) == pc[w] \in {"begin", "select", "end"}

(* Every variable holds a value of its type. *)
TypeOK ==
    /\ league \in Seq(Nat)
    /\ next_id \in Nat
    /\ connection \in {"none", "open", "closed"}
    /\ transaction \in Workers \cup {NoOne}
    /\ lock \in Workers \cup {NoOne}
    /\ size \in Nat
    /\ job \in [Workers -> Chunks]
    /\ pc \in [Workers -> {"idle", "lock", "begin", "select", "end", "unlock", "exit"}]
    /\ DOMAIN loaded \subseteq Chunks
    /\ \A c \in DOMAIN loaded : loaded[c] \in Seq(Nat)
    /\ phase \in {"connect", "count", "create", "running", "exited", "refused", "freed"}
    /\ changes \in 0 .. MaxChanges
    /\ loads \in 0 .. MaxLoads

(***************************************************************************)
(* Every SELECT and END runs in the transaction its own worker began, and  *)
(* no transaction outlives the populate call that began it: the connection *)
(* is never shared between two calls.                                      *)
(***************************************************************************)
OwnTransaction ==
    /\ \A w \in Workers : pc[w] \in {"select", "end"} => transaction = w
    /\ transaction # NoOne => Inside(transaction) /\ lock = transaction

(***************************************************************************)
(* A worker that failed has closed the connection and the process is about *)
(* to die, but the other workers still run: none of them sends another     *)
(* statement over the connection.                                          *)
(***************************************************************************)
NoUseAfterFinish == \A w \in Workers : Talking(w) => connection = "open"

(***************************************************************************)
(* Whatever other sessions do to the table, and however often the size has *)
(* become wrong, a SELECT never answers with more rows than the target     *)
(* buffer has room for, nor with a row of another chunk.                   *)
(***************************************************************************)
FitsTarget ==
    \A c \in DOMAIN loaded :
        /\ Len(loaded[c]) <= End(c) - Start(c)
        /\ \A d \in DOMAIN loaded \ {c} : ToSet(loaded[c]) \cap ToSet(loaded[d]) = {}

(* In a table nobody else changes, every element i of a loaded chunk is    *)
(* there and is the row with id i + 1.                                     *)
RowsInPlace ==
    changes = 0 =>
        \A c \in DOMAIN loaded :
            loaded[c] = [i \in 1 .. End(c) - Start(c) |-> Start(c) + i]

(* A chunk whose loading began is loaded, or the process is gone. *)
LoadsFinish ==
    \A w \in Workers : pc[w] = "lock" ~> (pc[w] = "idle" \/ phase = "exited")
=============================================================================
