----------------------------- MODULE Benchmark -----------------------------
(***************************************************************************)
(* One run of the benchmark driver (src/bench.c, main): a system is set    *)
(* up, an object created in it, an index sequence configured, the object   *)
(* accessed, and everything released again, for six benchmarks on five     *)
(* implementations.  Most of these steps can fail, and main looks at none  *)
(* of their results.                                                       *)
(***************************************************************************)
EXTENDS Integers, Sequences

CONSTANTS
    Configs,     \* the command lines, and how large the file or table is
    LoadCt,      \* elements of a chunk
    EagerBuffer  \* bytes that BZip2_normil_new reserves (2 * 10^9)

Benchmarks == {"seq", "fib", "col", "mmap", "bzip", "psql"}
Cores == {"ufo", "nyc", "toronto"}
Implementations == Cores \cup {"normil", "nyc++"}
Patterns == {"scan", "reverse", "random"}

IsConfig(c) ==
    /\ c.benchmark \in Benchmarks
    /\ c.implementation \in Implementations
    /\ c.pattern \in Patterns \cup {"other"}
    /\ c.size \in Nat

ASSUME ConfigsAssumption == \A c \in Configs : IsConfig(c)
ASSUME SizesAssumption == LoadCt \in Nat /\ EagerBuffer \in Nat

Resources ==
    {"core", "sequence",                                       \* main's own
     "data", "matrix", "mapping", "blocks", "connection", "mutex",  \* inputs
     "region",                                     \* what a core hands out
     "array", "stream",                            \* eager objects
     "wrapper", "nycpp"}                           \* what points to the rest

VARIABLES
    config,     \* the command line
    phase,      \* of main; or how the process ended
    todo,       \* what is left of creating or freeing the object
    held,       \* resources acquired and not released
    missing,    \* resources taken to be acquired that are not
    object,     \* what object_creation answered
    length,     \* max_sequence_length, once known
    failed,     \* history: the steps that failed
    undefined   \* history: what was used although it was not there to use

vars == <<config, phase, todo, held, missing, object, length, failed, undefined>>

Ended == {"done", "exited", "crashed"}

-----------------------------------------------------------------------------
(***************************************************************************)
(* What each object consists of: the steps of its constructor and of its   *)
(* free function, for the implementation i, in the order of the code; box  *)
(* holds those that free what points to the rest of it, where they follow. *)
(***************************************************************************)
Get(r) == [op |-> "get", what |-> r]
Put(r) == [op |-> "put", what |-> r]
Gets(rs) == [n \in DOMAIN rs |-> Get(rs[n])]
Puts(rs) == [n \in DOMAIN rs |-> Put(rs[n])]

Life(create, free, box) == [create |-> create, free |-> free, box |-> box]

(* nyc and toronto allocate the wrapper of every object, and before it. *)
Lazy(i, inputs, made, freed, unmade) ==
    IF i = "ufo"
      THEN Life(Gets(inputs \o made), Puts(freed \o unmade), <<>>)
      ELSE Life(Gets(inputs \o <<"wrapper", "region">>), Puts(freed \o <<"region">>),
                <<Put("wrapper")>>)

SeqLife(i) ==
    IF i \in Cores THEN Lazy(i, <<"data">>, <<"region">>, <<"data">>, <<"region">>)
    ELSE Life(<<Get("array")>>, <<Put("array")>>, <<>>)

FibLife(i) ==
    IF i \in Cores THEN Lazy(i, <<"data">>, <<"region">>, <<"data">>, <<"region">>)
    ELSE Life(<<Get("array")>>, <<Put("array")>>, <<>>)

EagerCol == Life(<<Get("matrix"), Get("array"), Put("matrix")>>, <<Put("array")>>, <<>>)

(* Mutant of ColLife: the lazy objects give up their source, too. *)
ColLife_NoSource(i) ==
    IF i \in Cores
      THEN LET l == Lazy(i, <<"matrix", "data">>, <<"region">>, <<"data">>, <<"region">>)
           IN  [l EXCEPT !.create = Append(@, Put("matrix"))]
      ELSE EagerCol

(* The source is copied, and freed, by the eager object only. *)
ColLife(i) ==
    IF i \in Cores
      THEN Lazy(i, <<"matrix", "data">>, <<"region">>, <<"matrix", "data">>, <<"region">>)
      ELSE EagerCol

MMapLife(i) ==
    IF i \in Cores
      THEN Lazy(i, <<"mapping", "data">>, <<"region", "wrapper">>,
                <<"mapping", "data">>, <<"wrapper", "region">>)
      ELSE Life(Gets(<<"mapping", "wrapper">>), <<Put("mapping")>>, <<Put("wrapper")>>)

(* The file of the eager one is never closed. *)
EagerBZip == Life(Gets(<<"stream", "array", "wrapper">>), <<Put("array")>>, <<Put("wrapper")>>)

BZipLife(i) ==
    IF i \in Cores
      THEN Lazy(i, <<"blocks">>, <<"region", "wrapper">>, <<"blocks">>, <<"region", "wrapper">>)
      ELSE EagerBZip

(* The struct that holds connection and mutex is never freed. *)
PsqlLife(i) ==
    IF i \in Cores
      THEN Lazy(i, <<"data", "connection", "mutex">>, <<"region", "wrapper">>,
                <<"connection", "mutex">>, <<"region", "wrapper">>)
      ELSE Life(Gets(<<"connection", "wrapper", "array">>) \o <<Put("connection")>>,
                <<Put("array")>>, <<Put("wrapper")>>)

(* Mutant of InNycpp: the wrapper is not freed. *)
InNycpp_KeepsWrapper(life) ==
    Life(life.create \o <<Get("nycpp")>>, life.free \o <<Put("nycpp")>>, <<>>)

(* What an eager object holds, in an NYCpp, whose destructor frees it. *)
InNycpp(life) ==
    Life(life.create \o <<Get("nycpp")>> \o life.box, life.free \o <<Put("nycpp")>>, <<>>)

(* The functions that main chooses for a benchmark and an implementation. *)
LifeOf(c) ==
    LET i == c.implementation
        life == CASE c.benchmark = "seq" -> SeqLife(i)
                  [] c.benchmark = "fib" -> FibLife(i)
                  [] c.benchmark = "col" -> ColLife(i)
                  [] c.benchmark = "mmap" -> MMapLife(i)
                  [] c.benchmark = "bzip" -> BZipLife(i)
                  [] c.benchmark = "psql" -> PsqlLife(i)
    IN  IF i = "nyc++" THEN InNycpp(life) ELSE life

-----------------------------------------------------------------------------
Is(b, i) == config.benchmark \in b /\ config.implementation \in i

Init ==
    /\ config \in Configs
    /\ phase = "setup"
    /\ todo = <<>>
    /\ held = {}
    /\ missing = {}
    /\ object = "none"
    /\ length = 0
    /\ failed = {}
    /\ undefined = {}

Setup ==
    /\ phase = "setup"
    /\ phase' = "create"
    /\ todo' = LifeOf(config).create
    /\ held' = IF config.implementation \in Cores THEN {"core"} ELSE {}
    /\ UNCHANGED <<config, missing, object, length, failed, undefined>>

(* The process ends in a step that failed. *)
Dies(how, r) ==
    /\ phase' = how
    /\ failed' = failed \cup {r}
    /\ UNCHANGED <<config, todo, held, missing, object, length, undefined>>

SetupFails == phase = "setup" /\ config.implementation \in Cores /\ Dies("exited", "core")

(* The next step of creation is to acquire r. *)
Creating(r) == phase = "create" /\ todo # <<>> /\ Head(todo) = Get(r)

Unimplemented == Is({"col"}, {"nyc++"})

(* An empty file cannot be mapped, and the eager bzip object of an empty   *)
(* or a very large one comes to nothing.                                   *)
Obtainable(r) ==
    /\ ~Unimplemented
    /\ r = "mapping" => config.size > 0
    /\ r = "array" /\ config.benchmark = "bzip" => config.size \in 1 .. EagerBuffer

(* normil_fib_new writes two elements, however many there are. *)
Acquire ==
    \E r \in Resources :
        /\ Creating(r)
        /\ Obtainable(r)
        /\ todo' = Tail(todo)
        /\ held' = held \cup {r}
        /\ undefined' = IF r = "array" /\ config.benchmark = "fib" /\ config.size < 2
                          THEN undefined \cup {"array"} ELSE undefined
        /\ UNCHANGED <<config, phase, missing, object, length, failed>>

(* nycpp_col_creation does nothing else. *)
ExitUnimplemented ==
    /\ phase = "create"
    /\ Unimplemented
    /\ phase' = "exited"
    /\ UNCHANGED <<config, todo, held, missing, object, length, failed, undefined>>

(* The constructor gives up.  The nyc++ ones read from what it answers. *)
AnswerNull ==
    /\ IF config.implementation = "nyc++"
         THEN phase' = "crashed" /\ UNCHANGED object
         ELSE phase' = "configure" /\ object' = "null"
    /\ todo' = <<>>
    /\ UNCHANGED <<config, held, missing, length>>

(* Everything acquired so far is kept. *)
GiveUp(r) ==
    /\ Creating(r)
    /\ AnswerNull
    /\ failed' = failed \cup {r}
    /\ UNCHANGED undefined

OpenFails == ~Unimplemented /\ \E r \in {"mapping", "stream", "mutex"} : GiveUp(r)

(***************************************************************************)
(* mmap_new does not look at what mmap answers.  The eager object reads it *)
(* at once, the lazy ones when they are populated.                         *)
(***************************************************************************)
MapFails ==
    /\ Creating("mapping")
    /\ phase' = IF config.implementation \notin Cores /\ config.size > 0
                  THEN "crashed" ELSE phase
    /\ todo' = Tail(todo)
    /\ missing' = missing \cup {"mapping"}
    /\ failed' = IF config.size > 0 THEN failed \cup {"mapping"} ELSE failed
    /\ UNCHANGED <<config, held, object, length, undefined>>

(* Blocks_new reads from the NULL of a Blocks_parse that cannot open the   *)
(* file; Blocks with a bad one among them are freed.                       *)
BlocksFail == (Creating("blocks") /\ Dies("crashed", "blocks")) \/ GiveUp("blocks")

(* connect_to_database, and the first statement on the connection. *)
ConnectionFails == Creating("connection") /\ Dies("exited", "connection")

(* bzip objects are the only ones to go on with the core's error. *)
RegionFails ==
    \/ config.benchmark # "bzip" /\ GiveUp("region")
    \/ /\ config.benchmark = "bzip"
       /\ Creating("region")
       /\ todo' = Tail(todo)
       /\ missing' = missing \cup {"region"}
       /\ failed' = failed \cup {"region"}
       /\ UNCHANGED <<config, phase, held, object, length, undefined>>

(* A damaged file; or, reallocated to no size, the buffer is freed twice. *)
DecompressFails ==
    /\ config.benchmark = "bzip"
    /\ \/ GiveUp("array")
       \/ /\ Creating("array")
          /\ config.size = 0
          /\ AnswerNull
          /\ undefined' = undefined \cup {"array"}
          /\ UNCHANGED failed

(* A full buffer is read into, no bytes at a time, for ever. *)
Spins == config.benchmark = "bzip" /\ config.implementation \notin Cores /\ config.size > EagerBuffer

Spin == Spins /\ Creating("array") /\ UNCHANGED vars

CreationFails ==
    \/ OpenFails \/ MapFails \/ BlocksFail \/ ConnectionFails
    \/ RegionFails \/ DecompressFails

Created ==
    /\ phase = "create"
    /\ todo = <<>>
    /\ phase' = "configure"
    /\ object' = IF "region" \in missing THEN "error" ELSE "made"
    /\ UNCHANGED <<config, todo, held, missing, length, failed, undefined>>

-----------------------------------------------------------------------------
(* Mutant of ObjectLength: one too few. *)
ObjectLength_OneLess == config.size - 1

(* Lazy bzip objects count one element too many for a block. *)
ObjectLength ==
    IF Is({"bzip"}, Cores) THEN config.size + 1 ELSE config.size

(* external: what a core answers for an object it did not make *)
Garbage == {0, 1}

(* max_length, asked of an object that may not be there. *)
MaxLength(n) ==
    IF \/ object = "made"
       \/ Is({"seq", "fib", "col"}, {"ufo", "normil", "nyc++"})
       \/ Is({"bzip"}, {"ufo"}) /\ object = "error"
      THEN n = ObjectLength /\ UNCHANGED undefined
      ELSE /\ config.implementation \in {"nyc", "toronto"}
           /\ n \in Garbage
           /\ undefined' = undefined \cup {"params"}

(* Only now is the pattern looked at. *)
Configure ==
    /\ phase = "configure"
    /\ \E n \in {ObjectLength} \cup Garbage : MaxLength(n) /\ length' = n
    /\ IF config.pattern \in Patterns
         THEN phase' = "execute" /\ held' = held \cup {"sequence"}
         ELSE phase' = "exited" /\ UNCHANGED held
    /\ UNCHANGED <<config, todo, missing, object, failed>>

ConfigureNull ==
    /\ phase = "configure"
    /\ object = "null"
    /\ ~Is({"seq", "fib", "col"}, {"ufo", "normil", "nyc++"})
    /\ phase' = "crashed"
    /\ UNCHANGED <<config, todo, held, missing, object, length, failed, undefined>>

-----------------------------------------------------------------------------
(* The loop accesses something; a reverse run, one element too far. *)
Touches == length > 0 \/ config.pattern = "reverse"

Executed(what) ==
    /\ phase' = "free"
    /\ undefined' = undefined \cup what \cup IF config.pattern = "reverse" THEN {"outside"} ELSE {}
    /\ UNCHANGED <<config, todo, held, missing, object, length, failed>>

ExecutionCrashes ==
    /\ phase' = "crashed"
    /\ UNCHANGED <<config, todo, held, missing, object, length, failed, undefined>>

Executing == phase = "execute"

(* Nothing is accessed; random_index divides by the length all the same. *)
NoAccess ==
    /\ Executing
    /\ ~Touches
    /\ IF config.pattern = "random" THEN ExecutionCrashes ELSE Executed({})

(* Mutant of PointerAccess: an object that is not there is left alone. *)
PointerAccess_Checked ==
    /\ Executing /\ Touches
    /\ config.implementation \in {"ufo", "normil"}
    /\ IF "mapping" \in missing THEN ExecutionCrashes ELSE Executed({})

(* Through a pointer; the populate of a mapping that failed reads it. *)
PointerAccess ==
    /\ Executing /\ Touches
    /\ config.implementation \in {"ufo", "normil"}
    /\ IF object = "null" \/ "mapping" \in missing
         THEN ExecutionCrashes
         ELSE Executed(missing)

(* fib reads through NULL when it populates a chunk other than the first. *)
SelfIsNull == config.benchmark = "fib" /\ length > LoadCt

(* Through a core, whose errors are not looked at. *)
CoreAccess ==
    /\ Executing /\ Touches
    /\ \/ /\ "mapping" \in missing \/ (object = "made" /\ SelfIsNull)
          /\ ExecutionCrashes
       \/ /\ "mapping" \notin missing
          /\ object = "made" /\ SelfIsNull => config.pattern = "random"
          /\ Executed(IF object = "made" THEN {} ELSE {"params"})

BoroughAccess == config.implementation = "nyc" /\ CoreAccess
VillageAccess == config.implementation = "toronto" /\ CoreAccess

(* seq and fib take the NYCpp for the array that it points to. *)
NycppAccess ==
    /\ Executing /\ Touches
    /\ config.implementation = "nyc++"
    /\ IF "mapping" \in missing
         THEN ExecutionCrashes
         ELSE Executed(IF Is({"seq", "fib"}, {"nyc++"}) THEN {"nycpp"} ELSE {})

(* A statement fails, and retrieve_from_table exits; or a block cannot be  *)
(* read again, and BZip2_populate reads through the NULL of Block_from.    *)
PopulateFails ==
    /\ Executing /\ Touches
    /\ config.implementation \in Cores /\ object = "made"
    /\ \/ config.benchmark = "psql" /\ Dies("exited", "connection")
       \/ config.benchmark = "bzip" /\ Dies("crashed", "blocks")

Execute ==
    \/ NoAccess \/ PointerAccess \/ BoroughAccess \/ VillageAccess \/ NycppAccess
    \/ PopulateFails

-----------------------------------------------------------------------------
Freeing(steps) ==
    /\ phase = "free"
    /\ phase' = "cleanup"
    /\ todo' = steps
    /\ UNCHANGED <<config, held, missing, object, length>>

Free ==
    /\ object = "made"
    /\ Freeing(LifeOf(config).free \o LifeOf(config).box)
    /\ UNCHANGED <<failed, undefined>>

(* ufo_get_by_address has no object for the address: nothing is released. *)
LookupFails ==
    /\ config.implementation = "ufo"
    /\ Freeing(<<>>)
    /\ failed' = failed \cup {"lookup"}
    /\ UNCHANGED undefined

(* Mutant of FreesUnread: fib goes on like seq and col. *)
FreesUnread_Fib == config.benchmark \in {"seq", "col", "fib"}

(* seq_ufo_free and col_ufo_free free populate_data without having read it. *)
FreesUnread == config.benchmark \in {"seq", "col"}

(* ufo_get_params fails: only the region is released.  col asks twice. *)
ParamsFail ==
    /\ config.implementation = "ufo"
    /\ object = "made"
    /\ \E steps \in {<<Put("region")>>}
                 \cup (IF config.benchmark = "col" THEN {<<Put("data"), Put("region")>>} ELSE {}) :
           Freeing(steps)
    /\ failed' = failed \cup {"params"}
    /\ undefined' = IF FreesUnread THEN undefined \cup {"params"} ELSE undefined

(* nyc and toronto free what the parameters of no object say. *)
FreeNone ==
    /\ config.implementation \in {"nyc", "toronto"}
    /\ object # "made"
    /\ Freeing(IF object = "error" THEN <<Put("wrapper")>> ELSE <<>>)
    /\ undefined' = undefined \cup {"params"}
    /\ UNCHANGED failed

(* The destructor of NYCpp frees what may be a mapping. *)
Release ==
    /\ phase \in {"create", "cleanup"}
    /\ todo # <<>>
    /\ \E r \in Resources :
          /\ Head(todo) = Put(r)
          /\ held' = held \ {r}
          /\ undefined' = IF r \in held \cup missing /\ ~(r = "mapping" /\ config.implementation = "nyc++")
                            THEN undefined ELSE undefined \cup {r}
    /\ todo' = Tail(todo)
    /\ UNCHANGED <<config, phase, missing, object, length, failed>>

(* Mutant of Teardown: the core waits until nothing uses it. *)
Teardown_WhenUnused ==
    /\ phase = "cleanup" /\ todo = <<>>
    /\ IF held \subseteq {"core", "sequence"}
         THEN /\ phase' = "report"
              /\ held' = held \ {"core"}
              /\ UNCHANGED <<config, todo, missing, object, length, failed, undefined>>
         ELSE UNCHANGED vars

Teardown ==
    /\ phase = "cleanup"
    /\ todo = <<>>
    /\ phase' = "report"
    /\ held' = held \ {"core"}
    /\ UNCHANGED <<config, todo, missing, object, length, failed, undefined>>

(* The row with the timings is written. *)
Report ==
    /\ phase = "report"
    /\ phase' = "done"
    /\ held' = held \ {"sequence"}
    /\ UNCHANGED <<config, todo, missing, object, length, failed, undefined>>

(* The timing file cannot be opened, and is written to. *)
ReportFails == phase = "report" /\ Dies("crashed", "timing")

(* What was undefined may end the process at any later time. *)
Crash ==
    /\ phase \notin Ended
    /\ undefined # {}
    /\ phase' = "crashed"
    /\ UNCHANGED <<config, todo, held, missing, object, length, failed, undefined>>

Stopped == phase \in Ended /\ UNCHANGED vars

Next ==
    \/ Setup \/ SetupFails
    \/ Acquire \/ CreationFails \/ ExitUnimplemented \/ Spin \/ Created
    \/ Configure \/ ConfigureNull
    \/ Execute
    \/ Free \/ LookupFails \/ ParamsFail \/ FreeNone \/ Release
    \/ Teardown \/ Report \/ ReportFails
    \/ Crash \/ Stopped

(* main is sequential, and goes on. *)
Spec == Init /\ [][Next]_vars /\ WF_vars(Next)

-----------------------------------------------------------------------------
(* Every variable holds a value of its type. *)
TypeOK ==
    /\ config \in Configs
    /\ phase \in {"setup", "create", "configure", "execute", "free", "cleanup", "report"} \cup Ended
    /\ todo \in Seq([op : {"get", "put"}, what : Resources])
    /\ held \subseteq Resources
    /\ missing \subseteq {"mapping", "region"}
    /\ object \in {"none", "null", "made", "error"}
    /\ length \in Nat
    /\ failed \subseteq Resources \cup {"lookup", "params", "timing"}
    /\ undefined \subseteq Resources \cup {"params", "outside"}

(***************************************************************************)
(* Runs that ask for nothing the code cannot do.  Of a bzip file only the  *)
(* size is looked at: the index is one resource here, and a file whose     *)
(* blocks do not fit their buffers (FitsBuffer), or whose magics do not    *)
(* fit the scanner's arrays (LimitIsOfBlocks), goes wrong within it.       *)
(***************************************************************************)
Sound(c) ==
    /\ c.pattern \in {"scan", "random"}
    /\ c.size > (IF c.benchmark = "fib" THEN 1 ELSE 0)
    /\ c.implementation = "nyc++" => c.benchmark \in {"bzip", "psql"}
    /\ c.benchmark = "bzip" /\ c.implementation \notin Cores => c.size <= EagerBuffer
    /\ c.benchmark = "fib" /\ c.implementation \in {"nyc", "toronto"} => c.size <= LoadCt

(* Failures that no run suffers from: seq and col do from the latter. *)
Harmless(b) == {"lookup"} \cup IF b \in {"seq", "col"} THEN {} ELSE {"params"}

(***************************************************************************)
(* Nothing undefined happens, and the process neither crashes nor gives    *)
(* up, in a run that asks for nothing the code cannot do, unless a step of *)
(* it fails; and not even then if it is a look-up at the end, except that  *)
(* seq and col free a pointer they could not read.                         *)
(***************************************************************************)
SoundRunsStayDefined ==
    undefined # {} \/ phase \in {"exited", "crashed"} =>
        ~Sound(config) \/ ~(failed \subseteq Harmless(config.benchmark))

(* What an access to the object, and its populate function, read. *)
Reads ==
    IF config.implementation \in Cores
      THEN {"region"} \cup
           CASE config.benchmark \in {"seq", "fib"} -> {"data"}
             [] config.benchmark = "col" -> {"data", "matrix"}
             [] config.benchmark = "mmap" -> {"data", "mapping"}
             [] config.benchmark = "bzip" -> {"blocks"}
             [] config.benchmark = "psql" -> {"data", "connection", "mutex"}
      ELSE IF config.benchmark = "mmap" THEN {"mapping"} ELSE {"array"}

(***************************************************************************)
(* What populate reads is there for as long as the object may be accessed: *)
(* constructors leave it alone, and it is freed after the last access,     *)
(* although before the object.                                             *)
(***************************************************************************)
InputsOutliveAccess ==
    /\ object = "made" /\ phase \in {"configure", "execute", "free"} =>
           Reads \subseteq held \cup missing
    /\ phase = "execute" /\ config.implementation \in Cores => "core" \in held

(***************************************************************************)
(* A run in which nothing fails gives back all it acquired, but for the    *)
(* struct of the lazy psql objects and the file of the eager bzip object.  *)
(***************************************************************************)
CleanRunReleasesAll ==
    phase = "done" /\ failed = {} /\ undefined = {} =>
        held = IF Is({"psql"}, Cores) THEN {"data"}
               ELSE IF Is({"bzip"}, {"normil", "nyc++"}) THEN {"stream"} ELSE {}

(***************************************************************************)
(* Unless undefined behaviour lets it, a run whose object could not be     *)
(* created never gets to write timings for accesses to it.                 *)
(***************************************************************************)
RowMeansObject ==
    phase \in {"report", "done"} /\ undefined = {} => object = "made" \/ length = 0

(* Every run ends, but the eager decompression of more than its buffer. *)
RunEnds == ~Spins => <>(phase \in Ended)
=============================================================================
