----------------------------- MODULE LazyVector -----------------------------
(***************************************************************************)
(* A user-fault object of the seq, fib, col and mmap benchmarks (src/seq.c *)
(* src/fib.c, src/col.c, src/mmap.c): an array whose chunks are filled by  *)
(* the benchmark's populate function when they are first touched, dropped  *)
(* when memory runs short, written back before that if they were modified, *)
(* and read back later.  The core that does so (ufo, nyc or toronto) is    *)
(* external to the repository; the populate functions and what they are    *)
(* given to work with are not.                                             *)
(***************************************************************************)
EXTENDS Integers, Sequences, FiniteSets, SequencesExt

CONSTANTS
    Objects,    \* the objects that may be created
    Values,     \* what may be written
    WordMod,    \* elements wrap around at this value
    HighWater,  \* chunks that may be loaded at a time
    LowWater    \* chunks left when there were more

IsObject(o) ==
    /\ o.kind \in {"seq", "fib", "col", "mmap"}
    /\ o.backend \in {"ufo", "nyc", "toronto"}
    /\ o.length \in Nat \ {0}
    /\ o.load_ct \in Nat /\ o.load_ct >= 2
    /\ o.from \in Nat /\ o.by \in Nat
    /\ o.source \in [0 .. o.length - 1 -> Nat]
    /\ o.kind = "col" => \A i \in DOMAIN o.source : o.source[i] = o.source[0]
    /\ o.read_only \in BOOLEAN

(* The core rounds min_load_ct up to pages, of many elements.  The rows    *)
(* that col_source_matrix_new makes for col are all the same.              *)
ASSUME ObjectsAssumption == \A o \in Objects : IsObject(o)
ASSUME WaterAssumption ==
    /\ LowWater \in Nat \ {0} /\ HighWater \in Nat /\ LowWater <= HighWater
    /\ WordMod \in Nat \ {0}
    /\ Values \subseteq 0 .. WordMod - 1

VARIABLES
    object,    \* the object, as it was created
    resident,  \* the elements of each loaded chunk
    modified,  \* the loaded chunks written to
    saved,     \* external: the chunks written back, and their elements
    loading,   \* the chunks being loaded: each for the sake of the one before
    access,    \* the read or write under way
    answer,    \* what the last one read or wrote, if any
    pc         \* "running", "crashed"

vars == <<object, resident, modified, saved, loading, access, answer, pc>>

Indexes == 0 .. object.length - 1
ChunkOf(i) == i \div object.load_ct
Chunks == 0 .. ChunkOf(object.length - 1)
Start(c) == c * object.load_ct
End(c) == IF Start(c) + object.load_ct < object.length
            THEN Start(c) + object.load_ct ELSE object.length
Offsets(c) == 0 .. End(c) - Start(c) - 1

Loaded(i) == ChunkOf(i) \in DOMAIN resident
Element(i) == resident[ChunkOf(i)][i - Start(ChunkOf(i))]

NoAccess == [op |-> "none"]
Reads(o) == [op : {"read"}, index : 0 .. o.length - 1]
Writes(o) == [op : {"write"}, index : 0 .. o.length - 1, value : Values]

Init ==
    /\ object \in Objects
    /\ resident = <<>>
    /\ modified = {}
    /\ saved = <<>>
    /\ loading = <<>>
    /\ access = NoAccess
    /\ answer = <<>>
    /\ pc = "running"

-----------------------------------------------------------------------------
(***************************************************************************)
(* The populate functions: the elements of one chunk.                      *)
(***************************************************************************)
(* Mutant of SeqFill: every chunk is filled like the first. *)
SeqFill_FromZero(c) == [i \in Offsets(c) |-> (object.from + object.by * i) % WordMod]

SeqFill(c) == [i \in Offsets(c) |-> (object.from + object.by * (i + Start(c))) % WordMod]

(* Mutant of SourceFill: the target is indexed like the object. *)
SourceFill_Absolute(c) == [i \in Start(c) .. End(c) - 1 |-> object.source[i]]

(* col_populate and mmap_populate read from the start of the source. *)
SourceFill(c) == [i \in Offsets(c) |-> object.source[i]]

(* What fib_populate reads through data->self. *)
Self(i) == Element(i)

BeforeChunk(c) == IF c = 0 THEN <<0, 1>> ELSE <<Self(Start(c) - 2), Self(Start(c) - 1)>>

(* The loop of fib_populate, from two elements on. *)
FibFrom(first, second) ==
    LET target[i \in Nat] == IF i = 0 THEN first ELSE IF i = 1 THEN second
                             ELSE (target[i - 1] + target[i - 2]) % WordMod
    IN  target

(* What follows two elements. *)
FibAfter(before) ==
    LET first == (before[2] + before[1]) % WordMod
    IN  FibFrom(first, (first + before[2]) % WordMod)

(* fib_populate continues from the two elements before the chunk. *)
FibFill(c, before) ==
    LET target == IF c = 0 THEN FibFrom(1, 1) ELSE FibAfter(before)
    IN  [i \in Offsets(c) |-> target[i]]

Populated(c) ==
    CASE object.kind = "seq" -> SeqFill(c)
      [] object.kind = "fib" -> FibFill(c, BeforeChunk(c))
      [] object.kind \in {"col", "mmap"} -> SourceFill(c)

(* Mutant of Inputs: populate reads an element of its own chunk. *)
Inputs_Own(c) == IF object.kind = "fib" /\ Start(c) > 0 THEN {Start(c) - 1, Start(c)} ELSE {}

(* The elements of the object itself that populate will read. *)
Inputs(c) == IF object.kind = "fib" /\ Start(c) > 0 THEN {Start(c) - 1, Start(c) - 2} ELSE {}

(* Only ufo_fib_new ever sets data->self. *)
SelfIsNull == object.backend # "ufo"

-----------------------------------------------------------------------------
(* The benchmark reads or writes one element at a time. *)
Begin ==
    /\ pc = "running"
    /\ access = NoAccess
    /\ access' \in Reads(object) \cup (IF object.read_only THEN {} ELSE Writes(object))
    /\ UNCHANGED <<object, resident, modified, saved, loading, answer, pc>>

Pending == pc = "running" /\ access # NoAccess

(* External: the element is in memory, and the access takes effect. *)
Perform ==
    /\ Pending
    /\ loading = <<>>
    /\ Loaded(access.index)
    /\ access' = NoAccess
    /\ LET c == ChunkOf(access.index) IN
       IF access.op = "read"
         THEN /\ answer' = <<Element(access.index)>>
              /\ UNCHANGED <<resident, modified>>
         ELSE /\ answer' = <<access.value>>
              /\ resident' = [resident EXCEPT ![c][access.index - Start(c)] = access.value]
              /\ modified' = modified \cup {c}
    /\ UNCHANGED <<object, saved, loading, pc>>

(* External: an access to a chunk that is not in memory starts its loading. *)
Fault ==
    /\ Pending
    /\ loading = <<>>
    /\ ~Loaded(access.index)
    /\ loading' = <<ChunkOf(access.index)>>
    /\ UNCHANGED <<object, resident, modified, saved, access, answer, pc>>

(* The chunk being loaded last is the one the others wait for. *)
Current == loading[Len(loading)]
Loading == Pending /\ loading # <<>>

(***************************************************************************)
(* External: a chunk has been loaded.  If there are too many now, all but  *)
(* LowWater, any but the new one, are dropped and the modified ones saved. *)
(***************************************************************************)
Install(c, elements) ==
    \E kept \in SUBSET DOMAIN resident :
        /\ IF Cardinality(DOMAIN resident) < HighWater
             THEN kept = DOMAIN resident
             ELSE Cardinality(kept) = LowWater - 1
        /\ resident' = [d \in kept \cup {c} |-> IF d = c THEN elements ELSE resident[d]]
        /\ saved' = [d \in DOMAIN saved \cup (modified \ kept) |->
                        IF d \in modified \ kept THEN resident[d] ELSE saved[d]]
        /\ modified' = modified \cap kept
        /\ loading' = Front(loading)
        /\ UNCHANGED <<object, access, answer, pc>>

(* External: a chunk that was saved is read back. *)
Restore ==
    /\ Loading
    /\ Current \in DOMAIN saved
    /\ Install(Current, saved[Current])

(* populate is called and finds what it reads in memory. *)
Populate ==
    /\ Loading
    /\ Current \notin DOMAIN saved
    /\ \A i \in Inputs(Current) : Loaded(i)
    /\ Inputs(Current) # {} => ~SelfIsNull
    /\ Install(Current, Populated(Current))

(* populate touches an element of the object that is not in memory. *)
NestedFault ==
    /\ Loading
    /\ Current \notin DOMAIN saved
    /\ ~SelfIsNull
    /\ \E i \in Inputs(Current) :
          /\ ~Loaded(i)
          /\ loading' = Append(loading, ChunkOf(i))
    /\ UNCHANGED <<object, resident, modified, saved, access, answer, pc>>

(* Mutant of NullSelf: populate waits until the pointer is set. *)
NullSelf_Waits == Loading /\ Inputs(Current) # {} /\ SelfIsNull /\ UNCHANGED vars

(* populate reads the elements before the chunk through a null pointer. *)
NullSelf ==
    /\ Loading
    /\ Current \notin DOMAIN saved
    /\ Inputs(Current) # {}
    /\ SelfIsNull
    /\ pc' = "crashed"
    /\ UNCHANGED <<object, resident, modified, saved, loading, access, answer>>

Crashed == pc = "crashed" /\ UNCHANGED vars

Serve == Perform \/ Fault \/ Restore \/ Populate \/ NestedFault \/ NullSelf

Next == Begin \/ Serve \/ Crashed

(* An access that has begun is served; none need ever begin. *)
Spec == Init /\ [][Next]_vars /\ WF_vars(Serve)

-----------------------------------------------------------------------------
(***************************************************************************)
(* The array in memory that the object stands for: what the eager          *)
(* constructor of its kind fills, in one go.                               *)
(***************************************************************************)
Fib[i \in Nat] == IF i < 2 THEN 1 ELSE (Fib[i - 1] + Fib[i - 2]) % WordMod

EagerFib(o) == [i \in 0 .. o.length - 1 |-> Fib[i]]
EagerSeq(o) == [i \in 0 .. o.length - 1 |-> (o.from + o.by * i) % WordMod]
EagerSource(o) == [i \in 0 .. o.length - 1 |-> o.source[i]]

Array(o) ==
    CASE o.kind = "seq" -> EagerSeq(o)
      [] o.kind = "fib" -> EagerFib(o)
      [] o.kind \in {"col", "mmap"} -> EagerSource(o)

(***************************************************************************)
(* What loading all chunks would make of the object.  For col and mmap it  *)
(* is not the array: each chunk has the first load_ct elements again.      *)
(***************************************************************************)
RepeatedSource(o) == [i \in 0 .. o.length - 1 |-> o.source[i % o.load_ct]]
Filled(o) == IF o.kind \in {"col", "mmap"} THEN RepeatedSource(o) ELSE Array(o)

(* It makes no difference to col, whose source has one value everywhere,   *)
(* nor to an mmap object of a single chunk.                                *)
StartsAsArray(o) == o.kind = "mmap" => o.length <= o.load_ct

(* The chunks that were written to, and never go back to what they were. *)
Written == modified \cup DOMAIN saved

Stored(c) == IF c \in DOMAIN resident THEN resident[c] ELSE saved[c]
IsStored(c) == c \in DOMAIN resident \cup DOMAIN saved

(* What a fib object holds: where a chunk is not stored, what follows the  *)
(* last chunk before it that is.                                           *)
StoredBefore(c) == {d \in 0 .. c - 1 : IsStored(d)}

FibElement(i) ==
    LET c == ChunkOf(i)
        d == Max(StoredBefore(c))
    IN  IF IsStored(c) THEN Stored(c)[i - Start(c)]
        ELSE IF StoredBefore(c) = {} THEN FibFrom(1, 1)[i]
        ELSE FibAfter(<<Stored(d)[object.load_ct - 2],
                        Stored(d)[object.load_ct - 1]>>)[i - Start(d + 1)]

FibContents == [i \in Indexes |-> FibElement(i)]

(* What the array holds now, in memory or not. *)
Contents ==
    IF object.kind = "fib" THEN FibContents
    ELSE [i \in Indexes |-> IF IsStored(ChunkOf(i)) THEN Stored(ChunkOf(i))[i - Start(ChunkOf(i))]
                                                    ELSE Filled(object)[i]]

V == INSTANCE Vector WITH Arrays <- {Array(o) : o \in Objects},
                          contents <- Contents, answer <- answer

(***************************************************************************)
(* In a fib object that is written to, elements of chunks nobody wrote to  *)
(* change with those before them, or fall back to what those once made of  *)
(* them; the chunks that were written to keep every element.               *)
(***************************************************************************)
Rederives ==
    /\ object.kind = "fib" /\ ~object.read_only
    /\ Written \subseteq Written'
    /\ LET performed == IF access.op = "write" /\ access' # access THEN {access.index} ELSE {} IN
       /\ \A i \in performed : Contents'[i] = access.value
       /\ \A i \in Indexes \ performed : ChunkOf(i) \in Written => Contents'[i] = Contents[i]
       /\ answer' = IF performed = {} THEN answer ELSE <<access.value>>

(***************************************************************************)
(* Loading on demand, dropping and writing back cannot be told from an     *)
(* array in memory: every read answers with what was last written, or with *)
(* the element's initial value, however often its chunk came and went.     *)
(* That initial value is the one the eager object of src/normil.c has,     *)
(* except in an mmap object of several chunks (PlacedAsInArray); and only  *)
(* a fib object that is written to also changes by itself.                 *)
(***************************************************************************)
ImplementsVector ==
    /\ StartsAsArray(object) => V!Init /\ Contents = Array(object)
    /\ [][V!Next \/ Rederives]_<<Contents, answer>>

(* Every variable holds a value of its type. *)
TypeOK ==
    /\ object \in Objects
    /\ DOMAIN resident \subseteq Chunks
    /\ \A c \in DOMAIN resident : resident[c] \in [Offsets(c) -> Nat]
    /\ modified \subseteq DOMAIN resident
    /\ DOMAIN saved \subseteq Chunks
    /\ \A c \in DOMAIN saved : saved[c] \in [Offsets(c) -> Nat]
    /\ loading \in Seq(Chunks)
    /\ access \in {NoAccess} \cup Reads(object) \cup Writes(object)
    /\ answer \in Seq(Nat)
    /\ pc \in {"running", "crashed"}

(***************************************************************************)
(* Populate functions that touch the object they are filling never wait    *)
(* for each other: every nested load is of an earlier chunk, and none of   *)
(* the chunks being loaded is in memory already.                           *)
(***************************************************************************)
LoadsDescend ==
    /\ \A m, n \in 1 .. Len(loading) : m < n => loading[n] < loading[m]
    /\ \A n \in 1 .. Len(loading) : loading[n] \notin DOMAIN resident

(* What the chunk being loaded is filled from is there. *)
Ready == Current \in DOMAIN saved \/ \A i \in Inputs(Current) : Loaded(i)

(* An upper bound on the steps that the access under way still takes. *)
Remaining ==
    IF access = NoAccess \/ pc = "crashed" THEN 0
    ELSE IF loading # <<>> THEN 1 + Len(loading) + (IF Ready THEN 0 ELSE 2 * Current)
    ELSE IF Loaded(access.index) THEN 1
    ELSE 3 + 2 * ChunkOf(access.index)

(***************************************************************************)
(* Serving an access gets on with every step, whatever the core chooses to *)
(* drop meanwhile: no chunk that a nested load brought in for the sake of  *)
(* another is gone by the time that one is populated.  An access of chunk  *)
(* c takes no more than 2 * c + 3 steps.                                   *)
(***************************************************************************)
ServingDescends == [][Serve => Remaining' \in 0 .. Remaining - 1]_vars

(* The access is to a chunk that is filled through data->self. *)
NeedsSelf == access # NoAccess /\ Inputs(ChunkOf(access.index)) # {}

(***************************************************************************)
(* Every access that begins is performed, but for those of a fib object on *)
(* nyc or toronto to any chunk but the first.  They crash, all of them,    *)
(* although run.sh:2-3 runs "fib" on "nyc" and "toronto" too.              *)
(***************************************************************************)
AccessesReturn ==
    /\ access # NoAccess /\ ~(NeedsSelf /\ SelfIsNull) ~> access = NoAccess
    /\ NeedsSelf /\ SelfIsNull ~> pc = "crashed"

-----------------------------------------------------------------------------
(***************************************************************************)
(* Refuted.  bench.c:288 has "normil" as another implementation of the     *)
(* benchmark that bench.c:287 calls by its "populate function".  But       *)
(* mmap_populate ignores start, so that a chunk nobody wrote to does not   *)
(* hold what the normil object holds at its place.                         *)
(***************************************************************************)
PlacedAsInArray ==
    \A c \in DOMAIN resident \ Written :
        \A i \in Offsets(c) : resident[c][i] = Array(object)[Start(c) + i]
=============================================================================
