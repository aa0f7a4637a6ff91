# Verification of ufo-c-examples

The repository holds a set of benchmarks for *user-fault objects*: arrays whose
elements are computed, chunk by chunk, when they are first touched. A "core"
(UFO, New York, Toronto; git submodules that are not part of the repository)
catches the page fault, calls the benchmark's `populate` function for the
chunk, drops chunks when memory runs short, writes modified ones to disk before
that and reads them back later. What this project verifies is the repository's
own part: the populate functions and the data they work from, the bzip2 index
they rely on, the connection they share, and the driver that accesses the
objects.

## 1. Inventory

| Component | State | Operations | Interacts with |
|---|---|---|---|
| bzip block scanner (`bzip.c`, `Blocks_parse`) | 64-bit shift register, `read_bits`, block arrays, `bad_blocks` | read a bit; on a magic, record the stretch behind it; stop at end of file or at `MAX_BLOCKS` | its index is what extraction reads |
| bzip block extraction (`Block_from`) | bit stream, byte buffer, bit buffer | copy the header, seek, copy the payload, append a footer | reads the file again at the scanner's offsets; feeds libbz2 |
| bzip index and populate (`Blocks_new`, `BZip2_populate`) | decompressed ranges of the blocks; target buffer | decompress every block once to size the object; per call, find the first block and copy blocks until the end | called by the core; decompresses through extraction and libbz2 |
| bzip objects (`BZip2_*_new`, `BZip2_*_free`) | the index, a region of the core, a wrapper; eagerly, one buffer | create, free | refuse an index with bad blocks; the core calls populate |
| seq, fib, col, mmap objects | parameters, a source array, `data->self` for fib | create, populate, free | called by the core; fib reads the object it is populating |
| eager objects (`normil.c`, `*_normil_new`) | an array | create, read, write, free | reference for the lazy ones, which mmap objects of several chunks do not match |
| table-backed object (`postgres.c`) | one connection, one mutex, `element_ct` | connect, count, create, populate in a transaction, free | the core calls populate; PostgreSQL; other sessions |
| iterators and execution loop (`bench.c`) | `current`, `since_last_write` | next; read or write | accesses the object |
| driver (`bench.c`, `main`) | arguments, the system, the object, the sequence | set up, create, configure, execute, clean up, tear down, report | everything above; it looks at no result |
| core adapters (`ufo.c`, `nyc.c`, `toronto.c`, `nycpp.cpp`) | core handle | pass calls on; read and write loops | core |
| cores | loaded chunks, write-back files | fault, evict, write back, reload | external |
| random, timing, logging; examples; scripts | - | - | - |

What is hard in this code, and what each component must get right:

* **Scanner.** The arithmetic is in bits, with unsigned counters, and the block
  arrays are filled *behind* a magic with an index that is one behind. A block
  has to be separated from the gap between two streams by its length alone.
  *Correct when* every block is recorded once, in order, and nothing else is;
  when it stops at its limits; and when a truncated file is noticed.
* **Extraction.** Blocks start at any bit. The buffer is sized by a formula and
  filled by loops that do not check it. *Correct when* the result is a
  well-formed one-block stream that fits, or NULL for an unreadable block.
* **Index and populate.** Ranges are inclusive in one place and exclusive in
  another; a corrupt block can show up at indexing or later. *Correct when* a
  call leaves the right bytes at the right places and always returns.
* **Lazy objects.** Populate may be called again for a chunk that was dropped,
  and may fault on the object it fills. *Correct when* no sequence of loading,
  dropping, writing back and nesting can be told from the eager object's array.
* **Table-backed object.** Several populate calls may be under way at once, on
  one connection; statements fail; the table changes after it was counted.
  *Correct when* a statement runs in its own call's transaction, nobody touches
  a finished connection, and the target buffer is never overrun.
* **Driver.** Six benchmarks on five implementations, each with its own order of
  acquiring and releasing, most steps of which can fail without `main` noticing.
  *Correct when* a run that nothing fails in uses only what it has and gives it
  back, what populate reads outlives the last access, and no row of timings is
  written for an object that was never there.
* **Iterators.** Three index patterns times sample sizes times write rates,
  where a rate of 0 relies on the countdown wrapping around. *Correct when* the
  run touches what it was asked to touch, and ends.

`PROJECT.json` lists the hazards one by one, each at its line, with the
properties that would catch them.

## 2. Modules

| Module | Models | State and actions in terms of the code |
|---|---|---|
| `BZipParse` | `Blocks_parse` | One action per turn of the loop: `Plain` (no magic), `Mark` (a magic: `Record` the stretch behind it, count), `TooManyBlocks` (past `MAX_BLOCKS`), `EndOfFile`. A file is its size in bits and the positions at which the register matches a magic. `overrun` notes a write past the arrays, `Garbage` is what the stack held where the code reads an uninitialized element. |
| `BZipBlock` | `Block_from` and the bit stream and bit buffer under it | One action per byte read, per stage and per bit of the tail. Bits are symbolic: `<<"file", p>>` is bit `p` of the file, so that a bit out of place shows. |
| `Benchmark` | `main`, all constructors and free functions, the core adapters, `NYCpp` | `LifeOf` gives the acquisitions and releases of an object, in the order of the code, for each benchmark and implementation; `Acquire` and `Release` take them one by one. `MapFails`, `RegionFails`, `LookupFails` ... are the failures the code handles or overlooks; `missing` is what is taken to be there and is not, and `undefined` what was used all the same. |
| `BZipPopulate` | `Blocks_new`, `BZip2_populate` | `IndexBlock`/`IndexDone` are the loop that sizes the object; `Call`, `CopyBlock`, `Undecompressed` are a populate call, one action per block copied. A byte of the file is its own position, so that a byte out of place shows. |
| `BenchSequence` | the iterators and the execution loop of `main` | `Scan`, `Reverse`, `Random`: one `next` and the access that follows. `accesses` is the history of them. |
| `Psql` | `Players_*_new`, `Player_populate`, `Players_*_free` | One action per call made on the connection or the mutex, for any number of threads, plus failure of a statement, eviction and changes by other sessions. |
| `LazyVector` | populate functions of seq, fib, col and mmap, and the life of a chunk | `Begin`/`Perform` are the driver's read or write; `Fault`, `Populate`, `NestedFault`, `Restore` the loading of a chunk; `Install` also drops and saves others; `NullSelf` is fib's read through the pointer that two constructors never set. |
| `Vector` | the eager object | `Read`, `Write`. It is the abstract specification of `LazyVector`, which implements it under the mapping `Contents`: a loaded chunk's elements, else its saved ones, else what populate will give (`Filled`), which `V!Init` compares with the eager object's `Array`; for a fib object, an element that is neither in memory nor saved is what populate would compute for it now from the last stored chunk before it. For a read-only one that is the eager array; for a writable one it may change when those before it do (`Rederives`). |

`MCxxx` modules hold the small instances. `xxx_proof` modules hold the proofs;
`Arithmetic` has what three of them need: facts on `\div` and `%`, and induction
over the natural numbers.
`Benchmark` composes what the other modules look at one by one: its `create`,
`execute` and `free` phases are what `Psql`, `LazyVector` and `BZipPopulate`
take for granted.
Definitions whose comment begins "Mutant of" are deliberately wrong variants of
the definition after them; substituting one must break the property it is
listed with in `PROJECT.json`.

The files of `BZipParse` satisfy only `IsFile`: positions in ascending order, at
least 45 bits apart, which is how close two of the magics can overlap.
`Intact(f)` describes the layout of one or more concatenated streams and is the
premise of the properties that need one.

In `LazyVector`, `Array` is what the eager constructors build: `seq_normil_new`,
`normil_fib_new`, `col_normil_new`, `MMap_normil_new`. `Filled` is what loading
all chunks of a lazy object would give. The two are the same for seq and fib.
`col_populate` (`src/src/col.c:15`) and `mmap_populate` (`src/src/mmap.c:41`)
ignore `start` and fill every chunk from the beginning of their source
(`RepeatedSource`). For col that makes no difference, because
`col_source_matrix_new` gives every row the same values (`IsObject`), nor for an
mmap object of one chunk. An mmap object of several chunks does *not* start as
the eager one's array: `PlacedAsInArray` is refuted (section 4), and
`ImplementsVector` claims of such an object only what does hold, that nothing but
writes changes it (`StartsAsArray` names the exception).

## 3. Runs

| Run | Question | Instance | Result |
|---|---|---|---|
| `bzip_parse` | Is exactly every block recorded, in order? Are limits and truncation handled? Can extraction be called with what is recorded? Does the scan end? | intact files with each of the 8 paddings, several streams, empty streams; one file cut at every byte; damaged files with overlapping magics and stretches of 129, 130 and 131 bits; 3, 4 and 5 or more magics against `MaxBlocks = 4`; offsets at their real values (the thresholds 40, 49 and 130 bits) | holds |
| `bzip_parse_padding` | Is an intact file ever reported as bad? | the same | **refuted** |
| `bzip_parse_limit` | Is a file with no more than `MaxBlocks` blocks scanned to its end, within arrays of that length? | an intact file of 4 blocks against `MaxBlocks = 4` | **refuted** |
| `bzip_block` | Is the extracted stream right, at every alignment? | payloads of 131..138 bits, starts at all 8 alignments, one file cut at each of its bytes; blocks in the first 64 bits of a file without a stream header, which cannot be sought | holds |
| `bzip_block_fits` | Does the header always fit the 32 bits counted for it? | an empty stream in front of the block | **refuted** |
| `bzip_populate` | Which blocks does the object hold, and what lands in the buffer, for all sequences of calls? | files of 0..3 blocks of 1 or 3 bytes and one of empty blocks; any set of blocks corrupt, from the start or later | holds |
| `bzip_populate_filled` | Does success mean that the buffer is full? | the same | **refuted** |
| `bench_sequence` | What does a run access, how often does it write, does it end? | objects of 0..4 elements, samples of 0, 1, 3, 4, 5, rates 0..3, `size_t` modulo 6 | holds |
| `benchmark` | Is a run sound, whatever fails? Does it release, report and end as it should? | all 6 benchmarks, 5 implementations, 3 patterns and a misspelt one, sizes 0..4 against chunks of 2 and an eager buffer of 3; every step that can fail, failing | holds |
| `psql` | Is the connection shared safely? Are rows in place, and do loads end? | 3 threads, 5 rows in chunks of 2, one change by others, 4 loads, any statement failing | holds |
| `lazy_vector` | Do the lazy objects implement the eager ones' array? Do accesses return, and within which number of steps? | objects of 1 to 4 chunks of 2, the last short or not, at most 2 loaded; writes where the object allows them, one writable fib among them; elements modulo 8 | holds |
| `lazy_vector_source` | Does each chunk of an mmap object hold what the eager object has at its place? | mmap objects of one and two chunks | **refuted** |

Why these bounds are enough to mean something. The scanner is run at the code's
real bit positions, and the files sit on both sides of every threshold in it.
The populate code is only sensitive to how many bytes a block holds relative to
the one byte it is off by, and to how many blocks lie before, at and after a
request: three blocks of one byte or more than one cover those. `SizeMod = 6`
makes the countdown of a run without writes wrap and come round to 1 *within* a
run, the case that needs 2^64 accesses in the code. In `Psql`, three threads are
one inside, one waiting and one arriving; four loads allow a chunk to be
evicted and loaded again. In `Benchmark`, sizes lie below, at and above what
fib, a chunk and the eager buffer need; the element values play no part. In
`LazyVector`, two chunks in memory out of four make a nested load evict the chunk
another load needs, and `Fib` wraps at 8.

Deadlock is checked in every run. States in which the program has ended, or has
crashed, have an explicit stuttering action (`Stopped`, `Returned`, `Crashed`).

### Fairness

Weak fairness is on the steps of code that is running, and on nothing else:

* `BZipParse`, `BenchSequence`, `Benchmark`: `WF(Next)`; a sequential program goes on.
  `RunEnds` leaves out the eager decompression of more than its buffer, which
  the code does for ever (`Spin`).
* `BZipBlock`: `WF(Work)`; likewise.
* `BZipPopulate`: on indexing, and on a call in progress (`Populating`). No call
  need ever be made, and no block need ever become unreadable.
* `Psql`: on each worker's own steps inside `Player_populate`. The mutex is only
  weakly fair: `LoadsFinish` holds because loads are bounded by `MaxLoads`. No
  statement need fail, no chunk need be evicted, nobody need free the object.
* `LazyVector`: on serving an access that has begun. None need begin.

## 4. Where the code and what is said of it disagree

A run refutes what is said in the first five; for the other four, a property
that holds says exactly what the code does instead.

1. `src/src/bzip.c:370`: the end-of-file test allows 39 bits after the last
   magic, but a footer has a CRC of 32 bits and up to 7 of padding, and the read
   that failed is counted too. An intact file with 7 bits of padding is refused
   (`IntactFileIsGood`).
2. `src/src/bzip.c:616`: the header copied is everything before the first block,
   of which the buffer counts 32 bits. After an empty stream it is 24 bytes, and
   the result is longer than its buffer (`FitsBuffer` in `bzip_block_fits`).
3. `src/src/bzip.c:831,950`: ranges are a byte too long for each block, so a call
   can return 0 with the end of its buffer unfilled (`SuccessMeansFilled`).
   `NearlyFilled` says by how much: at most a byte per block touched.
4. `src/src/bzip.c:422`: the limit of `MAX_BLOCKS` blocks, as the message at 423
   and the comment at 21 call it, is one of magics. In a file of exactly
   `MAX_BLOCKS` blocks, the last one's magic is written one element past the
   stack arrays, and the footer makes the scan refuse the file
   (`LimitIsOfBlocks`). With a block less, the footer makes that write and the
   file is accepted. `LimitCountsMagics` says what bounds the damage: one slot,
   and never the boundaries' own arrays. The model lets that slot be read back
   as written, as it is in the padding of the `-O2` frame.
5. `src/src/mmap.c:41`: populate ignores where the chunk is, so that an mmap
   object repeats the beginning of its file, which the normil one does not
   (`PlacedAsInArray`).
6. `src/src/bzip.c:823`: a block that fails to decompress at indexing ends the
   object there, and is not counted among the bad blocks for which the file is
   meant to be refused (974-976): `EndsAtCorrupt`, a part of `IndexCovers`.
7. `src/src/fib.c:16`: on nyc and toronto `data->self` stays NULL, although
   `src/run.sh:2-3` runs fib on them. Every access to a chunk but chunk 0
   crashes: the second part of `AccessesReturn`.
8. `src/src/bench.c:573`: a reverse run accesses one element more than
   `--sample-size`, "how many elements to read" (290): `SampleCovered`.
9. `src/src/bench.c:69`: `--writes N` is said to give "one write [...] for every
   N%% reads" (291), but makes every N-th access the write, which leaves N - 1
   reads for each, and none at all for N = 1: `WritesAtRate`.

What the code does without anything in the repository saying otherwise is not
refuted but stated as a property, with its exceptions named:

* `OnlyReverseStartsOutside`: a reverse run over a whole object begins one
  element past its end.
* `SoundRunsStayDefined`: `Sound` names the runs that go wrong by themselves
  (reverse runs; empty objects, and fib with one element; seq, fib, col and mmap
  on nyc++, whose execution or destructor takes one thing for another; fib
  beyond a chunk on nyc and toronto; more than the eager bzip buffer holds). The
  index of a bzip file is a single acquisition here, so that the overruns inside
  it, numbers 2 and 4 above, are outside this property: they are those of
  `BZipBlock` and `BZipParse`. `Sound` is accompanied by `Harmless`, the failures
  that no other run suffers from. seq and col do suffer when their parameters
  cannot be read: they free a pointer that was never set.
* `CleanRunReleasesAll`: what even a clean run keeps is the struct of a lazy psql
  object and the file of an eager bzip object.
* `RowMeansObject` holds only "unless undefined behaviour lets it": after a
  failed creation, `main` may measure accesses through what is not an object.

## 5. Proofs

Every theorem is proved for all values of the constants that satisfy the named
assumptions of its module; TLC evaluates those on the small instances.

* **`BZipParse_proof`**, from `FilesAssumption` (magics ascend, at least 45 bits
  apart, inside the file) and `ConstantsAssumption`. The invariant is `TypeOK`
  with `Cursor`: the counter `blocks` is the number of magics behind the reading
  position, `start` is the last of them, and what is recorded is the long
  stretches between them. The properties alone are not inductive: they do not
  say which stretch the counter stands at. From it follow `TypeCorrect`,
  `RecordingCorrect`, `TruncationCorrect`, `LimitCorrect` (each block recorded
  took two magics, so what is recorded stays below the limit), and
  `IndexCorrect`, which adds that in an intact file exactly the blocks are long
  enough. `JobsCorrect` is where scanner and extraction meet: if no two magics
  touch or overlap (`Separate`), what is recorded satisfies the `JobsAssumption`
  under which `BZipBlock` is checked and proved, and for an intact file the
  `assert` at `src/src/bzip.c:582` never fails, because only footers precede the
  first block recorded and each is followed by a stream that starts at a byte.
  In a damaged file whose magics do overlap, the unsigned difference of line 402
  wraps and a stretch that ends before it starts is recorded; nothing here says
  what extraction makes of that. Nor does it follow that the header is short: a
  file that starts with empty streams is intact, and is number 2 of section 4.
* **`BZipBlock_proof`**, from `JobsAssumption`, for files, blocks and alignments
  of any size. The invariant `IInv` has a part for each stage of `Block_from`
  (`Opening`, `Heading`, `Sought`, `Copying` or `Lost`, `Trailing`, `Ended`,
  `Complete`): how the reading position, the byte writer and the bit buffer
  stand to each other, and what every bit written so far is. It is needed
  because the result is only told at the end, by three writers in turn, and
  because a file that became too short keeps the loops going in a state
  (`Lost`) in which nothing is right but the counters. `TypeCorrect` and
  `CursorCorrect` hold for every job; `CopyCorrect`, `ResultCorrect` and
  `FitCorrect` under `ShortHeaders`: what precedes the first block is at most
  136 bits long, 56 more than a stream header. That is the exact room the
  formula leaves, and `bzip_block_fits` shows a file that needs more.
* **`BZipPopulate_proof`**, from `FilesAssumption` (cut points ascend). The
  invariant places the ranges: block `b` is taken to start at `cut[b] + b`, one
  byte too far for every block before it. Everything else is arithmetic over
  that: ranges neither overlap nor leave gaps, and end at the first
  corrupt block (`IndexCorrect`), the `assert` in
  the copying loop holds (`SkipCorrect`), the buffer holds a contiguous run of
  the file (`RunCorrect`), short by at most a byte per block touched, and the
  call succeeds (`PopulateCorrect`), and no `size_t` wraps (`TypeCorrect`).
* **`BenchSequence_proof`**, from `SizesAssumption`. The invariant says where
  each iterator is after so many accesses, and what is left of the countdown;
  the latter needs the facts of `Arithmetic`, as the solver does not know how a
  quotient changes from one number to the next.
* **`Benchmark_proof`**, from `ConfigsAssumption` and `SizesAssumption`. `TypeOK`
  needs that every life is a sequence of steps, and that the eager objects ask
  no core for a region. `ObjectKnown` is what carries `RowCorrect` through the
  phases: who can answer an error, who survives a NULL, and that an execution
  on neither leaves something undefined behind. The other three properties
  rest on a ledger. First, of the lists alone: for each benchmark and
  implementation a constructor releases only what it acquired itself, and
  freeing the object releases what it is made of, each thing once, but for the
  named leak (`Balanced`). Then, as an invariant (`LedgerInv`,
  theorem `LedgerBalances`): in every phase, what is held or taken to be held,
  with what the rest of the list will still acquire and release, adds up to the
  object, and in a clean run to its leak. `InputsCorrect` and `ReleaseCorrect`
  read it off at the last access and at the end; `SoundRunsCorrect` adds
  (`Faultless`) that what a sound run releases it has, so that nothing is
  released twice or never acquired.
* **`LazyVector_proof`**, from `ObjectsAssumption` and `WaterAssumption`, for
  objects of every kind, length and chunk size. `LoadsOrdered`: a nested load is
  of an earlier chunk, so populate functions never wait for each other in a
  circle. `VectorImplemented` is the refinement of `Vector`, step by step, from
  the eager object's array if `StartsAsArray`, else from what `Filled` says. Its
  invariant (`Faithful`) says that an unmodified loaded chunk is what was saved
  of it, or else the slice of `Filled` that populate gives it, so that dropping
  it loses nothing. A fib object that is written to has no such array: there the
  proof shows that the elements nobody stored follow from the stored ones before
  them (`Rederives`), and that chunks that were written to keep every element.
  That a read-only fib object *is* the eager one is an induction over the
  indices: `fib_populate`, continuing from any two neighbouring Fibonacci
  numbers, goes on with the numbers that follow. `TypeCorrect` comes with it.
  `ServingEnds` bounds what serving an access takes: the chunks under way are
  neighbours (`Chain`), and since the core does not drop what it has just
  loaded, `Remaining` gets smaller with every step, from 2c + 3 for chunk c.
* **`Psql_proof`**, from `ConstantsAssumption`, for any number of threads. The
  invariant ties the mutex to the one worker inside (`LockHeld`), the
  transaction to it (`TransactionHeld`), and the state of the connection to
  whether anyone has failed (`Connected`). The last part is what carries
  `ConnectionCorrect`: the mutex is *not* released by the failing worker, so the
  others never get in before the process has exited. A second half is about the
  table: no id is ever used twice (`TableOK`), and a loaded chunk holds rows of
  its own range, each once (`LoadedOK`). Distinct numbers out of a range are no
  more than the range is long, hence `AnswersFit`; and as long as nobody
  changes the table, physical and id order are the same one, and an ascending
  list of *all* the numbers of an interval can only count through it, hence
  `PlacesCorrect`.
* **`Arithmetic`** holds the lemmas these share. The library's induction theorems
  take the predicate as a parameter, which the provers cannot instantiate;
  `Least` takes a set instead: a set of naturals that is not empty has a least
  element. Induction is then the argument that a least counterexample follows
  from smaller instances. `Iterates` derives from it that a function can be
  iterated for ever, and so that the recursively defined functions of
  `LazyVector` (`Fib`, and the loop of `fib_populate`) are what their equations
  say.

Every safety invariant, action property and refinement that a passing run checks
is stated by a theorem. Only model-checked is liveness (`ScanEnds`, `Returns`,
`AlwaysReturns`, `ExecutionEnds`, `LoadsFinish`, `AccessesReturn`, `RunEnds`):
proofs under fairness need `ENABLED`, which the prover does not handle. Of
`AccessesReturn`, `ServingEnds` proves the part that needs no fairness: how often
the served access can step before it is over.

## 6. Not modelled

* libbz2, PostgreSQL and the cores are external. Decompression is a choice of
  outcome per block; the server returns the rows of a range in physical or in
  index order; faults, eviction and write-back follow from how the code uses
  the cores.
* Failed allocations, which most of the code does not look for, and failures of
  `ftell` and `fread` where nothing depends on them.
* Argument parsing, unknown names (for which `main` returns at once), timing, CSV
  and log output, the conversion of rows in `Players_normil_new`.
* Functions nothing calls: `__BZip2_normil_new`, `Player_ufo_count`, the
  `*_new` variants of seq that take an end instead of a length.
* The sample size in `Benchmark`: it only shortens a sequence, as
  `BenchSequence` has it. A file of several streams, of which the eager bzip
  object holds the first only: its length is `size` all the same.
* What a core does with an error object beyond being undefined.
* Where rows should be once another session has changed the table, or where its
  ids have gaps: without `ORDER BY` they come in any order `Psql` allows, and
  nothing in the repository says what is right. `FitsTarget` still holds then;
  `RowsInPlace` is about a table nobody changed.
* Accesses during the cleanup of an object: `main` is sequential, and
  `InputsOutliveAccess` checks the order of its phases, not a race with them.
* A fib chunk of a single element, for which `fib_populate` writes
  `target[1]` too; a core rounds chunks up to whole pages.
* Examples, scripts and generated data.

## 7. Plan

In order:

1. *(done)* `BZipParse`, `BZipPopulate`, `BenchSequence` with proofs; `BZipBlock`.
2. *(done)* `Psql` with its concurrency proofs; `LazyVector` over `Vector`.
3. *(done)* Object lifetime and the driver: `Benchmark`.
4. *(done)* Writable fib objects in `LazyVector`; proofs of `BZipBlock`,
   `Benchmark` and of `LazyVector` over `Vector`.
5. *(done)* Proofs of the remaining invariants: the answers and rows of `Psql`,
   the ledger of `Benchmark`, fib objects and `ServingEnds` in `LazyVector`; what
   the scanner guarantees to extraction.
6. Composition of `BenchSequence` with `LazyVector`: what a whole run reads; and
   of scanner, extraction and populate, where the scanner's limits meet the
   object's size.
