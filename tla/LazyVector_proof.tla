-------------------------- MODULE LazyVector_proof --------------------------
(***************************************************************************)
(* Proofs about objects filled on demand, for objects of every length and  *)
(* chunk size, and whatever number of chunks fits into memory.             *)
(***************************************************************************)
EXTENDS LazyVector, Arithmetic, TLAPS

(* What the constructors say of an object. *)
LEMMA ObjectFacts ==
    ASSUME object \in Objects
    PROVE  /\ IsObject(object)
           /\ object.load_ct \in Nat /\ object.load_ct >= 2
           /\ object.length \in Nat /\ object.length > 0
           /\ WordMod \in Nat /\ WordMod > 0 /\ Values \subseteq Nat
<1>1. IsObject(object)
  BY ObjectsAssumption
<1>2. WordMod \in Nat /\ WordMod > 0 /\ Values \subseteq Nat
  BY WaterAssumption
<1> QED BY <1>1, <1>2 DEF IsObject

(* An index lies in its chunk. *)
LEMMA IndexInChunk ==
    ASSUME object \in Objects, NEW i \in Indexes
    PROVE  /\ ChunkOf(i) \in Chunks
           /\ Start(ChunkOf(i)) \in Nat
           /\ i - Start(ChunkOf(i)) \in Offsets(ChunkOf(i))
<1> DEFINE n == object.load_ct
           c == ChunkOf(i)
<1>1. n \in Nat /\ n > 0 /\ i \in Nat /\ object.length \in Nat /\ i < object.length
  BY ObjectFacts DEF Indexes
<1>2. i = c * n + (i % n) /\ i % n \in 0 .. n - 1
  BY <1>1, DivisionFact DEF ChunkOf
<1>3. object.length - 1 \in Nat /\ i <= object.length - 1
  BY <1>1
<1>4. c \in Nat /\ ChunkOf(object.length - 1) \in Nat /\ c <= ChunkOf(object.length - 1)
  BY <1>1, <1>3, QuotientsOrdered DEF ChunkOf
<1>5. c * n \in Nat
  BY <1>1, <1>4, Products
<1>6. c \in Chunks
  BY <1>4 DEF Chunks
<1> HIDE DEF c
<1>7. Start(c) = c * n
  BY DEF Start
<1> DEFINE s == Start(c)
<1>8. s \in Nat /\ i = s + (i % n)
  BY <1>2, <1>5, <1>7
<1>9. End(c) = IF s + n < object.length THEN s + n ELSE object.length
  BY DEF End
<1> HIDE DEF s, n
<1>10. i - s \in 0 .. End(c) - s - 1
  BY <1>1, <1>2, <1>8, <1>9
<1> QED BY <1>6, <1>8, <1>10 DEF Offsets, s, c

(* An offset in a chunk makes an index that lies in that chunk. *)
LEMMA ChunkHasIndexes ==
    ASSUME object \in Objects, NEW c \in Chunks, NEW o \in Offsets(c)
    PROVE  /\ Start(c) \in Nat
           /\ Start(c) + o \in Indexes
           /\ o \in 0 .. object.load_ct - 1
           /\ o \in 0 .. object.length - 1
           /\ ChunkOf(Start(c) + o) = c
           /\ (Start(c) + o) % object.load_ct = o
<1> DEFINE n == object.load_ct
           s == Start(c)
<1>1. n \in Nat /\ n > 0 /\ object.length \in Nat
  BY ObjectFacts
<1>2. c \in Nat
  BY DEF Chunks
<1>3. s = c * n /\ s \in Nat
  BY <1>1, <1>2, Products DEF Start
<1>4. End(c) = IF s + n < object.length THEN s + n ELSE object.length
  BY DEF End
<1>5. o \in 0 .. End(c) - s - 1
  BY DEF Offsets
<1> HIDE DEF s
<1>6. o \in 0 .. n - 1 /\ o \in 0 .. object.length - 1 /\ s + o \in 0 .. object.length - 1
  BY <1>1, <1>3, <1>4, <1>5
<1>7. s + o \in Nat /\ s + o = c * n + o
  BY <1>3, <1>6
<1> HIDE DEF n
<1>8. c \in Int
  BY <1>2
<1>9. (s + o) \div n = c /\ (s + o) % n = o
  BY <1>1, <1>6, <1>7, <1>8, QuotientIs, RemainderIs
<1> QED BY <1>3, <1>6, <1>9 DEF s, n, Indexes, ChunkOf

(* What populate reads of the object lies in the chunk before. *)
LEMMA InputsBefore ==
    ASSUME object \in Objects, NEW c \in Chunks, NEW i \in Inputs(c)
    PROVE  ChunkOf(i) \in Chunks /\ ChunkOf(i) < c /\ ChunkOf(i) = c - 1
<1> DEFINE n == object.load_ct
<1>1. n \in Nat /\ n >= 2 /\ c \in Nat /\ object.length \in Nat /\ object.length > 0
  BY ObjectFacts DEF Chunks
<1>2. Start(c) = c * n /\ Start(c) > 0 /\ i \in {Start(c) - 1, Start(c) - 2}
  BY DEF Inputs, Start
<1>3. c > 0
  <2>1. c = 0 => c * n = 0
    BY <1>1
  <2> QED BY <1>1, <1>2, <2>1
<1>4. c - 1 \in Nat /\ c * n = (c - 1) * n + n
  BY <1>1, <1>3, SMT
<1>5. PICK r \in 0 .. n - 1 : i = (c - 1) * n + r
  <2>1. (c - 1) * n \in Nat
    BY <1>1, <1>4, Products
  <2> DEFINE m == (c - 1) * n
  <2>2. i \in {m + (n - 1), m + (n - 2)}
    <3> HIDE DEF m
    <3>1. Start(c) = m + n
      BY <1>2, <1>4 DEF m
    <3> QED BY <1>1, <1>2, <2>1, <3>1 DEF m
  <2>3. n - 1 \in 0 .. n - 1 /\ n - 2 \in 0 .. n - 1
    BY <1>1
  <2> QED BY <2>2, <2>3
<1>6. i \in Nat
  BY <1>1, <1>4, <1>5, Products
<1> HIDE DEF n
<1>7. c - 1 \in Int /\ n > 0
  BY <1>1, <1>4
<1>8. i \div n = c - 1
  BY <1>1, <1>5, <1>6, <1>7, QuotientIs
<1>9. ChunkOf(i) = c - 1
  BY <1>8 DEF ChunkOf, n
<1>10. ChunkOf(object.length - 1) \in Nat
  <2>1. object.length - 1 \in Nat
    BY <1>1
  <2>2. (object.length - 1) \div n \in Nat
    BY <1>1, <1>7, <2>1, QuotientsOrdered
  <2> QED BY <2>2 DEF ChunkOf, n
<1>11. c <= ChunkOf(object.length - 1)
  BY DEF Chunks
<1>12. c - 1 \in Chunks
  BY <1>1, <1>3, <1>10, <1>11 DEF Chunks
<1> QED BY <1>1, <1>9, <1>12
-----------------------------------------------------------------------------
(***************************************************************************)
(* The chunks being loaded get lower and lower, so the last of them is     *)
(* none of the others, and none is in memory before its turn comes.        *)
(***************************************************************************)
Order ==
    /\ object \in Objects
    /\ loading \in Seq(Chunks)
    /\ access \in {NoAccess} \cup Reads(object) \cup Writes(object)
    /\ LoadsDescend

LEMMA InitOrder == Init => Order
  BY DEF Init, Order, LoadsDescend

(* Facts on the chunk that is being loaded. *)
LEMMA CurrentFacts ==
    ASSUME Order, loading # <<>>
    PROVE  /\ Current \in Chunks
           /\ Len(loading) \in Nat /\ Len(loading) >= 1
           /\ Current \notin DOMAIN resident
           /\ Len(Front(loading)) = Len(loading) - 1
           /\ \A n \in 1 .. Len(loading) - 1 : Front(loading)[n] = loading[n]
           /\ Front(loading) \in Seq(Chunks)
<1>1. Len(loading) \in Nat /\ Len(loading) >= 1 /\ loading \in [1 .. Len(loading) -> Chunks]
  BY DEF Order
<1>2. Len(loading) \in 1 .. Len(loading)
  BY <1>1
<1>3. Front(loading) = [n \in 1 .. Len(loading) - 1 |-> loading[n]]
  BY <1>1 DEF Front, Order
<1>4. Front(loading) \in Seq(Chunks) /\ Len(Front(loading)) = Len(loading) - 1
  BY <1>1, <1>3
<1> QED BY <1>1, <1>2, <1>3, <1>4 DEF Current, Order, LoadsDescend

(* Loading ends for the chunk that came last, and goes on for the others. *)
LEMMA InstallOrder ==
    ASSUME Order, loading # <<>>, NEW elements, Install(Current, elements)
    PROVE  Order'
<1> DEFINE m == Len(loading)
<1>1. /\ m \in Nat /\ m >= 1
      /\ Len(Front(loading)) = m - 1
      /\ \A n \in 1 .. m - 1 : Front(loading)[n] = loading[n]
      /\ Front(loading) \in Seq(Chunks)
  BY CurrentFacts
<1>2. /\ loading' = Front(loading)
      /\ UNCHANGED <<object, access>>
      /\ DOMAIN resident' \subseteq DOMAIN resident \cup {Current}
  BY DEF Install
<1>3. /\ \A k, n \in 1 .. m : k < n => loading[n] < loading[k]
      /\ \A n \in 1 .. m : loading[n] \notin DOMAIN resident /\ loading[n] \in Nat
  <2>1. Chunks \subseteq Nat
    BY DEF Chunks
  <2>2. \A n \in 1 .. m : loading[n] \in Chunks
    BY <1>1 DEF Order
  <2> QED BY <2>1, <2>2 DEF Order, LoadsDescend
<1>4. \A n \in 1 .. m - 1 : loading[n] # Current
  BY <1>1, <1>3 DEF Current
<1>5. LoadsDescend'
  <2> HIDE DEF m
  <2>1. Len(loading') = m - 1 /\ \A n \in 1 .. m - 1 : loading'[n] = loading[n] /\ n \in 1 .. m
    BY <1>1, <1>2
  <2>2. \A k, n \in 1 .. Len(loading') : k < n => loading'[n] < loading'[k]
    BY <1>3, <2>1
  <2>3. \A n \in 1 .. Len(loading') : loading'[n] \notin DOMAIN resident'
    BY <1>2, <1>3, <1>4, <2>1
  <2> QED BY <2>2, <2>3 DEF LoadsDescend
<1>6. loading' \in Seq(Chunks) /\ Chunks' = Chunks
  BY <1>1, <1>2 DEF Chunks, ChunkOf
<1> QED BY <1>2, <1>5, <1>6 DEF Order

LEMMA NextOrder == Order /\ [Next]_vars => Order'
<1> SUFFICES ASSUME Order, [Next]_vars PROVE Order'
  OBVIOUS
<1>0. object' = object /\ Chunks' = Chunks
  BY DEF Next, Begin, Serve, Perform, Fault, Restore, Populate, NestedFault, NullSelf,
         Crashed, Install, vars, Chunks, ChunkOf
<1>1. CASE Begin
  BY <1>0, <1>1 DEF Begin, Order, LoadsDescend
<1>2. CASE Perform
  <2>1. loading = <<>> /\ loading' = <<>> /\ access' = NoAccess
    BY <1>2 DEF Perform
  <2> QED BY <1>0, <2>1 DEF Order, LoadsDescend
<1>3. CASE Fault
  <2>1. /\ loading' = <<ChunkOf(access.index)>> /\ access # NoAccess
        /\ ChunkOf(access.index) \notin DOMAIN resident
        /\ UNCHANGED <<access, resident>>
    BY <1>3 DEF Fault, Pending, Loaded
  <2>2. ChunkOf(access.index) \in Chunks
    <3>1. access.index \in Indexes
      BY <2>1 DEF Order, Reads, Writes, Indexes
    <3> QED BY <3>1, IndexInChunk DEF Order
  <2> QED BY <1>0, <2>1, <2>2 DEF Order, LoadsDescend
<1>4. CASE Restore
  BY <1>4, InstallOrder DEF Restore, Loading
<1>5. CASE Populate
  BY <1>5, InstallOrder DEF Populate, Loading
<1>6. CASE NestedFault
  <2>1. PICK i \in Inputs(Current) : ~Loaded(i) /\ loading' = Append(loading, ChunkOf(i))
    BY <1>6 DEF NestedFault
  <2>2. loading # <<>> /\ UNCHANGED <<access, resident>>
    BY <1>6 DEF NestedFault, Loading
  <2> DEFINE m == Len(loading)
             d == ChunkOf(i)
  <2>3. d \in Chunks /\ d < Current /\ Current = loading[m] /\ m \in Nat /\ m >= 1
    BY <2>2, CurrentFacts, InputsBefore DEF Order, Current
  <2>4. d \notin DOMAIN resident
    BY <2>1 DEF Loaded
  <2>5. loading \in Seq(Chunks) /\ Chunks \subseteq Nat
    BY DEF Order, Chunks
  <2>6. \A n \in 1 .. m : loading[n] \in Nat /\ (n < m => Current < loading[n])
    <3>1. \A n \in 1 .. m : loading[n] \in Nat
      <4>1. \A n \in 1 .. m : loading[n] \in Chunks
        BY DEF Order
      <4> QED BY <2>5, <4>1
    <3>2. m \in 1 .. m
      BY <2>3
    <3> QED BY <2>3, <3>1, <3>2 DEF Order, LoadsDescend
  <2> HIDE DEF d
  <2>7. /\ loading' \in Seq(Chunks) /\ Len(loading') = m + 1 /\ loading'[m + 1] = d
        /\ \A n \in 1 .. m : loading'[n] = loading[n]
    BY <2>1, <2>3, <2>5 DEF d
  <2>8. \A n \in 1 .. m : d < loading[n]
    BY <2>3, <2>5, <2>6
  <2>9. LoadsDescend'
    <3>1. \A k, n \in 1 .. Len(loading') : k < n => loading'[n] < loading'[k]
      <4> SUFFICES ASSUME NEW k \in 1 .. m + 1, NEW n \in 1 .. m + 1, k < n
                   PROVE  loading'[n] < loading'[k]
        BY <2>7
      <4>1. k \in 1 .. m
        BY <2>3
      <4>2. CASE n = m + 1
        BY <2>7, <2>8, <4>1, <4>2
      <4>3. CASE n # m + 1
        <5>1. n \in 1 .. m
          BY <2>3, <4>3
        <5> QED BY <2>7, <4>1, <5>1 DEF Order, LoadsDescend
      <4> QED BY <4>2, <4>3
    <3>2. \A n \in 1 .. Len(loading') : loading'[n] \notin DOMAIN resident'
      <4> SUFFICES ASSUME NEW n \in 1 .. m + 1 PROVE loading'[n] \notin DOMAIN resident
        BY <2>2, <2>7
      <4>1. CASE n = m + 1
        BY <2>4, <2>7, <4>1
      <4>2. CASE n # m + 1
        <5>1. n \in 1 .. m
          BY <2>3, <4>2
        <5> QED BY <2>7, <5>1 DEF Order, LoadsDescend
      <4> QED BY <4>1, <4>2
    <3> QED BY <3>1, <3>2 DEF LoadsDescend
  <2> QED BY <1>0, <2>2, <2>7, <2>9 DEF Order
<1>7. CASE NullSelf
  BY <1>0, <1>7 DEF NullSelf, Order, LoadsDescend
<1>8. CASE Crashed \/ UNCHANGED vars
  BY <1>0, <1>8 DEF Crashed, vars, Order, LoadsDescend
<1> QED BY <1>1, <1>2, <1>3, <1>4, <1>5, <1>6, <1>7, <1>8 DEF Next, Serve

(***************************************************************************)
(* A fault in fib_populate is for an earlier chunk than the one it fills,  *)
(* and no chunk is loaded twice: populate functions never wait for each    *)
(* other in a circle, whatever the core drops in between.                  *)
(***************************************************************************)
THEOREM LoadsOrdered == Spec => []LoadsDescend
<1>1. Spec => []Order
  BY InitOrder, NextOrder, PTL DEF Spec
<1>2. Order => LoadsDescend
  BY DEF Order
<1> QED BY <1>1, <1>2, PTL
-----------------------------------------------------------------------------
(***************************************************************************)
(* The Fibonacci numbers: the recursion that fib_populate and the eager    *)
(* constructor follow has one solution from any two elements on, and its   *)
(* solutions continue each other.                                          *)
(***************************************************************************)
Follows(f) == \A i \in Nat : f[i + 2] = (f[i + 1] + f[i]) % WordMod
Sums(f) == f \in [Nat -> Nat] /\ Follows(f)

LEMMA SumsExist ==
    ASSUME NEW a \in Nat, NEW b \in Nat
    PROVE  \E f : Sums(f) /\ f[0] = a /\ f[1] = b
<1>0. WordMod \in Nat /\ WordMod > 0
  BY WaterAssumption
<1> DEFINE S == Nat \X Nat
           start == <<a, b>>
           step == [p \in S |-> <<p[2], (p[2] + p[1]) % WordMod>>]
<1>1. step \in [S -> S] /\ start \in S
  <2>1. ASSUME NEW p \in S PROVE p[2] \in Nat /\ (p[2] + p[1]) % WordMod \in Nat
    <3>1. p[2] + p[1] \in Nat
      OBVIOUS
    <3> HIDE DEF S
    <3>2. (p[2] + p[1]) % WordMod \in Nat
      BY <1>0, <3>1, DivisionFact
    <3> QED BY <3>2 DEF S
  <2> QED BY <2>1
<1>2. \A p \in S : step[p][1] = p[2] /\ step[p][2] = (p[2] + p[1]) % WordMod
  OBVIOUS
<1> HIDE DEF step
<1>3. PICK g \in [Nat -> S] : g[0] = start /\ \A n \in Nat : g[n + 1] = step[g[n]]
  <2> HIDE DEF S, start
  <2> QED BY <1>1, Iterates
<1> DEFINE f == [i \in Nat |-> g[i][1]]
<1>4. \A i \in Nat : g[i] \in S /\ g[i][1] \in Nat /\ g[i][2] \in Nat
  OBVIOUS
<1>5. \A i \in Nat : /\ g[i + 1][1] = g[i][2]
                     /\ g[i + 1][2] = (g[i][2] + g[i][1]) % WordMod
  BY <1>2, <1>3, <1>4
<1>6. \A i \in Nat : g[i + 2][1] = (g[i + 1][1] + g[i][1]) % WordMod
  <2> TAKE i \in Nat
  <2>1. i + 1 \in Nat /\ (i + 1) + 1 = i + 2
    OBVIOUS
  <2> QED BY <1>5, <2>1
<1>7. f \in [Nat -> Nat] /\ \A i \in Nat : f[i] = g[i][1] /\ i + 1 \in Nat /\ i + 2 \in Nat
  BY <1>4
<1>8. g[1][1] = b /\ g[0][1] = a
  <2>1. g[0 + 1][1] = g[0][2]
    BY <1>5
  <2> QED BY <1>3, <2>1
<1> HIDE DEF f, S
<1>9. Sums(f)
  BY <1>6, <1>7 DEF Sums, Follows
<1>10. f[0] = a /\ f[1] = b
  BY <1>7, <1>8
<1> QED BY <1>9, <1>10

(* One that starts with two elements of another goes on like it. *)
LEMMA SumsAgree ==
    ASSUME NEW f, NEW g, NEW k \in Nat, f[0] = g[k], f[1] = g[k + 1],
           Follows(f), Follows(g)
    PROVE  \A i \in Nat : f[i] = g[k + i]
<1> DEFINE T == {i \in Nat : f[i] # g[k + i]}
<1> SUFFICES ASSUME T # {} PROVE FALSE
  OBVIOUS
<1>1. PICK i \in T : \A j \in T : i <= j
  <2>1. T \subseteq Nat
    OBVIOUS
  <2> HIDE DEF T
  <2> QED BY <2>1, Least
<1>2. i \in Nat /\ f[i] # g[k + i]
  OBVIOUS
<1>3. i # 0 /\ i # 1
  BY <1>2
<1>4. PICK j \in Nat : i = j + 2
  <2>1. i - 2 \in Nat /\ i = (i - 2) + 2
    BY <1>2, <1>3
  <2> QED BY <2>1
<1>5. j \notin T /\ j + 1 \notin T /\ j + 1 \in Nat
  BY <1>1, <1>4
<1>6. f[j] = g[k + j] /\ f[j + 1] = g[k + (j + 1)]
  BY <1>5
<1>7. k + j \in Nat /\ k + (j + 1) = (k + j) + 1 /\ k + i = (k + j) + 2
  BY <1>4
<1>8. f[i] = (f[j + 1] + f[j]) % WordMod /\ g[k + i] = (g[(k + j) + 1] + g[k + j]) % WordMod
  BY <1>4, <1>7 DEF Follows
<1> QED BY <1>2, <1>6, <1>7, <1>8

(* The loop of fib_populate computes them. *)
LEMMA FibFromFact ==
    ASSUME NEW a \in Nat, NEW b \in Nat
    PROVE  Sums(FibFrom(a, b)) /\ FibFrom(a, b)[0] = a /\ FibFrom(a, b)[1] = b
<1> DEFINE Loop(f) == [i \in Nat |-> IF i = 0 THEN a ELSE IF i = 1 THEN b
                                     ELSE (f[i - 1] + f[i - 2]) % WordMod]
           t == FibFrom(a, b)
<1>1. \E f : f = Loop(f)
  <2>1. PICK f : Sums(f) /\ f[0] = a /\ f[1] = b
    BY SumsExist
  <2>2. f \in [Nat -> Nat]
    BY <2>1 DEF Sums
  <2>3. ASSUME NEW i \in Nat, i # 0, i # 1 PROVE f[i] = (f[i - 1] + f[i - 2]) % WordMod
    <3>1. i - 2 \in Nat /\ (i - 2) + 2 = i /\ (i - 2) + 1 = i - 1
      BY <2>3
    <3> QED BY <2>1, <3>1 DEF Sums, Follows
  <2>4. \A i \in Nat : f[i] = Loop(f)[i]
    BY <2>1, <2>3
  <2>5. f = Loop(f)
    BY <2>2, <2>4
  <2> QED BY <2>5
<1>2. t = Loop(t)
  BY <1>1 DEF FibFrom
<1> HIDE DEF t
<1>3. DOMAIN t = Nat /\ t[0] = a /\ t[1] = b
  BY <1>2
<1>4. Follows(t)
  <2> SUFFICES ASSUME NEW i \in Nat PROVE t[i + 2] = (t[i + 1] + t[i]) % WordMod
    BY DEF Follows
  <2>1. i + 2 \in Nat /\ i + 2 # 0 /\ i + 2 # 1 /\ (i + 2) - 1 = i + 1 /\ (i + 2) - 2 = i
    OBVIOUS
  <2>2. Loop(t)[i + 2] = (t[(i + 2) - 1] + t[(i + 2) - 2]) % WordMod
    BY <2>1
  <2> QED BY <1>2, <2>1, <2>2
<1>5. t = [i \in Nat |-> t[i]]
  BY <1>2
<1> HIDE DEF Loop
<1>6. PICK f : Sums(f) /\ f[0] = a /\ f[1] = b
  BY SumsExist
<1>7. Follows(f) /\ 0 \in Nat /\ 0 + 1 = 1
  BY <1>6 DEF Sums
<1>8. \A i \in Nat : t[i] = f[0 + i]
  BY <1>3, <1>4, <1>6, <1>7, SumsAgree
<1>9. \A i \in Nat : t[i] \in Nat
  BY <1>6, <1>8 DEF Sums
<1>10. t \in [Nat -> Nat]
  BY <1>5, <1>9
<1> QED BY <1>3, <1>4, <1>10 DEF Sums, t

(* So does the loop of the eager constructor. *)
LEMMA FibFact == Sums(Fib) /\ Fib[0] = 1 /\ Fib[1] = 1
<1> DEFINE f == FibFrom(1, 1)
           Loop(g) == [i \in Nat |-> IF i < 2 THEN 1 ELSE (g[i - 1] + g[i - 2]) % WordMod]
<1>1. Sums(f) /\ f[0] = 1 /\ f[1] = 1
  BY FibFromFact
<1> HIDE DEF f
<1>2. \E g : g = Loop(g)
  <2>1. f \in [Nat -> Nat]
    BY <1>1 DEF Sums
  <2>2. ASSUME NEW i \in Nat PROVE f[i] = Loop(f)[i]
    <3>1. CASE i < 2
      BY <1>1, <3>1
    <3>2. CASE ~(i < 2)
      <4>1. i - 2 \in Nat /\ (i - 2) + 2 = i /\ (i - 2) + 1 = i - 1
        BY <3>2
      <4>2. f[i] = (f[i - 1] + f[i - 2]) % WordMod
        BY <1>1, <4>1 DEF Sums, Follows
      <4> QED BY <3>2, <4>2
    <3> QED BY <3>1, <3>2
  <2>3. f = Loop(f)
    BY <2>1, <2>2
  <2> QED BY <2>3
<1>3. Fib = Loop(Fib)
  BY <1>2 DEF Fib
<1>4. Fib = [i \in Nat |-> Fib[i]] /\ Fib[0] = 1 /\ Fib[1] = 1
  BY <1>3
<1>5. Follows(Fib)
  <2> SUFFICES ASSUME NEW i \in Nat PROVE Fib[i + 2] = (Fib[i + 1] + Fib[i]) % WordMod
    BY DEF Follows
  <2>1. i + 2 \in Nat /\ ~(i + 2 < 2) /\ (i + 2) - 1 = i + 1 /\ (i + 2) - 2 = i
    OBVIOUS
  <2>2. Loop(Fib)[i + 2] = (Fib[(i + 2) - 1] + Fib[(i + 2) - 2]) % WordMod
    BY <2>1
  <2> QED BY <1>3, <2>1, <2>2
<1>6. Follows(f) /\ 0 \in Nat /\ 0 + 1 = 1
  BY <1>1 DEF Sums
<1>7. \A i \in Nat : Fib[i] = f[0 + i]
  BY <1>1, <1>4, <1>5, <1>6, SumsAgree
<1>8. Fib \in [Nat -> Nat]
  <2>1. \A i \in Nat : Fib[i] \in Nat
    BY <1>1, <1>7 DEF Sums
  <2> QED BY <1>4, <2>1
<1> QED BY <1>4, <1>5, <1>8 DEF Sums

(* A fresh fib object is what the eager constructor makes. *)
LEMMA FibFromStart == \A i \in Nat : FibFrom(1, 1)[i] = Fib[i]
<1> DEFINE f == FibFrom(1, 1)
<1>1. Sums(f) /\ f[0] = 1 /\ f[1] = 1
  BY FibFromFact
<1> HIDE DEF f
<1>2. f[0] = Fib[0] /\ f[1] = Fib[0 + 1] /\ 0 \in Nat /\ Follows(f) /\ Follows(Fib)
  BY <1>1, FibFact DEF Sums
<1>3. \A i \in Nat : f[i] = Fib[0 + i]
  BY <1>2, SumsAgree
<1> QED BY <1>3 DEF f

(* What follows two natural numbers is natural. *)
LEMMA FibAfterNatural ==
    ASSUME NEW x \in Nat, NEW y \in Nat
    PROVE  FibAfter(<<x, y>>) \in [Nat -> Nat]
<1> DEFINE first == (y + x) % WordMod
           second == (first + y) % WordMod
<1>0. WordMod \in Nat /\ WordMod > 0
  BY WaterAssumption
<1>1. first \in Nat
  BY <1>0, DivisionFact
<1>2. second \in Nat
  <2> HIDE DEF first
  <2> QED BY <1>0, <1>1, DivisionFact
<1>3. FibAfter(<<x, y>>) = FibFrom(first, second)
  BY DEF FibAfter
<1> HIDE DEF first, second
<1>4. Sums(FibFrom(first, second))
  BY <1>1, <1>2, FibFromFact
<1> QED BY <1>3, <1>4 DEF Sums

(* What follows two of the Fibonacci numbers are the next ones. *)
LEMMA FibAfterFib ==
    ASSUME NEW k \in Nat, k >= 2
    PROVE  \A i \in Nat : FibAfter(<<Fib[k - 2], Fib[k - 1]>>)[i] = Fib[k + i]
<1> DEFINE x == Fib[k - 2]
           y == Fib[k - 1]
           f == FibAfter(<<x, y>>)
<1>1. k - 2 \in Nat /\ k - 1 \in Nat /\ (k - 2) + 2 = k /\ (k - 2) + 1 = k - 1
      /\ (k - 1) + 2 = k + 1 /\ (k - 1) + 1 = k
  OBVIOUS
<1>2. Fib[k] = (y + x) % WordMod /\ Fib[k + 1] = (Fib[k] + y) % WordMod
  BY <1>1, FibFact DEF Sums, Follows
<1>3. f = FibFrom(Fib[k], Fib[k + 1])
  BY <1>2 DEF FibAfter
<1>4. Fib[k] \in Nat /\ Fib[k + 1] \in Nat
  BY FibFact DEF Sums
<1>5. Sums(f) /\ f[0] = Fib[k] /\ f[1] = Fib[k + 1]
  BY <1>3, <1>4, FibFromFact
<1> HIDE DEF f, x, y
<1>6. Follows(f) /\ Follows(Fib)
  BY <1>5, FibFact DEF Sums
<1>7. \A i \in Nat : f[i] = Fib[k + i]
  BY <1>5, <1>6, SumsAgree
<1> QED BY <1>7 DEF f, x, y
-----------------------------------------------------------------------------
(***************************************************************************)
(* Elements that nobody writes to stay what they are, in all but the fib   *)
(* objects that are written to.                                            *)
(***************************************************************************)
Steady == object.kind # "fib" \/ object.read_only

(* What the object starts with in one chunk. *)
Slice(c) == [o \in Offsets(c) |-> Filled(object)[Start(c) + o]]

LEMMA KindFacts ==
    ASSUME object \in Objects
    PROVE  \/ /\ object.kind = "seq"
              /\ Filled(object) = EagerSeq(object)
              /\ \A c : Populated(c) = SeqFill(c)
           \/ /\ object.kind \in {"col", "mmap"}
              /\ Filled(object) = RepeatedSource(object)
              /\ \A c : Populated(c) = SourceFill(c)
           \/ /\ object.kind = "fib"
              /\ Filled(object) = EagerFib(object)
              /\ \A c : Populated(c) = FibFill(c, BeforeChunk(c))
<1>1. object.kind \in {"seq", "fib", "col", "mmap"}
  BY ObjectFacts DEF IsObject
<1>2. CASE object.kind = "seq"
  BY <1>2 DEF Filled, Array, Populated
<1>3. CASE object.kind \in {"col", "mmap"}
  BY <1>3 DEF Filled, Array, Populated
<1>4. CASE object.kind = "fib"
  BY <1>4 DEF Filled, Array, Populated
<1> QED BY <1>1, <1>2, <1>3, <1>4

(* They are natural numbers. *)
LEMMA FilledNatural ==
    ASSUME object \in Objects
    PROVE  Filled(object) \in [Indexes -> Nat]
<1>0. /\ object.from \in Nat /\ object.by \in Nat /\ WordMod \in Nat /\ WordMod > 0
      /\ object.source \in [0 .. object.length - 1 -> Nat]
      /\ object.load_ct \in Nat /\ object.load_ct > 0 /\ object.length \in Nat
  BY ObjectFacts DEF IsObject
<1>1. CASE Filled(object) = EagerSeq(object)
  <2>1. ASSUME NEW i \in Nat PROVE (object.from + object.by * i) % WordMod \in Nat
    <3>1. object.from + object.by * i \in Nat
      BY <1>0, Products
    <3> QED BY <1>0, <3>1, DivisionFact
  <2>2. Indexes \subseteq Nat
    BY DEF Indexes
  <2> QED BY <1>1, <2>1, <2>2 DEF EagerSeq, Indexes
<1>2. CASE Filled(object) = RepeatedSource(object)
  <2>1. ASSUME NEW i \in Indexes PROVE object.source[i % object.load_ct] \in Nat
    <3> DEFINE n == object.load_ct
               o == i - Start(ChunkOf(i))
    <3>1. /\ ChunkOf(i) \in Chunks /\ o \in Offsets(ChunkOf(i))
          /\ Start(ChunkOf(i)) \in Nat /\ i \in Nat
      BY IndexInChunk DEF Indexes
    <3>2. Start(ChunkOf(i)) + o = i
      BY <3>1
    <3>3. i % n = o /\ o \in 0 .. object.length - 1
      <4> HIDE DEF o
      <4> QED BY <3>1, <3>2, ChunkHasIndexes
    <3> QED BY <1>0, <3>3
  <2> QED BY <1>2, <2>1 DEF RepeatedSource, Indexes
<1>3. CASE Filled(object) = EagerFib(object)
  BY <1>3, FibFact DEF EagerFib, Indexes, Sums
<1> QED BY <1>1, <1>2, <1>3, KindFacts

(* Where a chunk starts, and what comes before it. *)
LEMMA ChunkStart ==
    ASSUME object \in Objects, NEW c \in Chunks
    PROVE  Start(c) \in Indexes /\ Start(c) \in Nat /\ c \in Nat
<1> DEFINE n == object.load_ct
           q == ChunkOf(object.length - 1)
<1>1. n \in Nat /\ n > 0 /\ object.length \in Nat /\ object.length > 0
  BY ObjectFacts
<1>2. object.length - 1 \in Nat
  BY <1>1
<1>3. /\ object.length - 1 = q * n + ((object.length - 1) % n)
      /\ (object.length - 1) % n \in 0 .. n - 1
      /\ q \in Nat
  <2> DEFINE m == object.length - 1
  <2>1. q = m \div n
    BY DEF ChunkOf
  <2> HIDE DEF m, n, q
  <2>2. m \in Nat /\ n \in Nat /\ n > 0 /\ m <= m
    BY <1>1, <1>2 DEF m, n
  <2>3. m = (m \div n) * n + (m % n) /\ m % n \in 0 .. n - 1
    BY <2>2, DivisionFact
  <2>4. m \div n \in Nat
    BY <2>2, QuotientsOrdered
  <2> QED BY <2>1, <2>3, <2>4 DEF m
<1>4. c \in Nat /\ q - c \in Nat
  BY <1>3 DEF Chunks
<1> HIDE DEF q
<1>5. (q - c) * n \in Nat /\ q * n \in Nat /\ c * n \in Nat
  BY <1>1, <1>3, <1>4, Products
<1>6. (q - c) * n = q * n - c * n
  BY <1>1, <1>3, <1>4, ProductOfDifference
<1> DEFINE a == q * n
           b == c * n
           d == (q - c) * n
           r == (object.length - 1) % n
<1>7. /\ d = a - b /\ d \in Nat /\ a \in Nat /\ b \in Nat /\ r \in Nat
      /\ object.length - 1 = a + r
  BY <1>3, <1>5, <1>6
<1>8. Start(c) = b
  BY DEF Start
<1> HIDE DEF a, b, d, r, n
<1>9. b \in 0 .. object.length - 1
  BY <1>2, <1>7
<1> QED BY <1>4, <1>8, <1>9 DEF Indexes

LEMMA ChunkFull ==
    ASSUME object \in Objects, NEW c \in Chunks, NEW d \in Chunks, d < c
    PROVE  /\ Start(d + 1) = Start(d) + object.load_ct
           /\ Start(d + 1) <= Start(c)
           /\ Offsets(d) = 0 .. object.load_ct - 1
<1> DEFINE n == object.load_ct
<1>1. n \in Nat /\ n > 0 /\ object.length \in Nat
  BY ObjectFacts
<1>2. c \in Nat /\ d \in Nat /\ Start(c) \in 0 .. object.length - 1 /\ Start(d) \in Nat
  BY ChunkStart DEF Indexes
<1>3. (d + 1) * n = d * n + n
  <2>1. d \in Int /\ n \in Nat
    BY <1>1, <1>2
  <2> HIDE DEF n
  <2> QED BY <2>1, ProductOfSuccessor
<1>4. Start(d + 1) = Start(d) + n
  BY <1>3 DEF Start
<1>5. Start(d + 1) <= Start(c)
  <2>1. c - (d + 1) \in Nat
    BY <1>2
  <2>2. (c - (d + 1)) * n \in Nat
    BY <1>1, <2>1, Products
  <2>3. (c - (d + 1)) * n = c * n - (d + 1) * n
    <3> DEFINE e == d + 1
    <3>1. c \in Int /\ e \in Int /\ n \in Nat
      BY <1>1, <1>2
    <3> HIDE DEF n, e
    <3>2. (c - e) * n = c * n - e * n
      BY <3>1, ProductOfDifference
    <3> QED BY <3>2 DEF e
  <2> DEFINE x == (c - (d + 1)) * n
  <2>4. x = Start(c) - Start(d + 1) /\ x \in Nat
    BY <2>2, <2>3 DEF Start
  <2>5. Start(d + 1) \in Nat
    BY <1>1, <1>2, <1>4
  <2> HIDE DEF x
  <2> QED BY <1>2, <2>4, <2>5
<1>6. End(d) = IF Start(d) + n < object.length THEN Start(d) + n ELSE object.length
  BY DEF End
<1> DEFINE s == Start(d)
<1>7. End(d) - s = n
  <2> HIDE DEF s, n
  <2>1. s + n < object.length
    BY <1>1, <1>2, <1>4, <1>5 DEF s, n
  <2> QED BY <1>1, <1>2, <1>6, <2>1 DEF s, n
<1> QED BY <1>4, <1>5, <1>7 DEF Offsets
-----------------------------------------------------------------------------
(***************************************************************************)
(* A chunk in memory that was not written to is what was saved of it, or   *)
(* the part of the array it was populated with: dropping it loses nothing. *)
(* In a fib object that is written to it need not be that part any more.   *)
(***************************************************************************)
Faithful ==
    \A c \in DOMAIN resident \ modified :
        IF c \in DOMAIN saved THEN resident[c] = saved[c]
        ELSE Steady => resident[c] = Slice(c)

(* Nothing is written to an object that is read only, so nothing is saved. *)
NotWritten ==
    object.read_only => /\ access \in {NoAccess} \cup Reads(object)
                        /\ modified = {} /\ DOMAIN saved = {}

IInv == TypeOK /\ Order /\ NotWritten /\ Faithful

LEMMA InitInv == Init => IInv
<1> SUFFICES ASSUME Init PROVE IInv
  OBVIOUS
<1>1. Order
  BY InitOrder
<1>2. TypeOK /\ Faithful /\ NotWritten
  BY DEF Init, TypeOK, Faithful, NotWritten
<1> QED BY <1>1, <1>2 DEF IInv

(* A loaded element is a number, in a steady fib object the one it always was. *)
LEMMA ElementFact ==
    ASSUME IInv, NEW i \in Indexes, Loaded(i)
    PROVE  /\ Element(i) \in Nat
           /\ object.kind = "fib" /\ Steady => Element(i) = Fib[i]
<1> DEFINE c == ChunkOf(i)
           o == i - Start(c)
<1>1. object \in Objects
  BY DEF IInv, Order
<1>2. c \in DOMAIN resident /\ c \in Chunks /\ o \in Offsets(c) /\ Start(c) \in Nat /\ i \in Nat
  BY <1>1, IndexInChunk DEF Loaded, Indexes
<1>3. Element(i) = resident[c][o] /\ Start(c) + o = i
  BY <1>2 DEF Element
<1> HIDE DEF c, o
<1>4. resident[c] \in [Offsets(c) -> Nat]
  BY <1>2 DEF IInv, TypeOK
<1>5. ASSUME object.kind = "fib", Steady PROVE resident[c][o] = Fib[i]
  <2>1. modified = {} /\ DOMAIN saved = {}
    BY <1>5 DEF IInv, NotWritten, Steady
  <2>2. resident[c] = Slice(c)
    BY <1>2, <1>5, <2>1 DEF IInv, Faithful
  <2>3. Slice(c)[o] = Filled(object)[i]
    BY <1>2, <1>3 DEF Slice
  <2>4. Filled(object)[i] = Fib[i]
    BY <1>1, <1>5, KindFacts DEF EagerFib, Indexes
  <2> QED BY <2>2, <2>3, <2>4
<1> QED BY <1>2, <1>3, <1>4, <1>5

(* The populate functions fill a chunk with numbers: its part of the array. *)
LEMMA PopulatedIsSlice ==
    ASSUME IInv, NEW c \in Chunks, \A i \in Inputs(c) : Loaded(i)
    PROVE  /\ Populated(c) \in [Offsets(c) -> Nat]
           /\ Steady => Populated(c) = Slice(c)
<1>0. object \in Objects
  BY DEF IInv, Order
<1>1. \A o \in Offsets(c) : /\ Start(c) + o \in Indexes
                            /\ o \in Nat /\ Start(c) \in Nat
                            /\ o \in 0 .. object.length - 1
                            /\ (Start(c) + o) % object.load_ct = o
                            /\ Filled(object)[Start(c) + o] \in Nat
  BY <1>0, ChunkHasIndexes, FilledNatural
<1>2. Slice(c) \in [Offsets(c) -> Nat]
  BY <1>1 DEF Slice
<1>3. CASE /\ Filled(object) = EagerSeq(object)
           /\ \A d : Populated(d) = SeqFill(d)
  <2>1. ASSUME NEW o \in Offsets(c)
        PROVE  Filled(object)[Start(c) + o] = (object.from + object.by * (o + Start(c))) % WordMod
    <3>1. o + Start(c) = Start(c) + o
      BY <1>1
    <3>2. \A i \in Indexes : Filled(object)[i] = (object.from + object.by * i) % WordMod
      BY <1>3 DEF EagerSeq, Indexes
    <3> QED BY <1>1, <3>1, <3>2
  <2>2. Populated(c) = Slice(c)
    BY <1>3, <2>1 DEF SeqFill, Slice
  <2> QED BY <1>2, <2>2
<1>4. CASE /\ Filled(object) = RepeatedSource(object)
           /\ \A d : Populated(d) = SourceFill(d)
  <2>1. ASSUME NEW o \in Offsets(c)
        PROVE  Filled(object)[Start(c) + o] = object.source[o]
    BY <1>1, <1>4 DEF RepeatedSource, Indexes
  <2>2. Populated(c) = Slice(c)
    BY <1>4, <2>1 DEF SourceFill, Slice
  <2> QED BY <1>2, <2>2
<1>5. CASE /\ object.kind = "fib"
           /\ Filled(object) = EagerFib(object)
           /\ \A d : Populated(d) = FibFill(d, BeforeChunk(d))
  <2> DEFINE s == Start(c)
             target == IF c = 0 THEN FibFrom(1, 1) ELSE FibAfter(BeforeChunk(c))
  <2>1. Populated(c) = [o \in Offsets(c) |-> target[o]]
    BY <1>5 DEF FibFill
  <2>2. Slice(c) = [o \in Offsets(c) |-> Fib[s + o]]
    <3>1. \A o \in Offsets(c) : Filled(object)[s + o] = Fib[s + o]
      BY <1>1, <1>5 DEF EagerFib, Indexes
    <3> QED BY <3>1 DEF Slice
  <2>3. CASE c = 0
    <3>1. s = 0
      BY <1>0, <2>3, ObjectFacts DEF Start
    <3>2. \A o \in Offsets(c) : target[o] = Fib[s + o] /\ Fib[s + o] \in Nat
      BY <1>1, <2>3, <3>1, FibFromStart, FibFact DEF Sums
    <3> QED BY <2>1, <2>2, <3>2
  <2>4. CASE c # 0
    <3>1. s >= 2 /\ s \in Indexes /\ s \in Nat /\ s - 1 \in Indexes /\ s - 2 \in Indexes
      <4>1. s \in Indexes /\ s \in Nat /\ c \in Nat
        BY <1>0, ChunkStart
      <4>2. object.load_ct \in Nat /\ object.load_ct >= 2 /\ object.length \in Nat
        BY <1>0, ObjectFacts
      <4>3. s >= object.load_ct
        BY <2>4, <4>1, <4>2, Multiple DEF Start
      <4> HIDE DEF s
      <4> QED BY <4>1, <4>2, <4>3 DEF Indexes
    <3>2. Loaded(s - 1) /\ Loaded(s - 2)
      <4>1. Inputs(c) = {s - 1, s - 2}
        BY <1>5, <3>1 DEF Inputs
      <4> QED BY <4>1
    <3> DEFINE x == Element(s - 2)
               y == Element(s - 1)
    <3>3. target = FibAfter(<<x, y>>)
      BY <2>4 DEF BeforeChunk, Self
    <3>4. x \in Nat /\ y \in Nat
      BY <3>1, <3>2, ElementFact
    <3>5. Steady => x = Fib[s - 2] /\ y = Fib[s - 1]
      BY <1>5, <3>1, <3>2, ElementFact
    <3> HIDE DEF target, x, y, s
    <3>6. target \in [Nat -> Nat]
      BY <3>3, <3>4, FibAfterNatural
    <3>7. Steady => \A o \in Nat : target[o] = Fib[s + o]
      <4> SUFFICES ASSUME Steady PROVE \A o \in Nat : target[o] = Fib[s + o]
        OBVIOUS
      <4>1. target = FibAfter(<<Fib[s - 2], Fib[s - 1]>>)
        BY <3>3, <3>5
      <4> QED BY <3>1, <4>1, FibAfterFib
    <3> QED BY <1>1, <2>1, <2>2, <3>6, <3>7
  <2> QED BY <2>3, <2>4
<1> QED BY <1>0, <1>3, <1>4, <1>5, KindFacts
-----------------------------------------------------------------------------
(***************************************************************************)
(* What the object holds: of a chunk that is stored, the stored elements;  *)
(* of the others, if it is steady, what they were to begin with.           *)
(***************************************************************************)
HoldsStored ==
    /\ DOMAIN Contents = Indexes
    /\ \A i \in Indexes :
          IsStored(ChunkOf(i)) => Contents[i] = Stored(ChunkOf(i))[i - Start(ChunkOf(i))]

LEMMA ContentsStored == HoldsStored
<1> USE DEF HoldsStored
<1>1. CASE object.kind = "fib"
  <2>1. Contents = [i \in Indexes |-> FibElement(i)]
    BY <1>1 DEF Contents, FibContents
  <2>2. \A i \in Indexes :
          IsStored(ChunkOf(i)) => FibElement(i) = Stored(ChunkOf(i))[i - Start(ChunkOf(i))]
    BY DEF FibElement
  <2> QED BY <2>1, <2>2
<1>2. CASE object.kind # "fib"
  BY <1>2 DEF Contents
<1> QED BY <1>1, <1>2

(* The stored chunks of a steady fib object are parts of the array. *)
LEMMA StoredFib ==
    ASSUME IInv, Steady, object.kind = "fib", NEW c \in Chunks, IsStored(c)
    PROVE  Stored(c) = [o \in Offsets(c) |-> Fib[Start(c) + o]]
<1>1. object \in Objects /\ modified = {} /\ DOMAIN saved = {}
  BY DEF IInv, Order, NotWritten, Steady
<1>2. c \in DOMAIN resident /\ Stored(c) = resident[c]
  BY <1>1 DEF IsStored, Stored
<1>3. Stored(c) = Slice(c)
  BY <1>1, <1>2 DEF IInv, Faithful
<1>4. \A o \in Offsets(c) : Filled(object)[Start(c) + o] = Fib[Start(c) + o]
  <2>1. \A i \in Indexes : Filled(object)[i] = Fib[i]
    BY <1>1, KindFacts DEF EagerFib, Indexes
  <2> QED BY <1>1, <2>1, ChunkHasIndexes
<1> QED BY <1>3, <1>4 DEF Slice

(* The other chunks of one will be filled with theirs. *)
LEMMA NotStoredFib ==
    ASSUME IInv, Steady, object.kind = "fib", NEW i \in Indexes, ~IsStored(ChunkOf(i))
    PROVE  FibElement(i) = Fib[i]
<1> DEFINE c == ChunkOf(i)
           before == StoredBefore(c)
           d == Max(before)
           n == object.load_ct
<1>1. object \in Objects /\ i \in Nat
  BY DEF IInv, Order, Indexes
<1>2. c \in Chunks /\ c \in Nat /\ i >= Start(c)
  <2>1. c \in Chunks /\ i - Start(c) \in Offsets(c) /\ Start(c) \in Nat
    BY <1>1, IndexInChunk
  <2>2. i - Start(c) \in Nat
    BY <2>1 DEF Offsets
  <2> HIDE DEF c
  <2>3. c \in Nat /\ i >= Start(c)
    BY <1>1, <2>1, <2>2, ChunkStart
  <2> QED BY <2>1, <2>3
<1>3. CASE before = {}
  <2>1. FibElement(i) = FibFrom(1, 1)[i]
    BY <1>3 DEF FibElement
  <2> QED BY <1>1, <2>1, FibFromStart
<1>4. CASE before # {}
  <2>1. before \subseteq 0 .. c - 1 /\ \A e \in before : IsStored(e)
    BY DEF StoredBefore
  <2>2. d \in before
    <3> HIDE DEF before, c
    <3> DEFINE T == {c - e : e \in before}
    <3>1. T \subseteq Nat /\ T # {}
      <4>1. \A e \in before : e \in 0 .. c - 1
        BY <2>1
      <4>2. \A e \in before : c - e \in Nat
        BY <1>2, <4>1
      <4> QED BY <1>4, <4>2
    <3>2. PICK t \in T : \A u \in T : t <= u
      <4> HIDE DEF T
      <4> QED BY <3>1, Least
    <3>3. PICK e \in before : t = c - e
      OBVIOUS
    <3>4. \A a \in before : e >= a
      <4> SUFFICES ASSUME NEW a \in before PROVE e >= a
        OBVIOUS
      <4>1. c - a \in T
        OBVIOUS
      <4>2. c - e <= c - a
        BY <3>2, <3>3, <4>1
      <4>3. a \in Int /\ e \in Int /\ c \in Int
        BY <1>2, <2>1
      <4> HIDE DEF T
      <4> QED BY <4>2, <4>3
    <3>5. \E x \in before : \A a \in before : x >= a
      BY <3>4
    <3> QED BY <3>5 DEF Max
  <2>3. FibElement(i) = FibAfter(<<Stored(d)[n - 2], Stored(d)[n - 1]>>)[i - Start(d + 1)]
    BY <1>4 DEF FibElement
  <2> HIDE DEF d, before, c
  <2>4. d \in 0 .. c - 1 /\ IsStored(d)
    BY <2>1, <2>2
  <2>5. d \in Chunks /\ d < c
    <3>1. c <= ChunkOf(object.length - 1)
      BY <1>2 DEF Chunks
    <3>2. object.length - 1 \in Nat /\ n \in Nat /\ n > 0
      BY <1>1, ObjectFacts
    <3>3. ChunkOf(object.length - 1) \in Nat
      <4> HIDE DEF n
      <4>1. (object.length - 1) \div n \in Nat
        BY <3>2, QuotientsOrdered
      <4> QED BY <4>1 DEF ChunkOf, n
    <3> QED BY <1>2, <2>4, <3>1, <3>3 DEF Chunks
  <2>6. /\ Start(d + 1) = Start(d) + n /\ Start(d + 1) <= Start(c)
        /\ Offsets(d) = 0 .. n - 1 /\ Start(d) \in Nat /\ Start(c) \in Nat
    BY <1>1, <1>2, <2>5, ChunkFull, ChunkStart
  <2>7. n \in Nat /\ n >= 2
    BY <1>1, ObjectFacts
  <2>8. Stored(d) = [o \in Offsets(d) |-> Fib[Start(d) + o]]
    BY <2>4, <2>5, StoredFib
  <2> DEFINE s == Start(d + 1)
  <2> HIDE DEF n
  <2>9. /\ s \in Nat /\ s >= 2 /\ i - s \in Nat /\ s + (i - s) = i
        /\ n - 2 \in 0 .. n - 1 /\ n - 1 \in 0 .. n - 1
        /\ Start(d) + (n - 2) = s - 2 /\ Start(d) + (n - 1) = s - 1
    BY <1>1, <1>2, <2>6, <2>7
  <2>10. Stored(d)[n - 2] = Fib[s - 2] /\ Stored(d)[n - 1] = Fib[s - 1]
    <3>1. \A o \in 0 .. n - 1 : Stored(d)[o] = Fib[Start(d) + o]
      BY <2>6, <2>8
    <3> QED BY <2>9, <3>1
  <2> DEFINE f == FibAfter(<<Fib[s - 2], Fib[s - 1]>>)
  <2>11. FibElement(i) = f[i - s]
    BY <2>3, <2>10 DEF n
  <2>12. \A o \in Nat : f[o] = Fib[s + o]
    <3> HIDE DEF s
    <3> QED BY <2>9, FibAfterFib
  <2> HIDE DEF f, s
  <2> QED BY <2>9, <2>11, <2>12
<1> QED BY <1>3, <1>4

Now(i) ==
    IF IsStored(ChunkOf(i)) THEN Stored(ChunkOf(i))[i - Start(ChunkOf(i))] ELSE Filled(object)[i]

HoldsNow == Contents = [i \in Indexes |-> Now(i)]

LEMMA ContentsSteady == IInv /\ Steady => HoldsNow
<1> SUFFICES ASSUME IInv, Steady PROVE Contents = [i \in Indexes |-> Now(i)]
  BY DEF HoldsNow
<1>1. CASE object.kind = "fib"
  <2>1. \A i \in Indexes : Filled(object)[i] = Fib[i]
    BY <1>1, KindFacts DEF EagerFib, Indexes, IInv, Order
  <2>2. ASSUME NEW i \in Indexes PROVE FibElement(i) = Now(i)
    <3>1. CASE IsStored(ChunkOf(i))
      BY <3>1 DEF FibElement, Now
    <3>2. CASE ~IsStored(ChunkOf(i))
      BY <1>1, <2>1, <3>2, NotStoredFib DEF Now
    <3> QED BY <3>1, <3>2
  <2> QED BY <1>1, <2>2 DEF Contents, FibContents
<1>2. CASE object.kind # "fib"
  BY <1>2 DEF Contents, Now
<1> QED BY <1>1, <1>2
-----------------------------------------------------------------------------
(***************************************************************************)
(* What no step changes while the object is the same.                      *)
(***************************************************************************)
LEMMA SameObject ==
    ASSUME object' = object
    PROVE  /\ Chunks' = Chunks /\ Indexes' = Indexes /\ Steady' = Steady
           /\ \A c : Offsets(c)' = Offsets(c) /\ Slice(c)' = Slice(c)
           /\ \A i : ChunkOf(i)' = ChunkOf(i) /\ Start(i)' = Start(i)
           /\ Reads(object)' = Reads(object) /\ Writes(object)' = Writes(object)
           /\ Filled(object)' = Filled(object)
  BY DEF Chunks, Indexes, Steady, ChunkOf, Offsets, Start, End, Slice, Filled, Array, Reads, Writes

(* A step that leaves every stored element alone leaves the array alone. *)
LEMMA SameElements ==
    ASSUME IInv, IInv', object' = object,
           \A c \in Chunks : \A o \in Offsets(c) :
              /\ Steady => (IF IsStored(c)' THEN Stored(c)'[o] ELSE Slice(c)[o])
                           = (IF IsStored(c) THEN Stored(c)[o] ELSE Slice(c)[o])
              /\ c \in Written => IsStored(c)' /\ Stored(c)'[o] = Stored(c)[o]
    PROVE  /\ Steady => Contents' = Contents
           /\ \A i \in Indexes : ChunkOf(i) \in Written => Contents'[i] = Contents[i]
<1>1. object \in Objects
  BY DEF IInv, Order
<1>2. ASSUME NEW i \in Indexes
      PROVE  /\ ChunkOf(i) \in Chunks
             /\ i - Start(ChunkOf(i)) \in Offsets(ChunkOf(i))
             /\ Slice(ChunkOf(i))[i - Start(ChunkOf(i))] = Filled(object)[i]
  <2> DEFINE c == ChunkOf(i)
             o == i - Start(c)
  <2>1. c \in Chunks /\ o \in Offsets(c) /\ Start(c) \in Nat /\ i \in Nat
    BY <1>1, IndexInChunk DEF Indexes
  <2>2. Start(c) + o = i
    BY <2>1
  <2> QED BY <2>1, <2>2 DEF Slice
<1>3. Steady => Contents' = Contents
  <2> SUFFICES ASSUME Steady PROVE Contents' = Contents
    OBVIOUS
  <2>1. Contents = [i \in Indexes |-> Now(i)]
    BY ContentsSteady DEF HoldsNow
  <2>2. Contents' = [i \in Indexes |-> Now(i)']
    <3>1. (IInv /\ Steady => HoldsNow)'
      BY ContentsSteady, PTL
    <3>2. Steady' /\ Indexes' = Indexes
      BY SameObject
    <3> QED BY <3>1, <3>2 DEF HoldsNow
  <2>3. ASSUME NEW i \in Indexes PROVE Now(i)' = Now(i)
    BY <1>2, SameObject DEF Now
  <2> QED BY <2>1, <2>2, <2>3
<1>4. ASSUME NEW i \in Indexes, ChunkOf(i) \in Written PROVE Contents'[i] = Contents[i]
  <2> DEFINE c == ChunkOf(i)
             o == i - Start(c)
  <2>1. c \in Chunks /\ o \in Offsets(c)
    BY <1>2
  <2>2. IsStored(c)' /\ Stored(c)'[o] = Stored(c)[o]
    BY <1>4, <2>1, SameObject
  <2>3. IsStored(c)
    BY <1>4 DEF IsStored, Written, IInv, TypeOK
  <2>4. Contents[i] = Stored(c)[o]
    BY <2>3, ContentsStored DEF HoldsStored
  <2>5. HoldsStored'
    BY ContentsStored, PTL
  <2>6. Contents'[i] = Stored(c)'[o]
    BY <2>2, <2>5, SameObject DEF HoldsStored
  <2> QED BY <2>2, <2>4, <2>6
<1> QED BY <1>3, <1>4

(* Such a step is one of the array, or of a fib object that rederives. *)
LEMMA SameElementsRefine ==
    ASSUME IInv, IInv', UNCHANGED <<object, answer>>,
           access.op # "write" \/ access' = access,
           \A c \in Chunks : \A o \in Offsets(c) :
              /\ Steady => (IF IsStored(c)' THEN Stored(c)'[o] ELSE Slice(c)[o])
                           = (IF IsStored(c) THEN Stored(c)[o] ELSE Slice(c)[o])
              /\ c \in Written => IsStored(c)' /\ Stored(c)'[o] = Stored(c)[o],
           Written \subseteq Written'
    PROVE  [V!Next \/ Rederives]_<<Contents, answer>>
<1>1. /\ Steady => Contents' = Contents
      /\ \A i \in Indexes : ChunkOf(i) \in Written => Contents'[i] = Contents[i]
  BY SameElements
<1>2. CASE Steady
  BY <1>1, <1>2
<1>3. CASE ~Steady
  BY <1>1, <1>3 DEF Rederives, Steady
<1> QED BY <1>2, <1>3
-----------------------------------------------------------------------------
(* Loading a chunk with what it should hold changes nothing to be seen. *)
LEMMA InstallStep ==
    ASSUME IInv, loading # <<>>, NEW elements, Install(Current, elements),
           elements \in [Offsets(Current) -> Nat],
           IF Current \in DOMAIN saved THEN elements = saved[Current]
           ELSE Steady => elements = Slice(Current)
    PROVE  IInv' /\ [V!Next \/ Rederives]_<<Contents, answer>>
<1>1. PICK kept \in SUBSET DOMAIN resident :
         /\ resident' = [d \in kept \cup {Current} |-> IF d = Current THEN elements ELSE resident[d]]
         /\ saved' = [d \in DOMAIN saved \cup (modified \ kept) |->
                         IF d \in modified \ kept THEN resident[d] ELSE saved[d]]
         /\ modified' = modified \cap kept
         /\ UNCHANGED <<object, access, answer, pc>>
  BY DEF Install
<1>2. /\ object' = object /\ object \in Objects /\ Current \in Chunks
      /\ Current \notin DOMAIN resident /\ Current \notin modified
  BY <1>1, CurrentFacts DEF IInv, Order, TypeOK
<1>3. Order'
  BY InstallOrder DEF IInv
<1>4. /\ Chunks' = Chunks /\ Steady' = Steady
      /\ \A c : Offsets(c)' = Offsets(c) /\ Slice(c)' = Slice(c)
      /\ Reads(object)' = Reads(object) /\ Writes(object)' = Writes(object)
  BY <1>2, SameObject
<1>5. TypeOK'
  <2>1. \A c \in DOMAIN resident' : c \in Chunks /\ resident'[c] \in [Offsets(c) -> Nat]
    BY <1>1, <1>2 DEF IInv, TypeOK
  <2>2. \A c \in DOMAIN saved' : c \in Chunks /\ saved'[c] \in [Offsets(c) -> Nat]
    BY <1>1 DEF IInv, TypeOK
  <2>3. modified' \subseteq DOMAIN resident'
    BY <1>1
  <2>4. loading' \in Seq(Chunks)' /\ object' \in Objects
    BY <1>2, <1>3 DEF Order
  <2>5. /\ access' \in {NoAccess} \cup Reads(object)' \cup Writes(object)'
        /\ answer' \in Seq(Nat) /\ pc' \in {"running", "crashed"}
    BY <1>1, <1>4 DEF IInv, TypeOK
  <2> QED BY <1>4, <2>1, <2>2, <2>3, <2>4, <2>5 DEF TypeOK
<1>6. Faithful'
  <2> SUFFICES ASSUME NEW c \in DOMAIN resident' \ modified'
               PROVE  IF c \in DOMAIN saved' THEN resident'[c] = saved'[c]
                      ELSE Steady => resident'[c] = Slice(c)
    BY <1>4 DEF Faithful
  <2>1. CASE c = Current
    BY <1>1, <1>2, <2>1
  <2>2. CASE c # Current
    <3>1. c \in kept /\ c \notin modified /\ c \in DOMAIN resident
      BY <1>1, <2>2
    <3> QED BY <1>1, <2>2, <3>1 DEF IInv, Faithful
  <2> QED BY <2>1, <2>2
<1>7. NotWritten'
  BY <1>1, <1>4 DEF IInv, NotWritten
<1>8. IInv'
  BY <1>3, <1>5, <1>6, <1>7 DEF IInv
<1>9. ASSUME NEW c \in Chunks, NEW o \in Offsets(c)
      PROVE  /\ Steady => (IF c \in DOMAIN resident' \cup DOMAIN saved'
                             THEN (IF c \in DOMAIN resident' THEN resident'[c] ELSE saved'[c])[o]
                             ELSE Slice(c)[o])
                          = (IF c \in DOMAIN resident \cup DOMAIN saved
                               THEN (IF c \in DOMAIN resident THEN resident[c] ELSE saved[c])[o]
                               ELSE Slice(c)[o])
             /\ c \in Written =>
                   /\ c \in DOMAIN resident' \cup DOMAIN saved'
                   /\ (IF c \in DOMAIN resident' THEN resident'[c] ELSE saved'[c])[o]
                      = (IF c \in DOMAIN resident THEN resident[c] ELSE saved[c])[o]
  <2>1. CASE c = Current
    BY <1>1, <1>2, <2>1 DEF Written
  <2>2. CASE c # Current /\ c \in kept
    BY <1>1, <2>2
  <2>3. CASE c # Current /\ c \notin kept /\ c \in modified
    BY <1>1, <2>3 DEF IInv, TypeOK
  <2>4. CASE c # Current /\ c \notin kept /\ c \notin modified
    BY <1>1, <2>4 DEF IInv, Faithful, Written
  <2> QED BY <2>1, <2>2, <2>3, <2>4
<1>10. Written \subseteq Written'
  BY <1>1 DEF Written
<1>11. \A c \in Chunks : \A o \in Offsets(c) :
          /\ Steady => (IF IsStored(c)' THEN Stored(c)'[o] ELSE Slice(c)[o])
                       = (IF IsStored(c) THEN Stored(c)[o] ELSE Slice(c)[o])
          /\ c \in Written => IsStored(c)' /\ Stored(c)'[o] = Stored(c)[o]
  BY <1>9 DEF IsStored, Stored
<1>12. UNCHANGED <<object, answer>> /\ access' = access
  BY <1>1
<1>13. [V!Next \/ Rederives]_<<Contents, answer>>
  BY <1>8, <1>10, <1>11, <1>12, SameElementsRefine
<1> QED BY <1>8, <1>13

(* Nothing that decides what the object holds changes. *)
LEMMA NothingStored ==
    ASSUME IInv, Order', NotWritten', UNCHANGED <<object, resident, modified, saved>>,
           answer' \in Seq(Nat), pc' \in {"running", "crashed"}
    PROVE  IInv' /\ Contents' = Contents
<1>1. /\ Chunks' = Chunks /\ Steady' = Steady /\ Indexes' = Indexes
      /\ \A c : Offsets(c)' = Offsets(c) /\ Slice(c)' = Slice(c)
      /\ \A i : ChunkOf(i)' = ChunkOf(i) /\ Start(i)' = Start(i)
      /\ Filled(object)' = Filled(object)
  BY SameObject
<1>2. TypeOK'
  <2>1. /\ object' \in Objects /\ loading' \in Seq(Chunks)'
        /\ access' \in {NoAccess} \cup Reads(object)' \cup Writes(object)'
    BY DEF Order
  <2> QED BY <1>1, <2>1 DEF IInv, TypeOK
<1>3. Faithful'
  BY <1>1 DEF IInv, Faithful
<1>4. Contents' = Contents
  <2>1. \A c : IsStored(c)' = IsStored(c) /\ Stored(c)' = Stored(c)
    BY DEF IsStored, Stored
  <2>2. \A c : StoredBefore(c)' = StoredBefore(c)
    BY DEF StoredBefore, IsStored
  <2>3. FibContents' = FibContents
    BY <1>1, <2>1, <2>2 DEF FibContents, FibElement, Stored, IsStored, StoredBefore, ChunkOf, Start
  <2> QED BY <1>1, <2>1, <2>3 DEF Contents
<1> QED BY <1>2, <1>3, <1>4 DEF IInv

(* What a read answers, and a write leaves behind. *)
LEMMA PerformStep ==
    ASSUME IInv, Perform
    PROVE  IInv' /\ [V!Next \/ Rederives]_<<Contents, answer>>
<1> DEFINE i == access.index
           c == ChunkOf(i)
           o == i - Start(c)
<1>1. /\ object \in Objects
      /\ access \in Reads(object) \cup Writes(object)
      /\ object' = object /\ pc' = pc /\ pc = "running" /\ saved' = saved /\ loading' = loading
      /\ loading = <<>> /\ access' = NoAccess /\ access # NoAccess
  BY DEF Perform, Pending, IInv, TypeOK
<1>2. i \in Indexes /\ (access.op # "read" => access.value \in Values /\ access.op = "write")
  BY <1>1 DEF Reads, Writes, Indexes
<1>3. c \in DOMAIN resident /\ c \in Chunks /\ o \in Offsets(c)
  BY <1>1, <1>2, IndexInChunk DEF Perform, Loaded
<1>4. resident[c] \in [Offsets(c) -> Nat] /\ resident[c][o] \in Nat
  BY <1>3 DEF IInv, TypeOK
<1>5. Contents[i] = resident[c][o] /\ Element(i) = resident[c][o] /\ DOMAIN Contents = Indexes
  <2>1. IsStored(c) /\ Stored(c) = resident[c]
    BY <1>3 DEF IsStored, Stored
  <2>2. Contents[i] = Stored(c)[o]
    BY <1>2, <2>1, ContentsStored DEF HoldsStored
  <2> QED BY <2>1, <2>2, ContentsStored DEF Element, HoldsStored
<1>6. Order'
  BY NextOrder DEF IInv, Next, Serve
<1>7. CASE access.op = "read"
  <2>1. answer' = <<resident[c][o]>> /\ UNCHANGED <<object, resident, modified, saved>>
    BY <1>1, <1>5, <1>7 DEF Perform
  <2>2. answer' \in Seq(Nat) /\ NotWritten'
    BY <1>1, <1>4, <2>1 DEF IInv, NotWritten
  <2>3. IInv' /\ Contents' = Contents
    BY <1>1, <1>6, <2>1, <2>2, NothingStored
  <2>4. V!Read(i)
    BY <1>5, <2>1, <2>3 DEF V!Read
  <2> QED BY <1>2, <1>5, <2>3, <2>4 DEF V!Next
<1>8. CASE access.op # "read"
  <2> DEFINE v == access.value
  <2>1. /\ answer' = <<v>> /\ v \in Nat /\ v \in Values
        /\ resident' = [resident EXCEPT ![c][o] = v]
        /\ modified' = modified \cup {c}
    BY <1>1, <1>2, <1>8, ObjectFacts DEF Perform
  <2>0. ~object.read_only
    BY <1>1, <1>8 DEF IInv, NotWritten, Reads
  <2> HIDE DEF v
  <2>2. /\ DOMAIN resident' = DOMAIN resident
        /\ \A d \in DOMAIN resident : d # c => resident'[d] = resident[d]
        /\ resident'[c] = [resident[c] EXCEPT ![o] = v]
    BY <1>3, <2>1
  <2>3. /\ Chunks' = Chunks /\ Indexes' = Indexes /\ Steady' = Steady
        /\ \A d : Offsets(d)' = Offsets(d) /\ Slice(d)' = Slice(d)
        /\ \A j : ChunkOf(j)' = ChunkOf(j) /\ Start(j)' = Start(j)
        /\ Filled(object)' = Filled(object)
    BY <1>1, SameObject
  <2>4. TypeOK'
    <3>1. \A d \in DOMAIN resident' : d \in Chunks /\ resident'[d] \in [Offsets(d) -> Nat]
      BY <1>3, <1>4, <2>1, <2>2 DEF IInv, TypeOK
    <3>2. \A d \in DOMAIN saved' : d \in Chunks /\ saved'[d] \in [Offsets(d) -> Nat]
      BY <1>1 DEF IInv, TypeOK
    <3>3. modified' \subseteq DOMAIN resident'
      BY <1>3, <2>1, <2>2 DEF IInv, TypeOK
    <3>4. answer' \in Seq(Nat)
      BY <2>1
    <3>5. /\ object' \in Objects /\ loading' \in Seq(Chunks)'
          /\ access' \in {NoAccess} \cup Reads(object)' \cup Writes(object)'
      BY <1>6 DEF Order
    <3> QED BY <1>1, <2>3, <3>1, <3>2, <3>3, <3>4, <3>5 DEF TypeOK
  <2>5. Faithful'
    <3> SUFFICES ASSUME NEW d \in DOMAIN resident' \ modified'
                 PROVE  IF d \in DOMAIN saved' THEN resident'[d] = saved'[d]
                        ELSE Steady => resident'[d] = Slice(d)
      BY <2>3 DEF Faithful
    <3>1. d # c /\ d \in DOMAIN resident \ modified
      BY <2>1, <2>2
    <3> QED BY <1>1, <2>2, <3>1 DEF IInv, Faithful
  <2>6. IInv'
    BY <1>1, <1>6, <2>0, <2>4, <2>5 DEF IInv, NotWritten
  <2>7. ASSUME NEW j \in Indexes
        PROVE  /\ IsStored(ChunkOf(j))' <=> IsStored(ChunkOf(j))
               /\ IsStored(ChunkOf(i))
               /\ IsStored(ChunkOf(j)) =>
                     Stored(ChunkOf(j))'[j - Start(ChunkOf(j))]
                     = IF j = i THEN v ELSE Stored(ChunkOf(j))[j - Start(ChunkOf(j))]
    <3> DEFINE d == ChunkOf(j)
               q == j - Start(d)
    <3>1. d \in Chunks /\ q \in Offsets(d) /\ Start(d) \in Nat /\ j \in Nat /\ i \in Nat
      BY <1>1, <1>2, IndexInChunk DEF Indexes
    <3>2. j # i => d # c \/ q # o
      <4>1. d = c => Start(d) = Start(c)
        OBVIOUS
      <4> HIDE DEF c, d, i
      <4> QED BY <3>1, <4>1
    <3>3. d' = d
      BY <2>3
    <3>4. j = i => d = c /\ q = o
      OBVIOUS
    <3> HIDE DEF d, q, c, o, i
    <3>5. d \in DOMAIN resident \cup DOMAIN saved =>
             (IF d \in DOMAIN resident' THEN resident'[d] ELSE saved'[d])[q]
             = IF j = i THEN v ELSE (IF d \in DOMAIN resident THEN resident[d] ELSE saved[d])[q]
      <4>1. CASE d # c
        BY <1>1, <2>2, <3>4, <4>1
      <4>2. CASE d = c /\ j # i
        <5>1. resident'[c][q] = resident[c][q]
          BY <1>4, <2>2, <3>1, <3>2, <4>2
        <5> QED BY <1>3, <2>2, <4>2, <5>1
      <4>3. CASE j = i
        <5>1. resident'[c][o] = v
          BY <1>3, <1>4, <2>2
        <5> QED BY <1>3, <2>2, <3>4, <4>3, <5>1
      <4> QED BY <4>1, <4>2, <4>3
    <3>6. IsStored(c) /\ (IsStored(d)' <=> IsStored(d))
      BY <1>1, <1>3, <2>2, <3>3 DEF IsStored
    <3>7. IsStored(d) => Stored(d)'[q] = IF j = i THEN v ELSE Stored(d)[q]
      BY <3>3, <3>5 DEF IsStored, Stored
    <3> QED BY <3>6, <3>7 DEF c, d, q
  <2>8. CASE Steady
    <3>1. Contents = [j \in Indexes |-> Now(j)]
      BY <2>8, ContentsSteady DEF HoldsNow
    <3>2. Contents' = [j \in Indexes |-> Now(j)']
      <4>1. (IInv /\ Steady => HoldsNow)'
        BY ContentsSteady, PTL
      <4> QED BY <2>3, <2>6, <2>8, <4>1 DEF HoldsNow
    <3>3. ASSUME NEW j \in Indexes PROVE Now(j)' = IF j = i THEN v ELSE Now(j)
      BY <2>3, <2>7 DEF Now
    <3> HIDE DEF i
    <3>4. Contents' = [Contents EXCEPT ![i] = v]
      BY <1>2, <3>1, <3>2, <3>3
    <3>5. V!Write(i, v)
      BY <2>1, <3>4 DEF V!Write
    <3> QED BY <1>2, <1>5, <2>1, <2>6, <3>5 DEF V!Next
  <2>9. CASE ~Steady
    <3>1. Written \subseteq Written'
      BY <1>1, <2>1 DEF Written
    <3>2. HoldsStored'
      BY ContentsStored, PTL
    <3>3. ASSUME NEW j \in Indexes, IsStored(ChunkOf(j))
          PROVE  Contents'[j] = IF j = i THEN v ELSE Contents[j]
      <4>1. Contents[j] = Stored(ChunkOf(j))[j - Start(ChunkOf(j))]
        BY <3>3, ContentsStored DEF HoldsStored
      <4>2. Contents'[j] = Stored(ChunkOf(j))'[j - Start(ChunkOf(j))]
        BY <2>3, <2>7, <3>2, <3>3 DEF HoldsStored
      <4> QED BY <2>7, <3>3, <4>1, <4>2
    <3>4. \A j \in Indexes : ChunkOf(j) \in Written => IsStored(ChunkOf(j))
      BY DEF Written, IsStored, IInv, TypeOK
    <3>5. access.op = "write" /\ access' # access
      BY <1>1, <1>2, <1>8
    <3>6. Contents'[i] = v
      BY <1>2, <2>7, <3>3
    <3>7. \A j \in Indexes \ {i} : ChunkOf(j) \in Written => Contents'[j] = Contents[j]
      BY <3>3, <3>4
    <3> HIDE DEF i
    <3>8. Rederives
      BY <2>1, <2>9, <3>1, <3>5, <3>6, <3>7 DEF Rederives, Steady, i, v
    <3> QED BY <2>6, <3>8
  <2> QED BY <2>8, <2>9
<1> QED BY <1>7, <1>8

(* Every step keeps the invariant and is one of the array, or a stutter. *)
LEMMA StepRefines ==
    ASSUME IInv, [Next]_vars
    PROVE  IInv' /\ [V!Next \/ Rederives]_<<Contents, answer>>
<1>0. Order'
  BY NextOrder DEF IInv
<1>1. CASE Begin
  <2>1. /\ UNCHANGED <<object, resident, modified, saved, answer, pc>>
        /\ access' \in Reads(object) \cup (IF object.read_only THEN {} ELSE Writes(object))
    BY <1>1 DEF Begin
  <2>2. NotWritten' /\ answer' \in Seq(Nat) /\ pc' \in {"running", "crashed"}
    BY <2>1 DEF IInv, NotWritten, TypeOK, Reads
  <2> QED BY <1>0, <2>1, <2>2, NothingStored
<1>2. CASE Fault \/ NestedFault \/ NullSelf \/ Crashed \/ UNCHANGED vars
  <2>1. /\ UNCHANGED <<object, resident, modified, saved, access, answer>>
        /\ answer' \in Seq(Nat) /\ pc' \in {"running", "crashed"}
    BY <1>2 DEF Fault, NestedFault, NullSelf, Crashed, vars, IInv, TypeOK
  <2>2. NotWritten'
    BY <2>1 DEF IInv, NotWritten, Reads
  <2> QED BY <1>0, <2>1, <2>2, NothingStored
<1>3. CASE Perform
  BY <1>3, PerformStep
<1>4. CASE Restore
  <2>1. loading # <<>> /\ Current \in DOMAIN saved /\ Install(Current, saved[Current])
    BY <1>4 DEF Restore, Loading
  <2>2. saved[Current] \in [Offsets(Current) -> Nat]
    BY <2>1 DEF IInv, TypeOK
  <2> QED BY <2>1, <2>2, InstallStep
<1>5. CASE Populate
  <2>1. /\ loading # <<>> /\ Current \notin DOMAIN saved
        /\ \A i \in Inputs(Current) : Loaded(i)
        /\ Install(Current, Populated(Current))
    BY <1>5 DEF Populate, Loading
  <2>2. Current \in Chunks
    BY <2>1, CurrentFacts DEF IInv
  <2>3. /\ Populated(Current) \in [Offsets(Current) -> Nat]
        /\ Steady => Populated(Current) = Slice(Current)
    BY <2>1, <2>2, PopulatedIsSlice
  <2> QED BY <2>1, <2>3, InstallStep
<1> QED BY <1>1, <1>2, <1>3, <1>4, <1>5 DEF Next, Serve

(* The variables keep their types, whatever is loaded, dropped and saved. *)
THEOREM TypeCorrect == Spec => []TypeOK
<1>1. IInv /\ [Next]_vars => IInv'
  BY StepRefines
<1>2. IInv => TypeOK
  BY DEF IInv
<1> QED BY InitInv, <1>1, <1>2, PTL DEF Spec

(* What an object holds before anything is written, loaded or not. *)
LEMMA InitContents == Init => Contents = Filled(object)
<1> SUFFICES ASSUME Init PROVE Contents = Filled(object)
  OBVIOUS
<1>1. object \in Objects /\ resident = <<>> /\ saved = <<>>
  BY DEF Init
<1>2. \A c : ~IsStored(c)
  BY <1>1 DEF IsStored
<1>3. Contents = [i \in Indexes |-> Filled(object)[i]]
  <2>1. CASE object.kind = "fib"
    <3>1. ASSUME NEW i \in Indexes PROVE FibElement(i) = Filled(object)[i]
      <4>1. StoredBefore(ChunkOf(i)) = {}
        BY <1>2 DEF StoredBefore
      <4>2. FibElement(i) = FibFrom(1, 1)[i]
        BY <1>2, <4>1 DEF FibElement
      <4>3. Filled(object)[i] = Fib[i] /\ i \in Nat
        BY <2>1 DEF Filled, Array, EagerFib, Indexes
      <4> QED BY <4>2, <4>3, FibFromStart
    <3> QED BY <2>1, <3>1 DEF Contents, FibContents
  <2>2. CASE object.kind # "fib"
    BY <1>2, <2>2 DEF Contents
  <2> QED BY <2>1, <2>2
<1>4. Filled(object) = [i \in Indexes |-> Filled(object)[i]]
  BY <1>1, FilledNatural
<1> QED BY <1>3, <1>4

(* Where chunks do not matter, that is the array of the eager object. *)
LEMMA FilledIsArray ==
    ASSUME object \in Objects, StartsAsArray(object)
    PROVE  Filled(object) = Array(object)
<1>0. /\ object.length \in Nat /\ object.load_ct \in Nat /\ object.load_ct > 0
      /\ object.source \in [0 .. object.length - 1 -> Nat]
      /\ object.kind = "col" => \A i \in DOMAIN object.source : object.source[i] = object.source[0]
  BY ObjectFacts DEF IsObject
<1>1. CASE object.kind \in {"col", "mmap"}
  <2>1. ASSUME NEW i \in 0 .. object.length - 1
        PROVE  object.source[i % object.load_ct] = object.source[i]
    <3> DEFINE n == object.load_ct
               r == i % n
    <3>1. i \in Nat /\ n \in Nat /\ n > 0
      BY <1>0
    <3>2. r \in 0 .. n - 1 /\ (i < n => r = i)
      <4>1. i = 0 * n + i
        BY <3>1
      <4> QED BY <3>1, <4>1, RemainderIs, DivisionFact
    <3>3. CASE object.kind = "col"
      <4> HIDE DEF r, n
      <4>1. r \in 0 .. object.length - 1
        BY <3>1, <3>2, <1>0
      <4>2. object.source[r] = object.source[0] /\ object.source[i] = object.source[0]
        BY <1>0, <3>3, <4>1
      <4> QED BY <4>2 DEF r, n
    <3>4. CASE object.kind = "mmap"
      <4>1. i < n
        BY <1>0, <3>4 DEF StartsAsArray
      <4> QED BY <3>2, <4>1
    <3> QED BY <1>1, <3>3, <3>4
  <2> QED BY <1>1, <2>1 DEF Filled, Array, RepeatedSource, EagerSource
<1>2. CASE object.kind \notin {"col", "mmap"}
  BY <1>2 DEF Filled
<1> QED BY <1>1, <1>2

(***************************************************************************)
(* An object is an array in memory: whatever is loaded, dropped, saved and *)
(* restored, every read answers with the last write to the element, or     *)
(* what the array held to begin with.  That is what the eager object       *)
(* holds, except in an mmap object of several chunks.  A fib object that   *)
(* is written to is one that keeps at least the chunks written to.         *)
(***************************************************************************)
THEOREM VectorImplemented == Spec => ImplementsVector
<1>1. Init => (StartsAsArray(object) => V!Init /\ Contents = Array(object))
  <2> SUFFICES ASSUME Init, StartsAsArray(object)
               PROVE  V!Init /\ Contents = Array(object)
    OBVIOUS
  <2>1. object \in Objects /\ answer = <<>>
    BY DEF Init
  <2>2. Contents = Array(object)
    BY <2>1, InitContents, FilledIsArray
  <2> QED BY <2>1, <2>2 DEF V!Init
<1>2. IInv /\ [Next]_vars => IInv' /\ [V!Next \/ Rederives]_<<Contents, answer>>
  BY StepRefines
<1> QED BY InitInv, <1>1, <1>2, PTL DEF Spec, ImplementsVector
-----------------------------------------------------------------------------
(***************************************************************************)
(* The chunks being loaded are neighbours, from that of the access down:   *)
(* what a chunk waits for is the one chunk before it, which is in memory   *)
(* when its loading is over, since the core does not drop what it has just *)
(* loaded.                                                                 *)
(***************************************************************************)
Chain ==
    loading # <<>> =>
        /\ access # NoAccess
        /\ loading[1] = ChunkOf(access.index)
        /\ \A n \in 1 .. Len(loading) - 1 : loading[n + 1] = loading[n] - 1

(* Two chunks of the chain, the chunk under way and the one it is for. *)
LEMMA ChainFacts ==
    ASSUME IInv, Chain, loading # <<>>
    PROVE  /\ Current \in Chunks /\ Current \in Nat
           /\ Len(loading) \in Nat /\ Len(loading) >= 1
           /\ loading \in [1 .. Len(loading) -> Chunks]
           /\ Front(loading) = [n \in 1 .. Len(loading) - 1 |-> loading[n]]
           /\ Len(Front(loading)) = Len(loading) - 1
           /\ Len(loading) > 1 => Current = loading[Len(loading) - 1] - 1
<1>1. /\ Current \in Chunks /\ Len(loading) \in Nat /\ Len(loading) >= 1
      /\ Len(Front(loading)) = Len(loading) - 1
  BY CurrentFacts DEF IInv
<1>2. loading \in [1 .. Len(loading) -> Chunks]
  BY DEF IInv, Order
<1>3. Front(loading) = [n \in 1 .. Len(loading) - 1 |-> loading[n]]
  BY <1>1, <1>2 DEF Front
<1>4. Current \in Nat
  BY <1>1 DEF Chunks
<1>5. ASSUME Len(loading) > 1 PROVE Current = loading[Len(loading) - 1] - 1
  <2> DEFINE m == Len(loading)
  <2>1. m - 1 \in 1 .. m - 1 /\ (m - 1) + 1 = m
    BY <1>1, <1>5
  <2>2. loading[(m - 1) + 1] = loading[m - 1] - 1
    BY <2>1 DEF Chain
  <2> QED BY <2>1, <2>2 DEF Current
<1> QED BY <1>1, <1>2, <1>3, <1>4, <1>5

LEMMA InitChain == Init => Chain
  BY DEF Init, Chain

LEMMA InstallChain ==
    ASSUME IInv, Chain, loading # <<>>, NEW elements, Install(Current, elements)
    PROVE  Chain'
<1> DEFINE m == Len(loading)
<1>1. loading' = Front(loading) /\ UNCHANGED <<object, access>>
  BY DEF Install
<1>2. /\ m \in Nat /\ m >= 1
      /\ loading' = [n \in 1 .. m - 1 |-> loading[n]] /\ Len(loading') = m - 1
  BY <1>1, ChainFacts
<1> SUFFICES ASSUME loading' # <<>> PROVE Chain'
  BY DEF Chain
<1>3. m # 1
  <2> SUFFICES ASSUME m = 1 PROVE FALSE
    OBVIOUS
  <2>1. loading' \in Seq(Chunks) /\ Len(loading') = 0
    BY <1>1, <1>2, CurrentFacts DEF IInv
  <2> QED BY <2>1
<1> HIDE DEF m
<1>4. \A n \in 1 .. m - 1 : loading'[n] = loading[n] /\ n \in 1 .. Len(loading) - 1
  BY <1>2 DEF m
<1>5. \A n \in 1 .. Len(loading') - 1 :
          n \in 1 .. m - 1 /\ n + 1 \in 1 .. m - 1
  BY <1>2
<1>6. \A n \in 1 .. Len(loading') - 1 : loading'[n + 1] = loading'[n] - 1
  BY <1>4, <1>5 DEF Chain
<1>7. loading'[1] = ChunkOf(access.index) /\ access # NoAccess
  <2>1. 1 \in 1 .. m - 1
    BY <1>2, <1>3
  <2> QED BY <1>4, <2>1 DEF Chain
<1>8. ChunkOf(access.index)' = ChunkOf(access.index)
  BY <1>1 DEF ChunkOf
<1> QED BY <1>1, <1>6, <1>7, <1>8 DEF Chain

(* What a nested load is of. *)
LEMMA NestedChunk ==
    ASSUME IInv, Chain, NestedFault
    PROVE  \E d : /\ d = Current - 1 /\ d \in Nat /\ ~Ready
                  /\ loading' = Append(loading, d) /\ loading # <<>>
<1>1. PICK i \in Inputs(Current) : ~Loaded(i) /\ loading' = Append(loading, ChunkOf(i))
  BY DEF NestedFault
<1>2. loading # <<>> /\ Current \notin DOMAIN saved /\ object \in Objects
  BY DEF NestedFault, Loading, IInv, Order
<1>3. Current \in Chunks
  BY <1>2, ChainFacts
<1>4. ChunkOf(i) \in Chunks /\ ChunkOf(i) = Current - 1
  BY <1>2, <1>3, InputsBefore
<1>5. ChunkOf(i) \in Nat
  BY <1>4 DEF Chunks
<1>6. ~Ready
  BY <1>1, <1>2 DEF Ready
<1> QED BY <1>1, <1>2, <1>4, <1>5, <1>6

LEMMA NextChain == IInv /\ Chain /\ [Next]_vars => Chain'
<1> SUFFICES ASSUME IInv, Chain, [Next]_vars PROVE Chain'
  OBVIOUS
<1>1. CASE Begin
  BY <1>1 DEF Begin, Chain
<1>2. CASE Perform
  BY <1>2 DEF Perform, Chain
<1>3. CASE Fault
  <2>1. loading' = <<ChunkOf(access.index)>> /\ UNCHANGED <<object, access>> /\ access # NoAccess
    BY <1>3 DEF Fault, Pending
  <2> QED BY <2>1 DEF Chain, ChunkOf
<1>4. CASE Restore
  BY <1>4, InstallChain DEF Restore, Loading
<1>5. CASE Populate
  BY <1>5, InstallChain DEF Populate, Loading
<1>6. CASE NestedFault
  <2>1. PICK d : d = Current - 1 /\ loading' = Append(loading, d) /\ loading # <<>>
    BY <1>6, NestedChunk
  <2> DEFINE m == Len(loading)
  <2>2. /\ m \in Nat /\ m >= 1 /\ loading \in [1 .. m -> Chunks] /\ loading \in Seq(Chunks)
        /\ Current = loading[m]
    BY <2>1, ChainFacts DEF IInv, Order, Current
  <2>3. /\ Len(loading') = m + 1 /\ loading'[m + 1] = d
        /\ \A n \in 1 .. m : loading'[n] = loading[n]
    BY <2>1, <2>2
  <2>4. \A n \in 1 .. m : loading'[n + 1] = loading'[n] - 1
    <3> SUFFICES ASSUME NEW n \in 1 .. m PROVE loading'[n + 1] = loading'[n] - 1
      OBVIOUS
    <3>1. CASE n = m
      BY <2>1, <2>2, <2>3, <3>1
    <3>2. CASE n # m
      <4>0. m \in Nat
        BY <2>2
      <4>1. n \in 1 .. m - 1 /\ n + 1 \in 1 .. m
        <5> HIDE DEF m
        <5> QED BY <3>2, <4>0
      <4> QED BY <2>1, <2>3, <4>1 DEF Chain
    <3> QED BY <3>1, <3>2
  <2>5. /\ UNCHANGED <<object, access>> /\ access # NoAccess
        /\ loading'[1] = ChunkOf(access.index)
    <3>1. 1 \in 1 .. m
      BY <2>2
    <3>2. UNCHANGED <<object, access>>
      BY <1>6 DEF NestedFault
    <3> QED BY <2>1, <2>3, <3>1, <3>2 DEF Chain
  <2>6. Len(loading') - 1 = m
    BY <2>2, <2>3
  <2>7. ChunkOf(access.index)' = ChunkOf(access.index)
    BY <2>5 DEF ChunkOf
  <2> HIDE DEF m
  <2> QED BY <2>4, <2>5, <2>6, <2>7 DEF Chain
<1>7. CASE NullSelf \/ Crashed \/ UNCHANGED vars
  BY <1>7 DEF NullSelf, Crashed, vars, Chain, ChunkOf
<1> QED BY <1>1, <1>2, <1>3, <1>4, <1>5, <1>6, <1>7 DEF Next, Serve

(* How much remains while chunks are being loaded. *)
LEMMA RemainingLoading ==
    ASSUME IInv, Chain, Pending, loading # <<>>
    PROVE  /\ Ready => Remaining = 1 + Len(loading)
           /\ ~Ready => Remaining = 1 + Len(loading) + 2 * Current
           /\ Remaining \in Nat /\ Remaining >= 1 + Len(loading)
<1>1. Current \in Nat /\ Len(loading) \in Nat
  BY ChainFacts
<1>2. Remaining = 1 + Len(loading) + (IF Ready THEN 0 ELSE 2 * Current)
  BY DEF Pending, Remaining
<1> QED BY <1>1, <1>2

(* A chunk was loaded: the one that waits for it can be populated now. *)
LEMMA InstallDescends ==
    ASSUME IInv, Chain, Pending, loading # <<>>, NEW elements, Install(Current, elements)
    PROVE  Remaining' \in 0 .. Remaining - 1
<1> DEFINE m == Len(loading)
           c == Current
<1>1. /\ loading' = Front(loading) /\ UNCHANGED <<object, access, pc>>
      /\ c \in DOMAIN resident'
  BY DEF Install
<1>2. /\ m \in Nat /\ m >= 1 /\ c \in Nat /\ c = loading[m]
      /\ loading' = [n \in 1 .. m - 1 |-> loading[n]] /\ Len(loading') = m - 1
      /\ m > 1 => c = loading[m - 1] - 1
      /\ loading \in [1 .. m -> Chunks] /\ loading' \in Seq(Chunks)
  BY <1>1, ChainFacts, CurrentFacts DEF Current, IInv
<1>3. Remaining \in Nat /\ Remaining >= 1 + m
  BY RemainingLoading
<1>4. access # NoAccess /\ pc # "crashed" /\ access' # NoAccess' /\ pc' # "crashed"
  BY <1>1 DEF Pending, NoAccess
<1>5. CASE m = 1
  <2>1. loading' = <<>>
    BY <1>2, <1>5
  <2>2. ChunkOf(access.index)' = c
    BY <1>1, <1>2, <1>5 DEF Chain, ChunkOf
  <2>3. Loaded(access.index)'
    BY <1>1, <2>2 DEF Loaded
  <2>4. Remaining' = 1
    BY <1>4, <2>1, <2>3 DEF Remaining
  <2> QED BY <1>2, <1>3, <2>4
<1>6. CASE m # 1
  <2>1. m - 1 \in 1 .. m - 1 /\ m > 1 /\ m - 1 \in 1 .. m
    BY <1>2, <1>6
  <2>0. PICK d : d = loading[m - 1]
    OBVIOUS
  <2>2. Current' = d /\ d \in Chunks /\ d - 1 = c
    <3>1. d \in Chunks
      BY <1>2, <2>0, <2>1
    <3>2. d \in Nat
      BY <3>1 DEF Chunks
    <3>3. loading'[Len(loading')] = d
      BY <1>2, <2>0, <2>1
    <3> QED BY <1>2, <2>0, <2>1, <3>1, <3>2, <3>3 DEF Current
  <2> HIDE DEF c
  <2>3. object \in Objects /\ loading' # <<>>
    <3>1. Len(loading') # 0
      BY <1>2, <1>6
    <3> QED BY <3>1 DEF IInv, Order
  <2>4. \A i \in Inputs(d) : ChunkOf(i) = c
    BY <2>2, <2>3, InputsBefore
  <2>5. Inputs(d)' = Inputs(d) /\ \A i : ChunkOf(i)' = ChunkOf(i)
    BY <1>1 DEF Inputs, Start, ChunkOf
  <2>6. Ready'
    BY <1>1, <2>2, <2>4, <2>5 DEF Ready, Loaded, Inputs, Start, ChunkOf
  <2>7. Remaining' = 1 + Len(loading')
    BY <1>4, <2>3, <2>6 DEF Remaining
  <2> HIDE DEF m
  <2> QED BY <1>2, <1>3, <2>7
<1> QED BY <1>5, <1>6

LEMMA ServeDescends ==
    ASSUME IInv, Chain, Serve
    PROVE  Remaining' \in 0 .. Remaining - 1
<1>1. CASE Perform
  <2>1. Remaining = 1 /\ Remaining' = 0
    BY <1>1 DEF Perform, Pending, Remaining, NoAccess
  <2> QED BY <2>1
<1>2. CASE Fault
  <2> DEFINE c == ChunkOf(access.index)
  <2>1. /\ Pending /\ loading = <<>> /\ ~Loaded(access.index) /\ access # NoAccess
        /\ loading' = <<c>> /\ UNCHANGED <<object, resident, modified, saved, access, pc>>
    BY <1>2 DEF Fault, Pending
  <2>2. c \in Nat
    <3>1. access.index \in Indexes /\ object \in Objects
      BY <2>1 DEF IInv, TypeOK, Reads, Writes, Indexes
    <3>2. c \in Chunks
      BY <3>1, IndexInChunk
    <3> QED BY <3>2 DEF Chunks
  <2>3. Remaining = 3 + 2 * c
    BY <2>1 DEF Remaining, Pending
  <2> HIDE DEF c
  <2>4. loading' # <<>> /\ Len(loading') = 1 /\ Current' = c
    BY <2>1 DEF Current
  <2>5. Remaining' = 1 + 1 + (IF Ready' THEN 0 ELSE 2 * c)
    BY <2>1, <2>4 DEF Remaining, Pending, NoAccess
  <2> QED BY <2>2, <2>3, <2>5
<1>3. CASE Restore
  BY <1>3, InstallDescends DEF Restore, Loading
<1>4. CASE Populate
  BY <1>4, InstallDescends DEF Populate, Loading
<1>5. CASE NestedFault
  <2>1. PICK d : /\ d = Current - 1 /\ d \in Nat /\ ~Ready
                 /\ loading' = Append(loading, d) /\ loading # <<>>
    BY <1>5, NestedChunk
  <2>2. /\ Pending /\ access # NoAccess /\ pc # "crashed"
        /\ UNCHANGED <<object, access, pc>>
    BY <1>5 DEF NestedFault, Loading, Pending
  <2> DEFINE m == Len(loading)
             c == Current
  <2>3. m \in Nat /\ c \in Nat /\ Remaining = 1 + m + 2 * c
    BY <2>1, <2>2, ChainFacts, RemainingLoading
  <2>4. loading' # <<>> /\ Len(loading') = m + 1 /\ Current' = d
    <3>1. loading \in Seq(Chunks)
      BY DEF IInv, Order
    <3>2. Len(loading') = m + 1 /\ loading'[m + 1] = d
      BY <2>1, <2>3, <3>1
    <3>3. loading' # <<>>
      BY <2>1, <3>1
    <3> QED BY <3>2, <3>3 DEF Current
  <2>5. Remaining' = 1 + Len(loading') + (IF Ready' THEN 0 ELSE 2 * Current')
    BY <2>2, <2>4 DEF Remaining, NoAccess
  <2> HIDE DEF m, c
  <2>6. Remaining' = 1 + (m + 1) + (IF Ready' THEN 0 ELSE 2 * d)
    BY <2>4, <2>5
  <2>7. d = c - 1
    BY <2>1 DEF c
  <2> QED BY <2>1, <2>3, <2>6, <2>7
<1>6. CASE NullSelf
  <2>1. Remaining' = 0
    BY <1>6 DEF NullSelf, Remaining
  <2>2. Remaining \in Nat /\ Remaining >= 1 + Len(loading) /\ Len(loading) \in Nat
    BY <1>6, RemainingLoading, ChainFacts DEF NullSelf, Loading
  <2> QED BY <2>1, <2>2
<1> QED BY <1>1, <1>2, <1>3, <1>4, <1>5, <1>6 DEF Serve

(***************************************************************************)
(* An access of chunk c is over after at most 2 * c + 3 steps, or the      *)
(* process crashes in it: fib's nested loads go down to a chunk that needs *)
(* no other and come back up, and nothing the core drops makes them start  *)
(* again, even if only a single chunk survives each loading.               *)
(***************************************************************************)
THEOREM ServingEnds == Spec => ServingDescends
<1>1. Init => IInv /\ Chain
  BY InitInv, InitChain
<1>2. IInv /\ Chain /\ [Next]_vars => IInv' /\ Chain'
  BY StepRefines, NextChain
<1>3. IInv /\ Chain /\ [Next]_vars => [Serve => Remaining' \in 0 .. Remaining - 1]_vars
  BY ServeDescends
<1> QED BY <1>1, <1>2, <1>3, PTL DEF Spec, ServingDescends
=============================================================================
