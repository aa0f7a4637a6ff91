----------------------------- MODULE Psql_proof -----------------------------
(***************************************************************************)
(* The mutex discipline of Player_populate, for any number of threads, any *)
(* table and any change other sessions make to it; and what the chunks it  *)
(* loads can hold.                                                         *)
(***************************************************************************)
EXTENDS Psql, Arithmetic, SequenceTheorems, FiniteSetTheorems, TLAPS

States == {"idle", "lock", "begin", "select", "end", "unlock", "exit"}

ControlType ==
    /\ lock \in Workers \cup {NoOne}
    /\ transaction \in Workers \cup {NoOne}
    /\ pc \in [Workers -> States]

(* The mutex is held exactly by the worker that is inside, if there is one. *)
LockHeld == \A w \in Workers : Inside(w) <=> lock = w

(* A transaction is open exactly between its worker's BEGIN and END. *)
TransactionHeld ==
    /\ \A w \in Workers : pc[w] \in {"select", "end"} => transaction = w
    /\ transaction # NoOne => pc[transaction] \in {"select", "end", "exit"}

(* Populate is called only while there is an object, and only a worker that *)
(* then never leaves again closes its connection.                           *)
Connected ==
    /\ \A w \in Workers : pc[w] # "idle" => phase \in {"running", "exited"}
    /\ phase = "count" => connection = "open"
    /\ phase = "create" => connection = "open"
    /\ phase = "running" /\ (\A w \in Workers : pc[w] # "exit") => connection = "open"
    /\ \A w \in Workers : Talking(w) => connection = "open"

Discipline == ControlType /\ LockHeld /\ TransactionHeld /\ Connected

LEMMA InitInv == Init => Discipline
  BY ConstantsAssumption
  DEF Init, Discipline, ControlType, LockHeld, TransactionHeld, Connected, Inside, Talking, States

-----------------------------------------------------------------------------
(* Steps that leave the workers and the lock alone. *)

LEMMA CreationInv == ASSUME Discipline, Connect \/ Count \/ Create PROVE Discipline'
  BY DEF Connect, Count, Create, work, Discipline, ControlType, LockHeld,
         TransactionHeld, Connected, Inside, Talking

LEMMA FreeInv == ASSUME Discipline, Free PROVE Discipline'
  BY DEF Free, work, Discipline, ControlType, LockHeld, TransactionHeld, Connected,
         Inside, Talking

LEMMA OutsideInv ==
    ASSUME Discipline, UNCHANGED <<lock, transaction, pc, phase, connection>> PROVE Discipline'
  BY DEF Discipline, ControlType, LockHeld, TransactionHeld, Connected, Inside, Talking

-----------------------------------------------------------------------------
(* Steps of one worker inside populate. *)

(* Where a worker is after it moved from one state to another. *)
LEMMA Moved ==
    ASSUME Discipline, NEW w \in Workers, NEW s \in States, pc' = [pc EXCEPT ![w] = s]
    PROVE  /\ pc' \in [Workers -> States]
           /\ pc'[w] = s
           /\ \A v \in Workers \ {w} : pc'[v] = pc[v]
  BY DEF Discipline, ControlType

LEMMA FaultInv ==
    ASSUME Discipline, NEW w \in Workers, NEW c \in Chunks, Fault(w, c) PROVE Discipline'
<1>1. /\ pc[w] = "idle" /\ phase = "running"
      /\ pc' = [pc EXCEPT ![w] = "lock"]
      /\ UNCHANGED <<lock, transaction, phase, connection>>
  BY DEF Fault, object
<1>2. "lock" \in States  BY DEF States
<1>3. /\ pc' \in [Workers -> States] /\ pc'[w] = "lock"
      /\ \A v \in Workers \ {w} : pc'[v] = pc[v]
  BY <1>1, <1>2, Moved
<1> QED
  BY <1>1, <1>3, ConstantsAssumption
  DEF Discipline, ControlType, LockHeld, TransactionHeld, Connected, Inside, Talking

LEMMA LockInv == ASSUME Discipline, NEW w \in Workers, Lock(w) PROVE Discipline'
<1>1. /\ pc[w] = "lock" /\ Alive /\ lock = NoOne /\ lock' = w
      /\ pc' = [pc EXCEPT ![w] = "begin"]
      /\ UNCHANGED <<transaction, phase, connection>>
  BY DEF Lock, object
<1>2. "begin" \in States  BY DEF States
<1>3. /\ pc' \in [Workers -> States] /\ pc'[w] = "begin"
      /\ \A v \in Workers \ {w} : pc'[v] = pc[v]
  BY <1>1, <1>2, Moved
<1>4. \A v \in Workers : ~Inside(v)
  BY <1>1, ConstantsAssumption DEF Discipline, LockHeld
<1>5. phase = "running" /\ connection = "open" /\ transaction = NoOne
  BY <1>1, <1>4 DEF Discipline, Connected, Alive, Inside, TransactionHeld, ControlType
<1>6. ControlType'  BY <1>1, <1>3 DEF Discipline, ControlType
<1>7. LockHeld'  BY <1>1, <1>3, <1>4 DEF LockHeld, Inside
<1>8. TransactionHeld'  BY <1>1, <1>3, <1>4, <1>5 DEF TransactionHeld, Inside
<1>9. Connected'  BY <1>1, <1>3, <1>4, <1>5 DEF Connected, Inside, Talking
<1> QED  BY <1>6, <1>7, <1>8, <1>9 DEF Discipline

(* Nobody else is inside. *)
LEMMA Alone ==
    ASSUME Discipline, NEW w \in Workers, Inside(w)
    PROVE  /\ lock = w
           /\ \A v \in Workers \ {w} : ~Inside(v)
           /\ transaction \in {w, NoOne}
<1>1. lock = w /\ \A v \in Workers \ {w} : ~Inside(v)
  BY DEF Discipline, LockHeld
<1> QED  BY <1>1 DEF Discipline, TransactionHeld, ControlType, Inside

LEMMA InsideInv ==
    ASSUME Discipline, NEW w \in Workers, Begin(w) \/ Select(w) \/ Commit(w)
    PROVE  Discipline'
<1> DEFINE s == pc'[w]
<1>1. /\ pc[w] \in {"begin", "select", "end"}
      /\ UNCHANGED <<lock, phase, connection>>
  BY DEF Begin, Select, Commit, object
<1>2. Inside(w) /\ Talking(w)  BY <1>1 DEF Inside, Talking
<1>3. lock = w /\ (\A v \in Workers \ {w} : ~Inside(v)) /\ transaction \in {w, NoOne}
  BY <1>2, Alone
<1>4. \/ Begin(w) /\ pc' = [pc EXCEPT ![w] = "select"] /\ transaction' = w
      \/ Select(w) /\ pc' = [pc EXCEPT ![w] = "end"] /\ transaction' = w
      \/ Commit(w) /\ pc' = [pc EXCEPT ![w] = "unlock"] /\ transaction' = NoOne
  BY <1>3 DEF Begin, Select, Commit, Discipline, TransactionHeld
<1>5. {"select", "end", "unlock"} \subseteq States  BY DEF States
<1>6. /\ pc' \in [Workers -> States]
      /\ \A v \in Workers \ {w} : pc'[v] = pc[v]
      /\ \/ s = "select" /\ transaction' = w
         \/ s = "end" /\ transaction' = w
         \/ s = "unlock" /\ transaction' = NoOne
  BY <1>4, <1>5, Moved
<1> HIDE DEF s
<1>7. ControlType'  BY <1>1, <1>3, <1>6 DEF Discipline, ControlType
<1>8. LockHeld'  BY <1>1, <1>3, <1>6, s = pc'[w] DEF LockHeld, Inside, s
<1>9. TransactionHeld'
  BY <1>3, <1>6, ConstantsAssumption DEF TransactionHeld, Inside, s
<1>10. Connected'
  BY <1>1, <1>2, <1>3, <1>6 DEF Discipline, Connected, Inside, Talking, s
<1> QED  BY <1>7, <1>8, <1>9, <1>10 DEF Discipline

LEMMA UnlockInv == ASSUME Discipline, NEW w \in Workers, Unlock(w) PROVE Discipline'
<1>1. /\ pc[w] = "unlock" /\ lock' = NoOne
      /\ pc' = [pc EXCEPT ![w] = "idle"]
      /\ UNCHANGED <<transaction, phase, connection>>
  BY DEF Unlock, object
<1>2. Inside(w)  BY <1>1 DEF Inside
<1>3. lock = w /\ (\A v \in Workers \ {w} : ~Inside(v)) /\ transaction \in {w, NoOne}
  BY <1>2, Alone
<1>4. transaction = NoOne  BY <1>1, <1>3 DEF Discipline, TransactionHeld
<1>5. "idle" \in States  BY DEF States
<1>6. /\ pc' \in [Workers -> States] /\ pc'[w] = "idle"
      /\ \A v \in Workers \ {w} : pc'[v] = pc[v]
  BY <1>1, <1>5, Moved
<1>7. ControlType'  BY <1>1, <1>6 DEF Discipline, ControlType
<1>8. LockHeld'  BY <1>1, <1>3, <1>6, ConstantsAssumption DEF LockHeld, Inside
<1>9. TransactionHeld'  BY <1>1, <1>3, <1>4, <1>6 DEF TransactionHeld, Inside
<1>10. Connected'
  BY <1>1, <1>3, <1>6 DEF Discipline, Connected, Inside, Talking
<1> QED  BY <1>7, <1>8, <1>9, <1>10 DEF Discipline

LEMMA FailInv == ASSUME Discipline, NEW w \in Workers, Fail(w) PROVE Discipline'
<1>1. /\ pc[w] \in {"begin", "select", "end"} /\ connection' = "closed"
      /\ pc' = [pc EXCEPT ![w] = "exit"]
      /\ UNCHANGED <<lock, transaction, phase>>
  BY DEF Fail
<1>2. Inside(w)  BY <1>1 DEF Inside
<1>3. lock = w /\ (\A v \in Workers \ {w} : ~Inside(v)) /\ transaction \in {w, NoOne}
  BY <1>2, Alone
<1>4. "exit" \in States  BY DEF States
<1>5. /\ pc' \in [Workers -> States] /\ pc'[w] = "exit"
      /\ \A v \in Workers \ {w} : pc'[v] = pc[v]
  BY <1>1, <1>4, Moved
<1>6. ControlType'  BY <1>1, <1>5 DEF Discipline, ControlType
<1>7. LockHeld'  BY <1>1, <1>3, <1>5 DEF LockHeld, Inside
<1>8. TransactionHeld'
  BY <1>1, <1>3, <1>5, ConstantsAssumption DEF TransactionHeld, Inside
<1>9. phase \in {"running", "exited"}  BY <1>1 DEF Discipline, Connected
<1>10. Connected'
  BY <1>1, <1>3, <1>5, <1>9 DEF Discipline, Connected, Inside, Talking
<1> QED  BY <1>6, <1>7, <1>8, <1>10 DEF Discipline

LEMMA ExitInv == ASSUME Discipline, NEW w \in Workers, Exit(w) PROVE Discipline'
  BY DEF Exit, work, Discipline, ControlType, LockHeld, TransactionHeld, Connected,
         Inside, Talking

LEMMA NextInv == Discipline /\ [Next]_vars => Discipline'
<1> SUFFICES ASSUME Discipline, [Next]_vars PROVE Discipline'  OBVIOUS
<1>1. CASE Connect \/ Count \/ Create  BY <1>1, CreationInv
<1>2. ASSUME NEW w \in Workers, Populate(w) PROVE Discipline'
  BY <1>2, LockInv, InsideInv, UnlockInv, ExitInv DEF Populate
<1>3. ASSUME NEW w \in Workers, Fail(w) PROVE Discipline'  BY <1>3, FailInv
<1>4. ASSUME NEW w \in Workers, NEW c \in Chunks, Fault(w, c) PROVE Discipline'
  BY <1>4, FaultInv
<1>5. ASSUME NEW c \in Chunks, Evict(c) PROVE Discipline'
  BY <1>5, OutsideInv DEF Evict, object
<1>6. CASE Free  BY <1>6, FreeInv
<1>7. CASE Change  BY <1>7, OutsideInv DEF Change, object, work
<1>8. CASE Stopped \/ UNCHANGED vars
  BY <1>8, OutsideInv DEF Stopped, vars, object, work
<1> QED  BY <1>1, <1>2, <1>3, <1>4, <1>5, <1>6, <1>7, <1>8 DEF Next

-----------------------------------------------------------------------------
(* The table: other sessions keep the ids apart, and leave it alone at first. *)
TableOK ==
    /\ league \in Seq(Nat)
    /\ next_id \in Nat
    /\ \A i \in DOMAIN league : league[i] < next_id
    /\ \A i, j \in DOMAIN league : i # j => league[i] # league[j]
    /\ changes \in 0 .. MaxChanges
    /\ changes = 0 => league = [i \in 1 .. Rows |-> i]

(* The object is as long as the table was, and only its chunks are asked for. *)
ObjectOK ==
    /\ size \in Nat
    /\ phase \in {"connect", "count", "create", "running", "exited", "refused", "freed"}
    /\ connection \in {"none", "open", "closed"}
    /\ loads \in 0 .. MaxLoads
    /\ job \in [Workers -> Chunks]
    /\ \A w \in Workers : pc[w] # "idle" => Start(job[w]) < size
    /\ DOMAIN loaded # {} => phase \notin {"connect", "count"}
    /\ changes = 0 /\ (phase \in {"create", "running"} \/ DOMAIN loaded # {}) => size = Rows

(* The elements of chunk c: rows of the range, each of them once. *)
RowsOf(c, rows) ==
    /\ rows \in Seq(Nat)
    /\ \A n \in DOMAIN rows : InRange(c, rows[n])
    /\ \A m, n \in DOMAIN rows : m # n => rows[m] # rows[n]
    /\ changes = 0 => rows = [i \in 1 .. End(c) - Start(c) |-> Start(c) + i]

LoadedOK ==
    \A c \in DOMAIN loaded :
        c \in Chunks /\ Start(c) < size /\ RowsOf(c, loaded[c])

IInv == Discipline /\ TableOK /\ ObjectOK /\ LoadedOK

LEMMA ChunkFacts ==
    ASSUME NEW c \in Chunks, size \in Nat, Start(c) < size
    PROVE  /\ Start(c) \in Nat /\ End(c) \in Nat
           /\ Start(c) < End(c) /\ End(c) <= size
<1>1. c \in Nat /\ LoadCt \in Nat /\ LoadCt > 0
  BY ConstantsAssumption DEF Chunks
<1>2. c * LoadCt \in Nat
  BY <1>1, Products
<1> QED BY <1>1, <1>2 DEF Start, End

(* An ascending list of all numbers from a + 1 to b counts from a on. *)
AscendingList(s, k, a, b) ==
    /\ a \in Nat /\ b \in Nat /\ a <= b /\ k \in Nat
    /\ s \in [1 .. k -> a + 1 .. b]
    /\ \A m, n \in 1 .. k : m < n => s[m] < s[n]
    /\ \A x \in a + 1 .. b : \E n \in 1 .. k : s[n] = x

LEMMA AscendingInterval ==
    ASSUME NEW a, NEW b, NEW k, NEW s, AscendingList(s, k, a, b)
    PROVE  k = b - a /\ \A n \in 1 .. k : s[n] = a + n
<1> USE DEF AscendingList
<1> DEFINE T == {n \in 1 .. k : s[n] # a + n}
<1>1. T = {}
  <2> SUFFICES ASSUME T # {} PROVE FALSE
    OBVIOUS
  <2>1. PICK m \in T : \A n \in T : m <= n
    <3>1. T \subseteq Nat
      OBVIOUS
    <3> HIDE DEF T
    <3> QED BY <3>1, Least
  <2>2. m \in 1 .. k /\ s[m] # a + m /\ s[m] \in a + 1 .. b
    OBVIOUS
  <2>3. \A n \in 1 .. m - 1 : s[n] = a + n
    <3> SUFFICES ASSUME NEW n \in 1 .. m - 1, s[n] # a + n PROVE FALSE
      OBVIOUS
    <3>1. n \in T /\ ~(m <= n)
      BY <2>2
    <3> QED BY <2>1, <3>1
  <2> HIDE DEF T
  <2>4. \A n \in 1 .. k : (n < m => s[n] < s[m]) /\ (m < n => s[m] < s[n])
    BY <2>2
  <2>5. ~(s[m] < a + m)
    <3> SUFFICES ASSUME s[m] < a + m PROVE FALSE
      OBVIOUS
    <3>1. s[m] - a \in 1 .. m - 1
      <4>1. m \in Nat /\ a \in Nat /\ s[m] \in Nat /\ s[m] >= a + 1
        BY <2>2
      <4> HIDE DEF AscendingList
      <4> QED BY <4>1
    <3>2. s[s[m] - a] = a + (s[m] - a)
      BY <2>3, <3>1
    <3>3. s[s[m] - a] < s[m]
      BY <2>2, <2>4, <3>1
    <3> QED BY <2>2, <3>2, <3>3
  <2>6. a + m \in a + 1 .. b /\ a + m < s[m]
    BY <2>2, <2>5
  <2>7. PICK n \in 1 .. k : s[n] = a + m
    BY <2>6
  <2>8. CASE n < m
    BY <2>2, <2>3, <2>7, <2>8
  <2>9. CASE n = m
    BY <2>2, <2>7, <2>9
  <2>10. CASE n > m
    <3>1. s[m] < s[n]
      BY <2>4, <2>10
    <3> QED BY <2>2, <2>6, <2>7, <3>1
  <2> QED BY <2>2, <2>8, <2>9, <2>10
<1>2. \A n \in 1 .. k : s[n] = a + n
  BY <1>1
<1>3. ~(k < b - a)
  <2> SUFFICES ASSUME k < b - a PROVE FALSE
    OBVIOUS
  <2>1. a + k + 1 \in a + 1 .. b
    OBVIOUS
  <2>2. PICK n \in 1 .. k : s[n] = a + k + 1
    BY <2>1
  <2> QED BY <1>2, <2>2
<1>4. ~(k > b - a)
  <2> SUFFICES ASSUME k > b - a PROVE FALSE
    OBVIOUS
  <2>1. k \in 1 .. k /\ s[k] \in a + 1 .. b /\ s[k] = a + k
    BY <1>2
  <2> QED BY <2>1
<1>5. k = b - a
  BY <1>3, <1>4
<1> QED BY <1>2, <1>5

(* What a SELECT answers is rows of its range, and all of them in place as *)
(* long as nobody has changed the table.                                   *)
LEMMA AnswerIsRows ==
    ASSUME TableOK, NEW c \in Chunks, size \in Nat, Start(c) < size,
           changes = 0 => size = Rows,
           NEW rows \in Answers(c)
    PROVE  RowsOf(c, rows)
<1> DEFINE M == Matching(c)
           k == Cardinality(M)
<1>1. PICK p \in SetToSeqs(M) :
         /\ rows = [n \in DOMAIN p |-> league[p[n]]]
         /\ Ascending(p) \/ Ascending(rows)
  BY DEF Answers
<1>2. league \in [1 .. Len(league) -> Nat] /\ Len(league) \in Nat
  BY DEF TableOK
<1>3. M \subseteq 1 .. Len(league) /\ \A i \in M : InRange(c, league[i])
  BY <1>2 DEF Matching
<1>4. IsFiniteSet(M) /\ k \in Nat
  <2>1. IsFiniteSet(1 .. Len(league))
    BY <1>2, FS_Interval
  <2>2. M \in SUBSET (1 .. Len(league))
    BY <1>3
  <2> HIDE DEF M
  <2>3. IsFiniteSet(M)
    BY <2>1, <2>2, FS_Subset
  <2> QED BY <2>3, FS_CardinalityType
<1>5. p \in [1 .. k -> M] /\ \A m, n \in 1 .. k : m # n => p[m] # p[n]
  BY <1>1 DEF SetToSeqs
<1> HIDE DEF M, k
<1>6. rows = [n \in 1 .. k |-> league[p[n]]] /\ \A n \in 1 .. k : p[n] \in 1 .. Len(league)
  BY <1>1, <1>3, <1>5
<1>7. rows \in Seq(Nat) /\ DOMAIN rows = 1 .. k
  BY <1>2, <1>4, <1>6
<1>8. \A n \in DOMAIN rows : InRange(c, rows[n])
  BY <1>3, <1>5, <1>6, <1>7
<1>9. \A m, n \in DOMAIN rows : m # n => rows[m] # rows[n]
  <2> SUFFICES ASSUME NEW m \in 1 .. k, NEW n \in 1 .. k, m # n PROVE rows[m] # rows[n]
    BY <1>7
  <2>1. p[m] # p[n] /\ p[m] \in DOMAIN league /\ p[n] \in DOMAIN league
    BY <1>2, <1>5, <1>6
  <2> QED BY <1>6, <2>1 DEF TableOK
<1>10. ASSUME changes = 0
       PROVE  rows = [i \in 1 .. End(c) - Start(c) |-> Start(c) + i]
  <2> DEFINE a == Start(c)
             b == End(c)
  <2>1. a \in Nat /\ b \in Nat /\ a < b /\ b <= Rows /\ Rows \in Nat
    BY <1>10, ChunkFacts, ConstantsAssumption
  <2>2. league = [i \in 1 .. Rows |-> i]
    BY <1>10 DEF TableOK
  <2>3. \A i \in 1 .. Rows : InRange(c, i) <=> i \in a + 1 .. b
    BY <2>1 DEF InRange
  <2>4. M = a + 1 .. b
    <3>1. M = {i \in 1 .. Rows : InRange(c, i)}
      BY <2>2 DEF M, Matching
    <3> HIDE DEF a, b
    <3> QED BY <2>1, <2>3, <3>1
  <2> HIDE DEF a, b
  <2>5. rows = p
    <3>1. \A n \in 1 .. k : league[p[n]] = p[n]
      BY <1>5, <2>1, <2>2, <2>4
    <3> QED BY <1>5, <1>6, <3>1
  <2>6. \A x \in M : \E n \in 1 .. k : p[n] = x
    <3>1. p \in Injection(1 .. k, M)
      BY <1>5 DEF Injection, IsInjective
    <3>2. Cardinality(1 .. k) = k /\ IsFiniteSet(1 .. k)
      BY <1>4, FS_Interval
    <3>3. p \in Surjection(1 .. k, M)
      BY <1>4, <3>1, <3>2, FS_Injection DEF k
    <3> QED BY <3>3 DEF Surjection
  <2>7. Ascending(p)
    BY <1>1, <2>5
  <2>8. AscendingList(p, k, a, b)
    <3>1. \A m, n \in 1 .. k : m < n => p[m] < p[n]
      BY <1>5, <2>7 DEF Ascending
    <3> QED BY <1>4, <1>5, <2>1, <2>4, <2>6, <3>1 DEF AscendingList
  <2>9. p = [n \in 1 .. b - a |-> a + n]
    <3>1. k = b - a /\ \A n \in 1 .. k : p[n] = a + n
      BY <2>8, AscendingInterval
    <3> QED BY <1>5, <3>1
  <2> QED BY <2>5, <2>9 DEF a, b
<1> QED BY <1>7, <1>8, <1>9, <1>10 DEF RowsOf

(* Removing a row moves those after it up by one. *)
LEMMA RemoveFacts ==
    ASSUME NEW s \in Seq(Nat), NEW i \in 1 .. Len(s)
    PROVE  /\ RemoveAt(s, i) \in Seq(Nat)
           /\ Len(RemoveAt(s, i)) = Len(s) - 1
           /\ \A n \in 1 .. Len(s) - 1 :
                 RemoveAt(s, i)[n] = IF n < i THEN s[n] ELSE s[n + 1]
<1> DEFINE front == SubSeq(s, 1, i - 1)
           back == SubSeq(s, i + 1, Len(s))
<1>1. /\ front \in Seq(Nat) /\ Len(front) = i - 1
      /\ \A n \in 1 .. i - 1 : front[n] = s[n]
  OBVIOUS
<1>2. /\ back \in Seq(Nat) /\ Len(back) = Len(s) - i
      /\ \A n \in 1 .. Len(s) - i : back[n] = s[i + n]
  OBVIOUS
<1>3. RemoveAt(s, i) = front \o back
  BY DEF RemoveAt
<1> HIDE DEF front, back
<1>4. Len(s) \in Nat /\ front \o back \in Seq(Nat) /\ Len(front \o back) = Len(s) - 1
  <2>1. Len(s) \in Nat
    OBVIOUS
  <2>2. front \o back \in Seq(Nat) /\ Len(front \o back) = Len(front) + Len(back)
    BY <1>1, <1>2, ConcatProperties
  <2> QED BY <1>1, <1>2, <2>1, <2>2
<1>5. ASSUME NEW n \in 1 .. Len(s) - 1
      PROVE  (front \o back)[n] = IF n < i THEN s[n] ELSE s[n + 1]
  <2>1. CASE n < i
    <3>1. n \in 1 .. i - 1 /\ n \in 1 .. Len(front) + Len(back) /\ n <= Len(front)
      BY <1>1, <1>2, <1>4, <2>1
    <3>2. (front \o back)[n] = front[n]
      BY <1>1, <1>2, <3>1, ConcatProperties
    <3> QED BY <1>1, <2>1, <3>1, <3>2
  <2>2. CASE n >= i
    <3>1. n - (i - 1) \in 1 .. Len(s) - i
      BY <1>4, <2>2
    <3>2. (front \o back)[n] = back[n - (i - 1)]
      <4>1. n \in 1 .. Len(front) + Len(back) /\ ~(n <= Len(front)) /\ Len(front) = i - 1
        BY <1>1, <1>2, <1>4, <2>2
      <4>2. (front \o back)[n] = back[n - Len(front)]
        BY <1>1, <1>2, <4>1, ConcatProperties
      <4> QED BY <4>1, <4>2
    <3>3. back[n - (i - 1)] = s[i + (n - (i - 1))] /\ i + (n - (i - 1)) = n + 1
      BY <1>2, <1>4, <3>1
    <3> QED BY <2>2, <3>2, <3>3
  <2> QED BY <1>4, <2>1, <2>2
<1> QED BY <1>3, <1>4, <1>5

(* Rows that move, or vanish, stay apart. *)
LEMMA Rearranged ==
    ASSUME TableOK, league' \in Seq(Nat), UNCHANGED next_id,
           changes' \in 0 .. MaxChanges, changes' # 0,
           NEW old \in [DOMAIN league' -> DOMAIN league],
           \A m, n \in DOMAIN league' : m # n => old[m] # old[n],
           \A n \in DOMAIN league' : league'[n] = league[old[n]]
    PROVE  TableOK'
<1>1. \A n \in DOMAIN league' : league'[n] < next_id'
  BY DEF TableOK
<1>2. \A m, n \in DOMAIN league' : m # n => league'[m] # league'[n]
  BY DEF TableOK
<1> QED BY <1>1, <1>2 DEF TableOK

LEMMA ChangeTable == ASSUME TableOK, Change PROVE TableOK'
<1> DEFINE k == Len(league)
<1>1. changes' \in 0 .. MaxChanges /\ changes' # 0
  BY ConstantsAssumption DEF Change, TableOK
<1>2. league \in Seq(Nat) /\ k \in Nat /\ DOMAIN league = 1 .. k
  BY DEF TableOK
<1>3. CASE league' = Append(league, next_id) /\ next_id' = next_id + 1
  <2>1. /\ \A n \in 1 .. k : league[n] < next_id /\ league[n] \in Nat
        /\ \A m, n \in 1 .. k : m # n => league[m] # league[n]
        /\ next_id \in Nat
    <3>1. \A n \in DOMAIN league : league[n] \in Nat
      BY <1>2
    <3> HIDE DEF k
    <3> QED BY <1>2, <3>1 DEF TableOK
  <2>0. next_id' = next_id + 1
    BY <1>3
  <2>2. /\ league' \in Seq(Nat) /\ DOMAIN league' = 1 .. k + 1
        /\ league'[k + 1] = next_id
        /\ \A n \in 1 .. k : league'[n] = league[n]
    BY <1>2, <1>3, <2>1
  <2> HIDE DEF k
  <2>3. ASSUME NEW m \in 1 .. k + 1, NEW n \in 1 .. k + 1, m # n
        PROVE  league'[m] # league'[n]
    <3>1. CASE m \in 1 .. k /\ n \in 1 .. k
      BY <2>1, <2>2, <2>3, <3>1
    <3>2. CASE m = k + 1
      <4>1. n \in 1 .. k
        BY <1>2, <2>3, <3>2
      <4> QED BY <2>1, <2>2, <3>2, <4>1
    <3>3. CASE n = k + 1
      <4>1. m \in 1 .. k
        BY <1>2, <2>3, <3>3
      <4> QED BY <2>1, <2>2, <3>3, <4>1
    <3> QED BY <1>2, <3>1, <3>2, <3>3
  <2>4. \A n \in 1 .. k + 1 : league'[n] < next_id'
    <3> SUFFICES ASSUME NEW n \in 1 .. k + 1 PROVE league'[n] < next_id'
      OBVIOUS
    <3>1. CASE n \in 1 .. k
      <4>1. league'[n] = league[n] /\ league[n] < next_id /\ league[n] \in Nat
        BY <2>1, <2>2, <3>1
      <4> QED BY <2>0, <2>1, <4>1
    <3>2. CASE n = k + 1
      BY <2>0, <2>1, <2>2, <3>2
    <3> QED BY <1>2, <3>1, <3>2
  <2>5. next_id' \in Nat
    BY <2>0, <2>1
  <2> QED BY <1>1, <2>2, <2>3, <2>4, <2>5 DEF TableOK
<1>4. CASE /\ UNCHANGED next_id
           /\ \E i \in 1 .. Len(league) :
                 league' \in {RemoveAt(league, i), Append(RemoveAt(league, i), league[i])}
  <2>1. PICK i \in 1 .. k :
           league' \in {RemoveAt(league, i), Append(RemoveAt(league, i), league[i])}
    BY <1>4
  <2> DEFINE rest == RemoveAt(league, i)
             old == [n \in DOMAIN league' |-> IF n < i THEN n ELSE IF n = k THEN i ELSE n + 1]
  <2>2. /\ rest \in Seq(Nat) /\ Len(rest) = k - 1
        /\ \A n \in 1 .. k - 1 : rest[n] = IF n < i THEN league[n] ELSE league[n + 1]
        /\ league[i] \in Nat
    <3>1. league[i] \in Nat
      BY <1>2
    <3>2. /\ RemoveAt(league, i) \in Seq(Nat) /\ Len(RemoveAt(league, i)) = Len(league) - 1
          /\ \A n \in 1 .. Len(league) - 1 :
                RemoveAt(league, i)[n] = IF n < i THEN league[n] ELSE league[n + 1]
      BY <1>2, RemoveFacts
    <3> QED BY <3>1, <3>2
  <2> HIDE DEF rest, k
  <2>3. CASE league' = rest
    <3>1. league' \in Seq(Nat) /\ DOMAIN league' = 1 .. k - 1
      BY <1>2, <2>2, <2>3
    <3>2. old \in [DOMAIN league' -> DOMAIN league]
      BY <1>2, <3>1
    <3>3. \A m, n \in DOMAIN league' : m # n => old[m] # old[n]
      <4> SUFFICES ASSUME NEW m \in DOMAIN league', NEW n \in DOMAIN league', m # n
                   PROVE  old[m] # old[n]
        OBVIOUS
      <4>1. m \in 1 .. k /\ n \in 1 .. k /\ i \in 1 .. k /\ k \in Nat
        BY <1>2, <3>1
      <4>2. /\ old[m] = IF m < i THEN m ELSE IF m = k THEN i ELSE m + 1
            /\ old[n] = IF n < i THEN n ELSE IF n = k THEN i ELSE n + 1
        OBVIOUS
      <4> HIDE DEF old
      <4> QED BY <4>1, <4>2
    <3>4. ASSUME NEW n \in DOMAIN league' PROVE league'[n] = league[old[n]]
      <4>1. n \in 1 .. k - 1 /\ old[n] = IF n < i THEN n ELSE n + 1
        BY <1>2, <3>1
      <4> HIDE DEF old
      <4> QED BY <2>2, <2>3, <4>1
    <3> HIDE DEF old
    <3> QED BY <1>1, <1>4, <3>1, <3>2, <3>3, <3>4, Rearranged
  <2>4. CASE league' = Append(rest, league[i])
    <3>1. /\ league' \in Seq(Nat) /\ DOMAIN league' = 1 .. k
          /\ league'[k] = league[i]
          /\ \A n \in 1 .. k - 1 : league'[n] = rest[n]
      BY <1>2, <2>2, <2>4
    <3>2. old \in [DOMAIN league' -> DOMAIN league]
      BY <1>2, <3>1
    <3>3. \A m, n \in DOMAIN league' : m # n => old[m] # old[n]
      <4> SUFFICES ASSUME NEW m \in DOMAIN league', NEW n \in DOMAIN league', m # n
                   PROVE  old[m] # old[n]
        OBVIOUS
      <4>1. m \in 1 .. k /\ n \in 1 .. k /\ i \in 1 .. k /\ k \in Nat
        BY <1>2, <3>1
      <4>2. /\ old[m] = IF m < i THEN m ELSE IF m = k THEN i ELSE m + 1
            /\ old[n] = IF n < i THEN n ELSE IF n = k THEN i ELSE n + 1
        OBVIOUS
      <4> HIDE DEF old
      <4> QED BY <4>1, <4>2
    <3>4. ASSUME NEW n \in 1 .. k PROVE league'[n] = league[old[n]]
      <4>1. CASE n = k
        <5>1. old[n] = i
          BY <1>2, <3>1, <4>1
        <5> HIDE DEF old
        <5> QED BY <3>1, <4>1, <5>1
      <4>2. CASE n # k
        <5>1. n \in 1 .. k - 1 /\ old[n] = IF n < i THEN n ELSE n + 1
          BY <1>2, <3>1, <4>2
        <5> HIDE DEF old
        <5> QED BY <2>2, <3>1, <5>1
      <4> QED BY <4>1, <4>2
    <3> HIDE DEF old
    <3> QED BY <1>1, <1>4, <3>1, <3>2, <3>3, <3>4, Rearranged
  <2> QED BY <2>1, <2>3, <2>4 DEF rest
<1> QED BY <1>3, <1>4 DEF Change

(* Chunks are good after a step that keeps the size if they are good now. *)
LEMMA GoodNext ==
    ASSUME UNCHANGED size, changes' = changes \/ changes' # 0,
           \A d \in DOMAIN loaded' :
               d \in Chunks /\ Start(d) < size /\ RowsOf(d, loaded'[d])
    PROVE  LoadedOK'
<1>1. Chunks' = Chunks /\ \A c : Start(c)' = Start(c) /\ End(c)' = End(c)
  BY DEF Start, End, Chunks
<1>2. ASSUME NEW d \in DOMAIN loaded'
      PROVE  /\ d \in Chunks /\ Start(d) < size
             /\ loaded'[d] \in Seq(Nat)
             /\ \A n \in DOMAIN loaded'[d] :
                   loaded'[d][n] >= Start(d) + 1 /\ loaded'[d][n] < End(d) + 1
             /\ \A m, n \in DOMAIN loaded'[d] : m # n => loaded'[d][m] # loaded'[d][n]
             /\ changes' = 0 => loaded'[d] = [i \in 1 .. End(d) - Start(d) |-> Start(d) + i]
  BY <1>2 DEF RowsOf, InRange
<1> QED BY <1>1, <1>2 DEF LoadedOK, RowsOf, InRange

(* What is loaded remains so, whatever happens to the table. *)
LEMMA StillLoaded ==
    ASSUME LoadedOK, UNCHANGED <<size, loaded>>, changes' = changes \/ changes' # 0
    PROVE  LoadedOK'
  BY GoodNext DEF LoadedOK

LEMMA SameTable == ASSUME TableOK, UNCHANGED table PROVE TableOK'
  BY DEF TableOK, table

-----------------------------------------------------------------------------
Phases == {"connect", "count", "create", "running", "exited", "refused", "freed"}

(* Steps that ask for no chunk, and count and fill nothing. *)
LEMMA KeepData ==
    ASSUME ObjectOK, LoadedOK, UNCHANGED <<size, job, loaded, loads>>,
           changes' = changes \/ changes' # 0,
           \A w \in Workers : pc'[w] # "idle" => pc[w] # "idle",
           phase' \in Phases, connection' \in {"none", "open", "closed"},
           phase' \in {"connect", "count"} => phase \in {"connect", "count"},
           phase' \in {"create", "running"} => phase \in {"create", "running"}
    PROVE  ObjectOK' /\ LoadedOK'
<1>1. LoadedOK'
  BY StillLoaded
<1>2. Chunks' = Chunks /\ \A c : Start(c)' = Start(c)
  BY DEF Chunks, Start
<1>3. job' \in [Workers -> Chunks'] /\ \A w \in Workers : pc'[w] # "idle" => Start(job[w]) < size
  BY <1>2 DEF ObjectOK
<1>4. DOMAIN loaded' # {} => phase' \notin {"connect", "count"}
  BY DEF ObjectOK
<1>5. changes' = 0 /\ (phase' \in {"create", "running"} \/ DOMAIN loaded' # {}) => size' = Rows
  BY DEF ObjectOK
<1> QED BY <1>1, <1>3, <1>4, <1>5 DEF ObjectOK, Phases, Start

LEMMA CreationData == ASSUME IInv, Connect \/ Count \/ Create PROVE ObjectOK' /\ LoadedOK'
<1>1. CASE Connect
  <2>1. /\ UNCHANGED <<size, job, loaded, loads, changes, pc>> /\ phase = "connect"
        /\ phase' \in {"count", "exited"} /\ connection' \in {"open", "closed"}
    BY <1>1 DEF Connect, table, work
  <2> QED BY <2>1, KeepData DEF IInv, Phases
<1>2. CASE Count
  <2>1. /\ UNCHANGED <<job, loaded, loads, changes, pc>> /\ phase = "count"
        /\ phase' \in {"create", "exited"} /\ connection' \in {connection, "closed"}
        /\ size' = size \/ size' = Len(league)
        /\ phase' = "create" => size' = Len(league)
    BY <1>2 DEF Count, table, work
  <2>2. DOMAIN loaded = {} /\ \A w \in Workers : pc[w] = "idle"
    BY <2>1 DEF IInv, ObjectOK, Discipline, Connected
  <2>3. Len(league) \in Nat /\ (changes = 0 => Len(league) = Rows)
    <3>1. Rows \in Nat
      BY ConstantsAssumption
    <3> QED BY <3>1 DEF IInv, TableOK
  <2>4. Chunks' = Chunks
    BY DEF Chunks
  <2>5. LoadedOK'
    BY <2>1, <2>2 DEF LoadedOK
  <2>6. size' \in Nat /\ (changes' = 0 /\ phase' = "create" => size' = Rows)
    BY <2>1, <2>3 DEF IInv, ObjectOK
  <2> QED BY <2>1, <2>2, <2>4, <2>5, <2>6 DEF IInv, ObjectOK
<1>3. CASE Create
  <2>1. /\ UNCHANGED <<size, job, loaded, loads, changes, pc, connection>> /\ phase = "create"
        /\ phase' \in {"running", "refused"}
    BY <1>3 DEF Create, table, work
  <2> QED BY <2>1, KeepData DEF IInv, Phases, ObjectOK
<1> QED BY <1>1, <1>2, <1>3

LEMMA FaultData ==
    ASSUME IInv, NEW w \in Workers, NEW c \in Chunks, Fault(w, c)
    PROVE  ObjectOK' /\ LoadedOK'
<1>1. /\ UNCHANGED <<size, loaded, changes, phase, connection>>
      /\ Start(c) < size /\ loads < MaxLoads /\ loads' = loads + 1
      /\ pc' = [pc EXCEPT ![w] = "lock"] /\ job' = [job EXCEPT ![w] = c]
  BY DEF Fault, table, object
<1>2. Chunks' = Chunks /\ \A d : Start(d)' = Start(d)
  BY DEF Chunks, Start
<1>3. LoadedOK'
  BY <1>1, StillLoaded DEF IInv
<1>4. loads' \in 0 .. MaxLoads
  BY <1>1, ConstantsAssumption DEF IInv, ObjectOK
<1>5. job' \in [Workers -> Chunks] /\ job'[w] = c /\ \A v \in Workers \ {w} : job'[v] = job[v]
  BY <1>1 DEF IInv, ObjectOK
<1>6. \A v \in Workers \ {w} : pc'[v] = pc[v]
  BY <1>1 DEF IInv, Discipline, ControlType
<1>7. \A v \in Workers : pc'[v] # "idle" => Start(job'[v]) < size
  BY <1>1, <1>5, <1>6 DEF IInv, ObjectOK
<1> QED BY <1>1, <1>2, <1>3, <1>4, <1>5, <1>7 DEF IInv, ObjectOK

LEMMA SelectData ==
    ASSUME IInv, NEW w \in Workers, Select(w)
    PROVE  ObjectOK' /\ LoadedOK'
<1> DEFINE c == job[w]
<1>1. /\ UNCHANGED <<size, changes, phase, connection, job, loads, league>>
      /\ Alive /\ pc[w] = "select" /\ pc' = [pc EXCEPT ![w] = "end"]
  BY DEF Select, table, object
<1>2. PICK rows \in Answers(c) :
         loaded' = [d \in DOMAIN loaded \cup {c} |-> IF d = c THEN rows ELSE loaded[d]]
  BY DEF Select
<1>3. /\ c \in Chunks /\ Start(c) < size /\ size \in Nat
      /\ \A v \in Workers : pc'[v] # "idle" => pc[v] # "idle"
  BY <1>1 DEF IInv, ObjectOK, Discipline, ControlType
<1>4. phase = "running"
  BY <1>1 DEF IInv, Discipline, Connected, Alive
<1>5. changes = 0 => size = Rows
  BY <1>4 DEF IInv, ObjectOK
<1> HIDE DEF c
<1>6. RowsOf(c, rows)
  BY <1>2, <1>3, <1>5, AnswerIsRows DEF IInv
<1>7. \A d \in DOMAIN loaded' : d \in Chunks /\ Start(d) < size /\ RowsOf(d, loaded'[d])
  BY <1>2, <1>3, <1>6 DEF IInv, LoadedOK
<1>8. /\ Chunks' = Chunks /\ \A d : Start(d)' = Start(d)
  BY <1>1 DEF Chunks, Start
<1>9. LoadedOK'
  BY <1>1, <1>7, GoodNext
<1>10. ObjectOK'
  BY <1>1, <1>3, <1>4, <1>5, <1>8 DEF IInv, ObjectOK
<1> QED BY <1>9, <1>10

LEMMA EvictData ==
    ASSUME IInv, NEW c \in Chunks, Evict(c) PROVE ObjectOK' /\ LoadedOK'
<1>1. /\ UNCHANGED <<size, changes, phase, connection, job, loads, pc>>
      /\ phase = "running"
      /\ loaded' = [d \in DOMAIN loaded \ {c} |-> loaded[d]]
  BY DEF Evict, table, object
<1>2. Chunks' = Chunks /\ \A d : Start(d)' = Start(d)
  BY DEF Chunks, Start
<1>3. LoadedOK'
  <2>1. \A d \in DOMAIN loaded' : d \in Chunks /\ Start(d) < size /\ RowsOf(d, loaded'[d])
    BY <1>1 DEF IInv, LoadedOK
  <2> QED BY <1>1, <2>1, GoodNext
<1>4. ObjectOK'
  BY <1>1, <1>2 DEF IInv, ObjectOK
<1> QED BY <1>3, <1>4

(* The other steps of one worker. *)
LEMMA WorkerData ==
    ASSUME IInv, NEW w \in Workers,
           Lock(w) \/ Begin(w) \/ Commit(w) \/ Unlock(w) \/ Exit(w) \/ Fail(w)
    PROVE  ObjectOK' /\ LoadedOK'
<1>1. /\ UNCHANGED <<size, changes, job, loaded, loads>>
      /\ phase' \in {phase, "exited"} /\ connection' \in {connection, "closed"}
      /\ pc[w] # "idle"
      /\ pc' = pc \/ \E s \in States : pc' = [pc EXCEPT ![w] = s]
  BY DEF Lock, Begin, Commit, Unlock, Exit, Fail, table, object, work, States
<1>2. \A v \in Workers : pc'[v] # "idle" => pc[v] # "idle"
  BY <1>1 DEF IInv, Discipline, ControlType
<1>3. phase' \in Phases /\ connection' \in {"none", "open", "closed"}
  BY <1>1 DEF IInv, ObjectOK, Phases
<1> QED BY <1>1, <1>2, <1>3, KeepData DEF IInv

LEMMA DataInv == IInv /\ [Next]_vars => TableOK' /\ ObjectOK' /\ LoadedOK'
<1> SUFFICES ASSUME IInv, [Next]_vars PROVE TableOK' /\ ObjectOK' /\ LoadedOK'
  OBVIOUS
<1>1. CASE Connect \/ Count \/ Create
  <2>1. UNCHANGED table
    BY <1>1 DEF Connect, Count, Create
  <2> QED BY <1>1, <2>1, CreationData, SameTable DEF IInv
<1>2. ASSUME NEW w \in Workers, Populate(w) \/ Fail(w)
      PROVE  TableOK' /\ ObjectOK' /\ LoadedOK'
  <2>1. UNCHANGED table
    BY <1>2 DEF Populate, Lock, Begin, Select, Commit, Unlock, Exit, Fail
  <2>2. TableOK'
    BY <2>1, SameTable DEF IInv
  <2> QED BY <1>2, <2>2, SelectData, WorkerData DEF Populate
<1>3. ASSUME NEW w \in Workers, NEW c \in Chunks, Fault(w, c)
      PROVE  TableOK' /\ ObjectOK' /\ LoadedOK'
  <2>1. UNCHANGED table
    BY <1>3 DEF Fault
  <2> QED BY <1>3, <2>1, FaultData, SameTable DEF IInv
<1>4. ASSUME NEW c \in Chunks, Evict(c) PROVE TableOK' /\ ObjectOK' /\ LoadedOK'
  <2>1. UNCHANGED table
    BY <1>4 DEF Evict
  <2> QED BY <1>4, <2>1, EvictData, SameTable DEF IInv
<1>5. CASE Free
  <2>1. /\ UNCHANGED table /\ UNCHANGED <<size, job, loaded, loads, changes, pc>>
        /\ phase' = "freed" /\ connection' = "closed"
    BY <1>5 DEF Free, table, work
  <2> QED BY <2>1, KeepData, SameTable DEF IInv, Phases
<1>6. CASE Change
  <2>1. UNCHANGED <<size, job, loaded, loads, pc, phase, connection>>
    BY <1>6 DEF Change, object, work
  <2>2. TableOK'
    BY <1>6, ChangeTable DEF IInv
  <2>3. changes' # 0
    BY <1>6 DEF Change, IInv, TableOK
  <2> QED BY <2>1, <2>2, <2>3, KeepData DEF IInv, ObjectOK, Phases
<1>7. CASE Stopped \/ UNCHANGED vars
  <2>1. UNCHANGED table /\ UNCHANGED <<size, job, loaded, loads, changes, pc, phase, connection>>
    BY <1>7 DEF Stopped, vars, table, object, work
  <2> QED BY <2>1, KeepData, SameTable DEF IInv, ObjectOK, Phases
<1> QED BY <1>1, <1>2, <1>3, <1>4, <1>5, <1>6, <1>7 DEF Next

LEMMA InitData == Init => TableOK /\ ObjectOK /\ LoadedOK
<1> SUFFICES ASSUME Init PROVE TableOK /\ ObjectOK /\ LoadedOK
  OBVIOUS
<1>1. Rows \in Nat /\ MaxChanges \in Nat /\ MaxLoads \in Nat /\ LoadCt \in Nat /\ LoadCt > 0
  BY ConstantsAssumption
<1>2. TableOK
  <2>1. league = [i \in 1 .. Rows |-> i] /\ next_id = Rows + 1 /\ changes = 0
    BY DEF Init
  <2>2. league \in Seq(Nat) /\ DOMAIN league = 1 .. Rows /\ \A i \in 1 .. Rows : league[i] = i
    BY <1>1, <2>1
  <2> QED BY <1>1, <2>1, <2>2 DEF TableOK
<1>3. 0 \in Chunks
  <2>1. (Rows + MaxChanges) \div LoadCt \in Nat
    BY <1>1, QuotientsOrdered
  <2> QED BY <2>1 DEF Chunks
<1>4. DOMAIN loaded = {}
  BY DEF Init
<1> QED BY <1>1, <1>2, <1>3, <1>4 DEF Init, ObjectOK, LoadedOK

(***************************************************************************)
(* The mutex discipline, ids that stay apart, and chunks that hold rows of *)
(* their own range only (src/postgres.c:61-98, 129-142).                   *)
(***************************************************************************)
THEOREM Invariance == Spec => []IInv
<1>1. Init => IInv
  BY InitInv, InitData DEF IInv
<1>2. IInv /\ [Next]_vars => IInv'
  BY NextInv, DataInv DEF IInv
<1> QED  BY <1>1, <1>2, PTL DEF Spec

(* The variables keep their types, whatever the table becomes. *)
THEOREM TypeCorrect == Spec => []TypeOK
<1>1. IInv => TypeOK
  BY DEF IInv, Discipline, ControlType, States, TableOK, ObjectOK, LoadedOK, RowsOf, TypeOK
<1> QED  BY <1>1, Invariance, PTL

(* Every statement runs in its own worker's transaction, and none outlives *)
(* the populate call that began it.                                        *)
THEOREM TransactionCorrect == Spec => []OwnTransaction
<1>1. IInv => OwnTransaction
  <2> SUFFICES ASSUME Discipline PROVE OwnTransaction  BY DEF IInv
  <2>1. ASSUME transaction # NoOne PROVE Inside(transaction) /\ lock = transaction
    BY <2>1 DEF Discipline, ControlType, TransactionHeld, LockHeld, Inside
  <2> QED  BY <2>1 DEF Discipline, TransactionHeld, OwnTransaction
<1> QED  BY <1>1, Invariance, PTL

(* No statement is sent over the connection that a failed worker closed. *)
THEOREM ConnectionCorrect == Spec => []NoUseAfterFinish
<1>1. IInv => NoUseAfterFinish
  BY DEF IInv, Discipline, Connected, NoUseAfterFinish
<1> QED  BY <1>1, Invariance, PTL

(* Chunks have no element in common. *)
LEMMA ChunksApart ==
    ASSUME NEW c \in Chunks, NEW d \in Chunks, c # d, size \in Nat, NEW id \in Nat,
           InRange(c, id), InRange(d, id)
    PROVE  FALSE
<1>1. c \in Nat /\ d \in Nat /\ LoadCt \in Nat /\ LoadCt > 0
  BY ConstantsAssumption DEF Chunks
<1>2. \A e, f \in Nat : e < f => (f - e) * LoadCt >= LoadCt /\ (f - e) * LoadCt = f * LoadCt - e * LoadCt
  <2> SUFFICES ASSUME NEW e \in Nat, NEW f \in Nat, e < f
               PROVE  (f - e) * LoadCt >= LoadCt /\ (f - e) * LoadCt = f * LoadCt - e * LoadCt
    OBVIOUS
  <2>1. f - e \in Int /\ f - e >= 1
    OBVIOUS
  <2>2. (f - e) * LoadCt >= LoadCt
    BY <1>1, <2>1, Multiple
  <2>3. (f - e) * LoadCt = f * LoadCt - e * LoadCt
    BY <1>1, SMT
  <2> QED BY <2>2, <2>3
<1>3. c * LoadCt \in Nat /\ d * LoadCt \in Nat
  BY <1>1, Products
<1>4. /\ c * LoadCt + 1 <= id /\ id <= c * LoadCt + LoadCt
      /\ d * LoadCt + 1 <= id /\ id <= d * LoadCt + LoadCt
  BY <1>1, <1>3 DEF InRange, Start, End
<1>5. CASE c < d
  BY <1>1, <1>2, <1>3, <1>4, <1>5
<1>6. CASE d < c
  BY <1>1, <1>2, <1>3, <1>4, <1>6
<1> QED BY <1>1, <1>5, <1>6

(***************************************************************************)
(* The answer to a SELECT has no more rows than its target has elements,   *)
(* and none of another chunk, whatever has become of the table, and of the *)
(* size that was counted (retrieve_from_table, src/postgres.c:61-98).      *)
(***************************************************************************)
THEOREM AnswersFit == Spec => []FitsTarget
<1>1. ASSUME IInv, NEW c \in DOMAIN loaded PROVE Len(loaded[c]) <= End(c) - Start(c)
  <2> DEFINE a == Start(c)
             b == End(c)
             rows == loaded[c]
  <2>1. a \in Nat /\ b \in Nat /\ a < b
    BY <1>1, ChunkFacts DEF IInv, LoadedOK, ObjectOK
  <2>2. /\ rows \in [1 .. Len(rows) -> Nat] /\ Len(rows) \in Nat
        /\ \A n \in 1 .. Len(rows) : a + 1 <= rows[n] /\ rows[n] < b + 1
        /\ \A m, n \in 1 .. Len(rows) : m # n => rows[m] # rows[n]
    BY <1>1 DEF IInv, LoadedOK, RowsOf, InRange
  <2> HIDE DEF a, b, rows
  <2>3. rows \in Injection(1 .. Len(rows), a + 1 .. b)
    <3>1. rows \in [1 .. Len(rows) -> a + 1 .. b]
      BY <2>1, <2>2
    <3> QED BY <2>2, <3>1 DEF Injection, IsInjective
  <2>4. /\ IsFiniteSet(a + 1 .. b) /\ Cardinality(a + 1 .. b) = b - a
        /\ Cardinality(1 .. Len(rows)) = Len(rows)
    <3>1. a + 1 \in Int /\ b \in Int /\ ~(a + 1 > b) /\ b - (a + 1) + 1 = b - a
      BY <2>1
    <3>2. IsFiniteSet(a + 1 .. b) /\ Cardinality(a + 1 .. b) = b - (a + 1) + 1
      BY <3>1, FS_Interval
    <3>3. Cardinality(1 .. Len(rows)) = Len(rows)
      <4> DEFINE k == Len(rows)
      <4>1. k \in Int /\ k >= 0 /\ 1 \in Int
        BY <2>2
      <4> HIDE DEF k
      <4>2. Cardinality(1 .. k) = IF 1 > k THEN 0 ELSE k - 1 + 1
        BY <4>1, FS_Interval
      <4>3. Cardinality(1 .. k) = k
        BY <4>1, <4>2
      <4> QED BY <4>3 DEF k
    <3> QED BY <3>1, <3>2, <3>3
  <2>5. Cardinality(1 .. Len(rows)) <= Cardinality(a + 1 .. b)
    BY <2>3, <2>4, FS_Injection
  <2> QED BY <2>4, <2>5 DEF a, b, rows
<1>2. ASSUME IInv, NEW c \in DOMAIN loaded, NEW d \in DOMAIN loaded \ {c}
      PROVE  ToSet(loaded[c]) \cap ToSet(loaded[d]) = {}
  <2> SUFFICES ASSUME NEW m \in DOMAIN loaded[c], NEW n \in DOMAIN loaded[d],
                      loaded[c][m] = loaded[d][n]
               PROVE  FALSE
    BY DEF ToSet
  <2>1. /\ InRange(c, loaded[c][m]) /\ InRange(d, loaded[d][n])
        /\ loaded[c][m] \in Nat /\ c \in Chunks /\ d \in Chunks
    BY <1>2 DEF IInv, LoadedOK, RowsOf
  <2> QED BY <1>2, <2>1, ChunksApart DEF IInv, ObjectOK
<1>3. IInv => FitsTarget
  BY <1>1, <1>2 DEF FitsTarget
<1> QED  BY <1>3, Invariance, PTL

(* Every row of a table left alone is at its place, in whichever order the *)
(* server answers.                                                         *)
THEOREM PlacesCorrect == Spec => []RowsInPlace
<1>1. IInv => RowsInPlace
  BY DEF IInv, LoadedOK, RowsOf, RowsInPlace
<1> QED  BY <1>1, Invariance, PTL
=============================================================================
