-------------------------- MODULE Benchmark_proof --------------------------
(***************************************************************************)
(* Proofs about the benchmark driver, for every set of command lines, every*)
(* chunk size and every buffer size.                                       *)
(***************************************************************************)
EXTENDS Benchmark, TLAPS

Step == [op : {"get", "put"}, what : Resources]

(* The eager objects ask no core for anything. *)
EagerStep == Step \ {Get("region")}

LEMMA StepTypes == ASSUME NEW r \in Resources PROVE Get(r) \in Step /\ Put(r) \in Step
  BY DEF Get, Put, Step

(* Lists that acquire or release resources. *)
LEMMA StepsType ==
    ASSUME NEW rs \in Seq(Resources)
    PROVE  Gets(rs) \in Seq(Step) /\ Puts(rs) \in Seq(Step)
<1>1. \A n \in DOMAIN rs : Get(rs[n]) \in Step /\ Put(rs[n]) \in Step
  BY StepTypes
<1>2. DOMAIN rs = 1 .. Len(rs) /\ Len(rs) \in Nat
  OBVIOUS
<1> QED BY <1>1, <1>2 DEF Gets, Puts

(* What a list of steps acquires, and what it releases. *)
Got(s) == {r \in Resources : \E n \in DOMAIN s : s[n] = Get(r)}
Given(s) == {r \in Resources : \E n \in DOMAIN s : s[n] = Put(r)}

(* What it releases it neither releases nor acquires again. *)
Tidy(s) ==
    \A m, n \in DOMAIN s : \A r \in Resources :
        m < n /\ s[m] = Put(r) => s[n] # Get(r) /\ s[n] # Put(r)

(* One step and another are the same only if they say so. *)
LEMMA StepsApart ==
    ASSUME NEW r, NEW q
    PROVE  /\ Get(r) = Get(q) => r = q
           /\ Put(r) = Put(q) => r = q
           /\ Get(r) # Put(q)
<1>1. Get(r).what = r /\ Get(q).what = q /\ Put(r).what = r /\ Put(q).what = q
  BY DEF Get, Put
<1>2. Get(r).op = "get" /\ Put(q).op = "put"
  BY DEF Get, Put
<1> QED BY <1>1, <1>2

(* What is left to do when the first step is done. *)
LEMMA FirstStep ==
    ASSUME NEW s \in Seq(Step), s # <<>>
    PROVE  /\ Got(s) = Got(Tail(s)) \cup {r \in Resources : Head(s) = Get(r)}
           /\ Given(s) = Given(Tail(s)) \cup {r \in Resources : Head(s) = Put(r)}
           /\ Tidy(s) => Tidy(Tail(s))
           /\ \A r \in Resources :
                 Tidy(s) /\ Head(s) = Put(r) => r \notin Got(Tail(s)) \cup Given(Tail(s))
<1> DEFINE t == Tail(s)
<1>1. /\ s[1] = Head(s) /\ 1 \in DOMAIN s
      /\ \A n \in DOMAIN t : n + 1 \in DOMAIN s /\ s[n + 1] = t[n] /\ n \in Nat /\ n >= 1
      /\ \A n \in DOMAIN s : n = 1 \/ (n - 1 \in DOMAIN t /\ t[n - 1] = s[n])
  OBVIOUS
<1> HIDE DEF t
<1>2. \A x : (\E n \in DOMAIN s : s[n] = x) <=> s[1] = x \/ \E n \in DOMAIN t : t[n] = x
  BY <1>1
<1>3. Got(s) = Got(t) \cup {r \in Resources : Head(s) = Get(r)}
  BY <1>1, <1>2 DEF Got
<1>4. Given(s) = Given(t) \cup {r \in Resources : Head(s) = Put(r)}
  BY <1>1, <1>2 DEF Given
<1>5. Tidy(s) => Tidy(t)
  <2> SUFFICES ASSUME Tidy(s), NEW m \in DOMAIN t, NEW n \in DOMAIN t, NEW r \in Resources,
                      m < n, t[m] = Put(r)
               PROVE  t[n] # Get(r) /\ t[n] # Put(r)
    BY DEF Tidy
  <2>1. m + 1 \in DOMAIN s /\ n + 1 \in DOMAIN s /\ m + 1 < n + 1
    BY <1>1
  <2>2. s[m + 1] = t[m] /\ s[n + 1] = t[n]
    BY <1>1
  <2> QED BY <2>1, <2>2 DEF Tidy
<1>6. ASSUME NEW r \in Resources, Tidy(s), Head(s) = Put(r) PROVE r \notin Got(t) \cup Given(t)
  <2>1. \A n \in DOMAIN t : n + 1 \in DOMAIN s /\ 1 < n + 1 /\ s[n + 1] = t[n]
    BY <1>1
  <2>2. \A n \in DOMAIN t : t[n] # Get(r) /\ t[n] # Put(r)
    BY <1>1, <1>6, <2>1 DEF Tidy
  <2> QED BY <2>2 DEF Got, Given
<1> QED BY <1>3, <1>4, <1>5, <1>6 DEF t

(* What two lists do one after the other. *)
LEMMA BothLists ==
    ASSUME NEW s \in Seq(Step), NEW t \in Seq(Step)
    PROVE  /\ s \o t \in Seq(Step)
           /\ Got(s \o t) = Got(s) \cup Got(t)
           /\ Given(s \o t) = Given(s) \cup Given(t)
           /\ Tidy(s) /\ Tidy(t) /\ Given(s) \cap (Got(t) \cup Given(t)) = {} => Tidy(s \o t)
<1> DEFINE u == s \o t
           k == Len(s)
<1>1. /\ k \in Nat /\ DOMAIN s = 1 .. k /\ DOMAIN t \subseteq Nat
      /\ \A n \in DOMAIN s : n \in DOMAIN u /\ u[n] = s[n]
      /\ \A n \in DOMAIN t : n + k \in DOMAIN u /\ u[n + k] = t[n]
      /\ \A n \in DOMAIN u : /\ n \in Nat
                             /\ \/ n \in DOMAIN s /\ n <= k
                                \/ n - k \in DOMAIN t /\ t[n - k] = u[n] /\ n > k
  OBVIOUS
<1>2. u \in Seq(Step)
  OBVIOUS
<1> HIDE DEF u, k
<1>3. \A x : (\E n \in DOMAIN u : u[n] = x) <=>
                (\E n \in DOMAIN s : s[n] = x) \/ (\E n \in DOMAIN t : t[n] = x)
  BY <1>1
<1>4. Got(u) = Got(s) \cup Got(t) /\ Given(u) = Given(s) \cup Given(t)
  BY <1>3 DEF Got, Given
<1>5. ASSUME Tidy(s), Tidy(t), Given(s) \cap (Got(t) \cup Given(t)) = {} PROVE Tidy(u)
  <2> SUFFICES ASSUME NEW m \in DOMAIN u, NEW n \in DOMAIN u, NEW r \in Resources,
                      m < n, u[m] = Put(r)
               PROVE  u[n] # Get(r) /\ u[n] # Put(r)
    BY DEF Tidy
  <2>1. CASE n \in DOMAIN s
    <3>1. m \in DOMAIN s
      BY <1>1, <2>1
    <3> QED BY <1>1, <1>5, <2>1, <3>1 DEF Tidy
  <2>2. CASE m \in DOMAIN s /\ n \notin DOMAIN s
    <3>1. r \in Given(s)
      BY <1>1, <2>2 DEF Given
    <3>2. n - k \in DOMAIN t /\ t[n - k] = u[n]
      BY <1>1, <2>2
    <3>3. r \notin Got(t) /\ r \notin Given(t)
      BY <1>5, <3>1
    <3> QED BY <3>2, <3>3 DEF Got, Given
  <2>3. CASE m \notin DOMAIN s
    <3>1. n \notin DOMAIN s
      BY <1>1, <2>3
    <3>2. /\ m - k \in DOMAIN t /\ t[m - k] = u[m]
          /\ n - k \in DOMAIN t /\ t[n - k] = u[n]
          /\ m - k < n - k
      BY <1>1, <2>3, <3>1
    <3> QED BY <1>5, <3>2 DEF Tidy
  <2> QED BY <2>1, <2>2, <2>3
<1> QED BY <1>2, <1>4, <1>5 DEF u

Of(rs) == {rs[n] : n \in DOMAIN rs}
Distinct(rs) == \A m, n \in DOMAIN rs : m # n => rs[m] # rs[n]

(* Lists that only acquire, and lists that only release. *)
LEMMA PlainLists ==
    ASSUME NEW rs \in Seq(Resources)
    PROVE  /\ Got(Gets(rs)) = Of(rs) /\ Given(Gets(rs)) = {} /\ Tidy(Gets(rs))
           /\ Given(Puts(rs)) = Of(rs) /\ Got(Puts(rs)) = {}
           /\ Distinct(rs) => Tidy(Puts(rs))
<1>1. /\ DOMAIN Gets(rs) = DOMAIN rs /\ DOMAIN Puts(rs) = DOMAIN rs
      /\ \A n \in DOMAIN rs : Gets(rs)[n] = Get(rs[n]) /\ Puts(rs)[n] = Put(rs[n])
      /\ \A n \in DOMAIN rs : rs[n] \in Resources
      /\ DOMAIN rs \subseteq Nat
  BY DEF Gets, Puts
<1>2. Got(Gets(rs)) = Of(rs) /\ Given(Gets(rs)) = {}
  BY <1>1, StepsApart DEF Got, Given, Of
<1>3. Given(Puts(rs)) = Of(rs) /\ Got(Puts(rs)) = {}
  BY <1>1, StepsApart DEF Got, Given, Of
<1>4. Tidy(Gets(rs))
  BY <1>1, StepsApart DEF Tidy
<1>5. ASSUME Distinct(rs) PROVE Tidy(Puts(rs))
  <2> SUFFICES ASSUME NEW m \in DOMAIN rs, NEW n \in DOMAIN rs, NEW r \in Resources,
                      m < n, Puts(rs)[m] = Put(r)
               PROVE  Puts(rs)[n] # Get(r) /\ Puts(rs)[n] # Put(r)
    BY <1>1 DEF Tidy
  <2>1. rs[m] = r
    BY <1>1, StepsApart
  <2>2. m # n
    BY <1>1
  <2>3. rs[n] # r
    BY <1>5, <2>1, <2>2 DEF Distinct
  <2> QED BY <1>1, <2>3, StepsApart
<1> QED BY <1>2, <1>3, <1>4, <1>5

LEMMA OneStep ==
    ASSUME NEW r \in Resources
    PROVE  /\ <<Get(r)>> \in Seq(Step) /\ <<Put(r)>> \in Seq(Step) /\ <<>> \in Seq(Step)
           /\ Got(<<Get(r)>>) = {r} /\ Given(<<Get(r)>>) = {} /\ Tidy(<<Get(r)>>)
           /\ Got(<<Put(r)>>) = {} /\ Given(<<Put(r)>>) = {r} /\ Tidy(<<Put(r)>>)
           /\ Got(<<>>) = {} /\ Given(<<>>) = {} /\ Tidy(<<>>)
<1>1. /\ DOMAIN <<Get(r)>> = {1} /\ <<Get(r)>>[1] = Get(r)
      /\ DOMAIN <<Put(r)>> = {1} /\ <<Put(r)>>[1] = Put(r)
      /\ DOMAIN <<>> = {} /\ ~(1 < 1)
  OBVIOUS
<1>2. Get(r) \in Step /\ Put(r) \in Step
  BY StepTypes
<1>3. <<Get(r)>> \in Seq(Step) /\ <<Put(r)>> \in Seq(Step) /\ <<>> \in Seq(Step)
  BY <1>2
<1>4. Got(<<Get(r)>>) = {r} /\ Given(<<Get(r)>>) = {} /\ Tidy(<<Get(r)>>)
  BY <1>1, StepsApart DEF Got, Given, Tidy
<1>5. Got(<<Put(r)>>) = {} /\ Given(<<Put(r)>>) = {r} /\ Tidy(<<Put(r)>>)
  BY <1>1, StepsApart DEF Got, Given, Tidy
<1>6. Got(<<>>) = {} /\ Given(<<>>) = {} /\ Tidy(<<>>)
  BY <1>1 DEF Got, Given, Tidy
<1> QED BY <1>3, <1>4, <1>5, <1>6

-----------------------------------------------------------------------------
(* A list of steps that acquires and releases just these resources. *)
Does(s, got, given) == s \in Seq(Step) /\ Tidy(s) /\ Got(s) = got /\ Given(s) = given

LEMMA DoesBoth ==
    ASSUME NEW s, NEW t, NEW got, NEW given, NEW got2, NEW given2,
           Does(s, got, given), Does(t, got2, given2), given \cap (got2 \cup given2) = {}
    PROVE  Does(s \o t, got \cup got2, given \cup given2)
  BY BothLists DEF Does

LEMMA DoesOne ==
    ASSUME NEW r \in Resources
    PROVE  /\ Does(<<Get(r)>>, {r}, {}) /\ Does(<<Put(r)>>, {}, {r}) /\ Does(<<>>, {}, {})
  BY OneStep DEF Does

LEMMA DoesPlain ==
    ASSUME NEW rs \in Seq(Resources)
    PROVE  /\ Does(Gets(rs), Of(rs), {})
           /\ Distinct(rs) => Does(Puts(rs), {}, Of(rs))
  BY PlainLists, StepsType DEF Does

LEMMA OfBoth ==
    ASSUME NEW rs \in Seq(Resources), NEW qs \in Seq(Resources)
    PROVE  /\ rs \o qs \in Seq(Resources)
           /\ Of(rs \o qs) = Of(rs) \cup Of(qs)
           /\ Distinct(rs) /\ Distinct(qs) /\ Of(rs) \cap Of(qs) = {} => Distinct(rs \o qs)
<1> DEFINE u == rs \o qs
           k == Len(rs)
<1>1. /\ k \in Nat /\ DOMAIN rs = 1 .. k /\ DOMAIN qs \subseteq Nat
      /\ \A n \in DOMAIN rs : n \in DOMAIN u /\ u[n] = rs[n]
      /\ \A n \in DOMAIN qs : n + k \in DOMAIN u /\ u[n + k] = qs[n]
      /\ \A n \in DOMAIN u : /\ n \in Nat
                             /\ \/ n \in DOMAIN rs /\ u[n] = rs[n]
                                \/ n - k \in DOMAIN qs /\ qs[n - k] = u[n]
  OBVIOUS
<1>2. u \in Seq(Resources)
  OBVIOUS
<1> HIDE DEF u, k
<1>3. Of(u) = Of(rs) \cup Of(qs)
  BY <1>1 DEF Of
<1>4. ASSUME Distinct(rs), Distinct(qs), Of(rs) \cap Of(qs) = {} PROVE Distinct(u)
  <2> SUFFICES ASSUME NEW m \in DOMAIN u, NEW n \in DOMAIN u, m # n, u[m] = u[n] PROVE FALSE
    BY DEF Distinct
  <2>1. CASE m \in DOMAIN rs /\ u[m] = rs[m]
    <3>1. u[m] \in Of(rs)
      BY <2>1 DEF Of
    <3>2. ~(n - k \in DOMAIN qs /\ qs[n - k] = u[n])
      BY <1>4, <3>1 DEF Of
    <3>3. n \in DOMAIN rs /\ u[n] = rs[n]
      BY <1>1, <3>2
    <3> QED BY <1>4, <2>1, <3>3 DEF Distinct
  <2>2. CASE m - k \in DOMAIN qs /\ qs[m - k] = u[m]
    <3>1. u[m] \in Of(qs)
      BY <2>2 DEF Of
    <3>2. ~(n \in DOMAIN rs /\ u[n] = rs[n])
      BY <1>4, <3>1 DEF Of
    <3>3. n - k \in DOMAIN qs /\ qs[n - k] = u[n] /\ m - k # n - k
      BY <1>1, <3>2
    <3> QED BY <1>4, <2>2, <3>3 DEF Distinct
  <2> QED BY <1>1, <2>1, <2>2
<1> QED BY <1>2, <1>3, <1>4 DEF u

LEMMA Listed ==
    /\ \A r : r \in Resources => /\ <<r>> \in Seq(Resources) /\ Of(<<r>>) = {r} /\ Distinct(<<r>>)
    /\ \A r, q : r \in Resources /\ q \in Resources =>
           <<r, q>> \in Seq(Resources) /\ Of(<<r, q>>) = {r, q} /\ (r # q => Distinct(<<r, q>>))
    /\ \A r, q, p : r \in Resources /\ q \in Resources /\ p \in Resources =>
           <<r, q, p>> \in Seq(Resources) /\ Of(<<r, q, p>>) = {r, q, p}
<1>1. ASSUME NEW r \in Resources
      PROVE  <<r>> \in Seq(Resources) /\ Of(<<r>>) = {r} /\ Distinct(<<r>>)
  <2>1. DOMAIN <<r>> = {1} /\ <<r>>[1] = r
    OBVIOUS
  <2> QED BY <2>1 DEF Of, Distinct
<1>2. ASSUME NEW r \in Resources, NEW q \in Resources
      PROVE  <<r, q>> \in Seq(Resources) /\ Of(<<r, q>>) = {r, q} /\ (r # q => Distinct(<<r, q>>))
  <2>1. DOMAIN <<r, q>> = {1, 2} /\ <<r, q>>[1] = r /\ <<r, q>>[2] = q
    OBVIOUS
  <2> QED BY <2>1 DEF Of, Distinct
<1>3. ASSUME NEW r \in Resources, NEW q \in Resources, NEW p \in Resources
      PROVE  <<r, q, p>> \in Seq(Resources) /\ Of(<<r, q, p>>) = {r, q, p}
  <2>1. DOMAIN <<r, q, p>> = {1, 2, 3} /\ <<r, q, p>>[1] = r /\ <<r, q, p>>[2] = q /\ <<r, q, p>>[3] = p
    OBVIOUS
  <2> QED BY <2>1 DEF Of
<1> QED BY <1>1, <1>2, <1>3

(* The lives of lazy objects. *)
LEMMA LazyDoes ==
    ASSUME NEW i, NEW inputs \in Seq(Resources), NEW made \in Seq(Resources),
           NEW freed \in Seq(Resources), NEW unmade \in Seq(Resources),
           Distinct(freed), Distinct(unmade), Of(freed) \cap (Of(unmade) \cup {"region", "wrapper"}) = {}
    PROVE  /\ Does(Lazy(i, inputs, made, freed, unmade).create,
                   Of(inputs) \cup IF i = "ufo" THEN Of(made) ELSE {"wrapper", "region"}, {})
           /\ Does(Lazy(i, inputs, made, freed, unmade).free
                     \o Lazy(i, inputs, made, freed, unmade).box, {},
                   Of(freed) \cup IF i = "ufo" THEN Of(unmade) ELSE {"region", "wrapper"})
<1> DEFINE l == Lazy(i, inputs, made, freed, unmade)
<1>0. "region" \in Resources /\ "wrapper" \in Resources /\ "region" # "wrapper"
  BY DEF Resources
<1>1. CASE i = "ufo"
  <2>1. l.create = Gets(inputs \o made) /\ l.free = Puts(freed \o unmade) /\ l.box = <<>>
    BY <1>1 DEF Lazy, Life
  <2>2. Does(l.create, Of(inputs) \cup Of(made), {})
    <3>1. inputs \o made \in Seq(Resources) /\ Of(inputs \o made) = Of(inputs) \cup Of(made)
      BY OfBoth
    <3>2. Does(Gets(inputs \o made), Of(inputs \o made), {})
      BY <3>1, DoesPlain
    <3> QED BY <2>1, <3>1, <3>2
  <2>3. freed \o unmade \in Seq(Resources) /\ Distinct(freed \o unmade)
        /\ Of(freed \o unmade) = Of(freed) \cup Of(unmade)
    BY OfBoth
  <2>4. Does(l.free, {}, Of(freed) \cup Of(unmade))
    BY <2>1, <2>3, DoesPlain
  <2>5. Does(l.box, {}, {})
    BY <1>0, <2>1, DoesOne
  <2>6. Does(l.free \o l.box, {} \cup {}, (Of(freed) \cup Of(unmade)) \cup {})
    BY <2>4, <2>5, DoesBoth
  <2>7. {} \cup {} = {} /\ (Of(freed) \cup Of(unmade)) \cup {} = Of(freed) \cup Of(unmade)
    OBVIOUS
  <2> QED BY <1>1, <2>2, <2>6, <2>7
<1>2. CASE i # "ufo"
  <2> DEFINE pair == <<"wrapper", "region">>
             one == <<"region">>
  <2>1. l.create = Gets(inputs \o pair) /\ l.free = Puts(freed \o one) /\ l.box = <<Put("wrapper")>>
    BY <1>2 DEF Lazy, Life
  <2>2. /\ pair \in Seq(Resources) /\ Of(pair) = {"wrapper", "region"}
        /\ one \in Seq(Resources) /\ Of(one) = {"region"} /\ Distinct(one)
    BY <1>0, Listed
  <2> HIDE DEF pair, one, l
  <2>3. Does(l.create, Of(inputs) \cup {"wrapper", "region"}, {})
    <3>1. inputs \o pair \in Seq(Resources) /\ Of(inputs \o pair) = Of(inputs) \cup {"wrapper", "region"}
      BY <2>2, OfBoth
    <3>2. Does(Gets(inputs \o pair), Of(inputs \o pair), {})
      BY <3>1, DoesPlain
    <3> QED BY <2>1, <3>1, <3>2
  <2>4. /\ freed \o one \in Seq(Resources) /\ Distinct(freed \o one)
        /\ Of(freed \o one) = Of(freed) \cup {"region"}
    <3>1. Of(freed) \cap Of(one) = {}
      BY <2>2
    <3> QED BY <2>2, <3>1, OfBoth
  <2>5. Does(l.free, {}, Of(freed) \cup {"region"})
    <3>1. Does(Puts(freed \o one), {}, Of(freed \o one))
      BY <2>4, DoesPlain
    <3> QED BY <2>1, <2>4, <3>1
  <2>6. Does(l.box, {}, {"wrapper"})
    BY <1>0, <2>1, DoesOne
  <2>7. (Of(freed) \cup {"region"}) \cap ({} \cup {"wrapper"}) = {}
    BY <1>0
  <2>8. Does(l.free \o l.box, {} \cup {}, (Of(freed) \cup {"region"}) \cup {"wrapper"})
    BY <2>5, <2>6, <2>7, DoesBoth
  <2>9. {} \cup {} = {} /\ (Of(freed) \cup {"region"}) \cup {"wrapper"} = Of(freed) \cup {"region", "wrapper"}
    OBVIOUS
  <2> QED BY <1>2, <2>3, <2>8, <2>9 DEF l
<1> QED BY <1>1, <1>2

Wrapper(i) == IF i = "ufo" THEN {} ELSE {"wrapper"}

(* What a lazy object acquires and what freeing it releases, as sets. *)
LazyLife(l, made, freed) == Does(l.create, made, {}) /\ Does(l.free \o l.box, {}, freed)

LEMMA CoreLives ==
    ASSUME NEW i \in Cores
    PROVE  /\ LazyLife(SeqLife(i), {"data", "region"} \cup Wrapper(i), {"data", "region"} \cup Wrapper(i))
           /\ LazyLife(FibLife(i), {"data", "region"} \cup Wrapper(i), {"data", "region"} \cup Wrapper(i))
           /\ LazyLife(ColLife(i), {"matrix", "data", "region"} \cup Wrapper(i),
                       {"matrix", "data", "region"} \cup Wrapper(i))
           /\ LazyLife(MMapLife(i), {"mapping", "data", "region", "wrapper"},
                       {"mapping", "data", "region", "wrapper"})
           /\ LazyLife(BZipLife(i), {"blocks", "region", "wrapper"}, {"blocks", "region", "wrapper"})
           /\ LazyLife(PsqlLife(i), {"data", "connection", "mutex", "region", "wrapper"},
                       {"connection", "mutex", "region", "wrapper"})
<1> DEFINE data == <<"data">>  region == <<"region">>  blocks == <<"blocks">>
           matrix == <<"matrix", "data">>  mapping == <<"mapping", "data">>
           rw == <<"region", "wrapper">>  wr == <<"wrapper", "region">>
           three == <<"data", "connection", "mutex">>  two == <<"connection", "mutex">>
<1>1. /\ data \in Seq(Resources) /\ Of(data) = {"data"} /\ Distinct(data)
      /\ region \in Seq(Resources) /\ Of(region) = {"region"} /\ Distinct(region)
      /\ blocks \in Seq(Resources) /\ Of(blocks) = {"blocks"} /\ Distinct(blocks)
  <2>1. "data" \in Resources /\ "region" \in Resources /\ "blocks" \in Resources
    BY DEF Resources
  <2> QED BY <2>1, Listed
<1>2. /\ matrix \in Seq(Resources) /\ Of(matrix) = {"matrix", "data"} /\ Distinct(matrix)
      /\ mapping \in Seq(Resources) /\ Of(mapping) = {"mapping", "data"} /\ Distinct(mapping)
      /\ rw \in Seq(Resources) /\ Of(rw) = {"region", "wrapper"} /\ Distinct(rw)
      /\ wr \in Seq(Resources) /\ Of(wr) = {"wrapper", "region"} /\ Distinct(wr)
      /\ two \in Seq(Resources) /\ Of(two) = {"connection", "mutex"} /\ Distinct(two)
  <2>1. /\ "data" \in Resources /\ "region" \in Resources /\ "matrix" \in Resources
        /\ "mapping" \in Resources /\ "wrapper" \in Resources /\ "connection" \in Resources
        /\ "mutex" \in Resources
    BY DEF Resources
  <2>2. /\ "matrix" # "data" /\ "mapping" # "data" /\ "region" # "wrapper" /\ "wrapper" # "region"
        /\ "connection" # "mutex"
    OBVIOUS
  <2> QED BY <2>1, <2>2, Listed
<1>3. three \in Seq(Resources) /\ Of(three) = {"data", "connection", "mutex"}
  <2>1. "data" \in Resources /\ "connection" \in Resources /\ "mutex" \in Resources
    BY DEF Resources
  <2> QED BY <2>1, Listed
<1>4. /\ SeqLife(i) = Lazy(i, data, region, data, region)
      /\ FibLife(i) = Lazy(i, data, region, data, region)
      /\ ColLife(i) = Lazy(i, matrix, region, matrix, region)
      /\ MMapLife(i) = Lazy(i, mapping, rw, mapping, wr)
      /\ BZipLife(i) = Lazy(i, blocks, rw, blocks, rw)
      /\ PsqlLife(i) = Lazy(i, three, rw, two, rw)
  BY DEF SeqLife, FibLife, ColLife, MMapLife, BZipLife, PsqlLife
<1> HIDE DEF data, region, blocks, matrix, mapping, rw, wr, three, two
<1> DEFINE Makes(inputs, made) ==
               Of(inputs) \cup IF i = "ufo" THEN Of(made) ELSE {"wrapper", "region"}
           Frees(freed, unmade) ==
               Of(freed) \cup IF i = "ufo" THEN Of(unmade) ELSE {"region", "wrapper"}
           Apart(freed, unmade) == Of(freed) \cap (Of(unmade) \cup {"region", "wrapper"}) = {}
<1>5. ASSUME NEW inputs \in Seq(Resources), NEW made \in Seq(Resources),
             NEW freed \in Seq(Resources), NEW unmade \in Seq(Resources),
             Distinct(freed), Distinct(unmade), Apart(freed, unmade)
      PROVE  LazyLife(Lazy(i, inputs, made, freed, unmade), Makes(inputs, made), Frees(freed, unmade))
  BY <1>5, LazyDoes DEF LazyLife
<1>6. LazyLife(SeqLife(i), {"data", "region"} \cup Wrapper(i), {"data", "region"} \cup Wrapper(i))
  <2>0. Apart(data, region)
    BY <1>1
  <2>1. Makes(data, region) = {"data", "region"} \cup Wrapper(i)
    BY <1>1, <1>2, <1>3 DEF Wrapper
  <2>2. Frees(data, region) = {"data", "region"} \cup Wrapper(i)
    BY <1>1, <1>2 DEF Wrapper
  <2> HIDE DEF Makes, Frees, Apart
  <2>3. LazyLife(SeqLife(i), Makes(data, region), Frees(data, region))
    BY <2>0, <1>1, <1>2, <1>3, <1>4, <1>5
  <2> QED BY <2>1, <2>2, <2>3
<1>7. FibLife(i) = SeqLife(i)
  BY <1>4
<1>8. LazyLife(ColLife(i), {"matrix", "data", "region"} \cup Wrapper(i),
               {"matrix", "data", "region"} \cup Wrapper(i))
  <2>0. Apart(matrix, region)
    BY <1>1, <1>2
  <2>1. Makes(matrix, region) = {"matrix", "data", "region"} \cup Wrapper(i)
    BY <1>1, <1>2, <1>3 DEF Wrapper
  <2>2. Frees(matrix, region) = {"matrix", "data", "region"} \cup Wrapper(i)
    BY <1>1, <1>2 DEF Wrapper
  <2> HIDE DEF Makes, Frees, Apart
  <2>3. LazyLife(ColLife(i), Makes(matrix, region), Frees(matrix, region))
    BY <2>0, <1>1, <1>2, <1>3, <1>4, <1>5
  <2> QED BY <2>1, <2>2, <2>3
<1>9. LazyLife(MMapLife(i), {"mapping", "data", "region", "wrapper"},
               {"mapping", "data", "region", "wrapper"})
  <2>0. Apart(mapping, wr)
    BY <1>2
  <2>1. Makes(mapping, rw) = {"mapping", "data", "region", "wrapper"}
    BY <1>1, <1>2, <1>3 DEF Wrapper
  <2>2. Frees(mapping, wr) = {"mapping", "data", "region", "wrapper"}
    BY <1>1, <1>2 DEF Wrapper
  <2> HIDE DEF Makes, Frees, Apart
  <2>3. LazyLife(MMapLife(i), Makes(mapping, rw), Frees(mapping, wr))
    BY <2>0, <1>1, <1>2, <1>3, <1>4, <1>5
  <2> QED BY <2>1, <2>2, <2>3
<1>10. LazyLife(BZipLife(i), {"blocks", "region", "wrapper"}, {"blocks", "region", "wrapper"})
  <2>0. Apart(blocks, rw)
    BY <1>1, <1>2
  <2>1. Makes(blocks, rw) = {"blocks", "region", "wrapper"}
    BY <1>1, <1>2, <1>3 DEF Wrapper
  <2>2. Frees(blocks, rw) = {"blocks", "region", "wrapper"}
    BY <1>1, <1>2 DEF Wrapper
  <2> HIDE DEF Makes, Frees, Apart
  <2>3. LazyLife(BZipLife(i), Makes(blocks, rw), Frees(blocks, rw))
    BY <2>0, <1>1, <1>2, <1>3, <1>4, <1>5
  <2> QED BY <2>1, <2>2, <2>3
<1>11. LazyLife(PsqlLife(i), {"data", "connection", "mutex", "region", "wrapper"},
                {"connection", "mutex", "region", "wrapper"})
  <2>0. Apart(two, rw)
    BY <1>2
  <2>1. Makes(three, rw) = {"data", "connection", "mutex", "region", "wrapper"}
    BY <1>1, <1>2, <1>3 DEF Wrapper
  <2>2. Frees(two, rw) = {"connection", "mutex", "region", "wrapper"}
    BY <1>1, <1>2 DEF Wrapper
  <2> HIDE DEF Makes, Frees, Apart
  <2>3. LazyLife(PsqlLife(i), Makes(three, rw), Frees(two, rw))
    BY <2>0, <1>1, <1>2, <1>3, <1>4, <1>5
  <2> QED BY <2>1, <2>2, <2>3
<1> QED BY <1>6, <1>7, <1>8, <1>9, <1>10, <1>11

(* The lives of eager objects. *)
EagerLife(l, got, given, free, box) ==
    Does(l.create, got, given) /\ Does(l.free, {}, free) /\ Does(l.box, {}, box)

LEMMA EagerLives ==
    ASSUME NEW i, i \notin Cores
    PROVE  /\ EagerLife(SeqLife(i), {"array"}, {}, {"array"}, {})
           /\ EagerLife(FibLife(i), {"array"}, {}, {"array"}, {})
           /\ EagerLife(ColLife(i), {"matrix", "array"}, {"matrix"}, {"array"}, {})
           /\ EagerLife(MMapLife(i), {"mapping", "wrapper"}, {}, {"mapping"}, {"wrapper"})
           /\ EagerLife(BZipLife(i), {"stream", "array", "wrapper"}, {}, {"array"}, {"wrapper"})
           /\ EagerLife(PsqlLife(i), {"connection", "wrapper", "array"}, {"connection"},
                        {"array"}, {"wrapper"})
<1>1. /\ "array" \in Resources /\ "matrix" \in Resources /\ "mapping" \in Resources
      /\ "wrapper" \in Resources /\ "stream" \in Resources /\ "connection" \in Resources
  BY DEF Resources
<1>2. /\ Does(<<Get("array")>>, {"array"}, {}) /\ Does(<<Put("array")>>, {}, {"array"})
      /\ Does(<<Get("matrix")>>, {"matrix"}, {}) /\ Does(<<Put("matrix")>>, {}, {"matrix"})
      /\ Does(<<Put("mapping")>>, {}, {"mapping"}) /\ Does(<<Put("wrapper")>>, {}, {"wrapper"})
      /\ Does(<<Put("connection")>>, {}, {"connection"}) /\ Does(<<>>, {}, {})
  BY <1>1, DoesOne
<1>3. ASSUME NEW create, NEW free, NEW box, NEW got, NEW given, NEW gone, NEW gone2,
             Does(create, got, given), Does(free, {}, gone), Does(box, {}, gone2)
      PROVE  EagerLife(Life(create, free, box), got, given, gone, gone2)
  BY <1>3 DEF Life, EagerLife
<1>4. SeqLife(i) = Life(<<Get("array")>>, <<Put("array")>>, <<>>) /\ FibLife(i) = SeqLife(i)
  BY DEF SeqLife, FibLife
<1>5. EagerLife(SeqLife(i), {"array"}, {}, {"array"}, {})
  BY <1>2, <1>3, <1>4
<1>6. EagerLife(ColLife(i), {"matrix", "array"}, {"matrix"}, {"array"}, {})
  <2> DEFINE s == <<Get("matrix"), Get("array"), Put("matrix")>>
  <2>1. /\ DOMAIN s = {1, 2, 3}
        /\ s[1] = Get("matrix") /\ s[2] = Get("array") /\ s[3] = Put("matrix")
    OBVIOUS
  <2>2. s \in Seq(Step)
    <3>1. Get("matrix") \in Step /\ Get("array") \in Step /\ Put("matrix") \in Step
      BY <1>1, StepTypes
    <3> QED BY <3>1
  <2>3. ColLife(i) = Life(s, <<Put("array")>>, <<>>)
    BY DEF ColLife, EagerCol
  <2> HIDE DEF s
  <2>4. Got(s) = {"matrix", "array"} /\ Given(s) = {"matrix"}
    BY <1>1, <2>1, StepsApart DEF Got, Given
  <2>5. Tidy(s)
    <3>1. \A m \in DOMAIN s : \A r : s[m] = Put(r) => m = 3
      BY <2>1, StepsApart
    <3>2. \A n \in DOMAIN s : ~(3 < n)
      BY <2>1
    <3> QED BY <3>1, <3>2 DEF Tidy
  <2>6. Does(s, {"matrix", "array"}, {"matrix"})
    BY <2>2, <2>4, <2>5 DEF Does
  <2> QED BY <1>2, <1>3, <2>3, <2>6
<1>7. EagerLife(MMapLife(i), {"mapping", "wrapper"}, {}, {"mapping"}, {"wrapper"})
  <2>1. Does(Gets(<<"mapping", "wrapper">>), {"mapping", "wrapper"}, {})
    <3> DEFINE rs == <<"mapping", "wrapper">>
    <3>1. rs \in Seq(Resources) /\ Of(rs) = {"mapping", "wrapper"}
      BY <1>1, Listed
    <3> HIDE DEF rs
    <3>2. Does(Gets(rs), {"mapping", "wrapper"}, {})
      BY <3>1, DoesPlain
    <3> QED BY <3>2 DEF rs
  <2>2. MMapLife(i) = Life(Gets(<<"mapping", "wrapper">>), <<Put("mapping")>>, <<Put("wrapper")>>)
    BY DEF MMapLife
  <2> QED BY <1>2, <1>3, <2>1, <2>2
<1>8. EagerLife(BZipLife(i), {"stream", "array", "wrapper"}, {}, {"array"}, {"wrapper"})
  <2>1. Does(Gets(<<"stream", "array", "wrapper">>), {"stream", "array", "wrapper"}, {})
    <3> DEFINE rs == <<"stream", "array", "wrapper">>
    <3>1. rs \in Seq(Resources) /\ Of(rs) = {"stream", "array", "wrapper"}
      BY <1>1, Listed
    <3> HIDE DEF rs
    <3>2. Does(Gets(rs), {"stream", "array", "wrapper"}, {})
      BY <3>1, DoesPlain
    <3> QED BY <3>2 DEF rs
  <2>2. BZipLife(i) = Life(Gets(<<"stream", "array", "wrapper">>), <<Put("array")>>, <<Put("wrapper")>>)
    BY DEF BZipLife, EagerBZip
  <2> QED BY <1>2, <1>3, <2>1, <2>2
<1>9. EagerLife(PsqlLife(i), {"connection", "wrapper", "array"}, {"connection"}, {"array"}, {"wrapper"})
  <2> DEFINE a == Gets(<<"connection", "wrapper", "array">>)
             b == <<Put("connection")>>
  <2>1. Does(a, {"connection", "wrapper", "array"}, {}) /\ Does(b, {}, {"connection"})
    <3> DEFINE rs == <<"connection", "wrapper", "array">>
    <3>1. rs \in Seq(Resources) /\ Of(rs) = {"connection", "wrapper", "array"}
      BY <1>1, Listed
    <3> HIDE DEF rs
    <3>2. Does(Gets(rs), {"connection", "wrapper", "array"}, {})
      BY <3>1, DoesPlain
    <3> QED BY <1>2, <3>2 DEF rs
  <2>2. PsqlLife(i) = Life(a \o b, <<Put("array")>>, <<Put("wrapper")>>)
    BY DEF PsqlLife
  <2> HIDE DEF a, b
  <2>3. Does(a \o b, {"connection", "wrapper", "array"} \cup {}, {} \cup {"connection"})
    BY <2>1, DoesBoth
  <2>4. /\ {"connection", "wrapper", "array"} \cup {} = {"connection", "wrapper", "array"}
        /\ {} \cup {"connection"} = {"connection"}
    OBVIOUS
  <2>5. Does(a \o b, {"connection", "wrapper", "array"}, {"connection"})
    BY <2>3, <2>4
  <2> QED BY <1>2, <1>3, <2>2, <2>5
<1> QED BY <1>4, <1>5, <1>6, <1>7, <1>8, <1>9

-----------------------------------------------------------------------------
(* What an object consists of, and what is left of it when it is freed. *)
Made(c) == Got(LifeOf(c).create) \ Given(LifeOf(c).create)
FreeSteps(c) == LifeOf(c).free \o LifeOf(c).box

Leak(c) ==
    IF c.benchmark = "psql" /\ c.implementation \in Cores THEN {"data"}
    ELSE IF c.benchmark = "bzip" /\ c.implementation \notin Cores THEN {"stream"} ELSE {}

(***************************************************************************)
(* What main's calls rely on: constructors release only what they acquired *)
(* themselves, and freeing an object releases what it is made of, once and *)
(* but for a leak.  Only a file to be mapped becomes a mapping.            *)
(***************************************************************************)
Balanced(c) ==
    LET got == Got(LifeOf(c).create)
        given == Given(LifeOf(c).create)
        freed == Given(FreeSteps(c))
    IN  /\ LifeOf(c).create \in Seq(Step) /\ Tidy(LifeOf(c).create)
        /\ given \subseteq got /\ given \cap {"mapping", "region"} = {}
        /\ got \cap {"core", "sequence"} = {}
        /\ FreeSteps(c) \in Seq(Step) /\ Tidy(FreeSteps(c)) /\ Got(FreeSteps(c)) = {}
        /\ freed \subseteq Made(c) /\ Made(c) \ freed = Leak(c)
        /\ "mapping" \in got => c.benchmark = "mmap"
        /\ c.implementation \in Cores => "region" \in Made(c)
        /\ c.implementation \notin Cores => "region" \notin got

(* As sets: what creation acquires and releases, and what freeing releases. *)
Sums(c, got, given, freed) ==
    Does(LifeOf(c).create, got, given) /\ Does(FreeSteps(c), {}, freed)

LEMMA CoreSums ==
    ASSUME NEW c, IsConfig(c), c.implementation \in Cores
    PROVE  /\ c.benchmark \in {"seq", "fib"} =>
                  Sums(c, {"data", "region"} \cup Wrapper(c.implementation), {},
                       {"data", "region"} \cup Wrapper(c.implementation))
           /\ c.benchmark = "col" =>
                  Sums(c, {"matrix", "data", "region"} \cup Wrapper(c.implementation), {},
                       {"matrix", "data", "region"} \cup Wrapper(c.implementation))
           /\ c.benchmark = "mmap" =>
                  Sums(c, {"mapping", "data", "region", "wrapper"}, {},
                       {"mapping", "data", "region", "wrapper"})
           /\ c.benchmark = "bzip" =>
                  Sums(c, {"blocks", "region", "wrapper"}, {}, {"blocks", "region", "wrapper"})
           /\ c.benchmark = "psql" =>
                  Sums(c, {"data", "connection", "mutex", "region", "wrapper"}, {},
                       {"connection", "mutex", "region", "wrapper"})
<1> DEFINE i == c.implementation
<1>1. i # "nyc++"
  BY DEF Cores
<1>2. /\ c.benchmark = "seq" => LifeOf(c) = SeqLife(i)
      /\ c.benchmark = "fib" => LifeOf(c) = FibLife(i)
      /\ c.benchmark = "col" => LifeOf(c) = ColLife(i)
      /\ c.benchmark = "mmap" => LifeOf(c) = MMapLife(i)
      /\ c.benchmark = "bzip" => LifeOf(c) = BZipLife(i)
      /\ c.benchmark = "psql" => LifeOf(c) = PsqlLife(i)
  BY <1>1 DEF LifeOf
<1>3. i \in Cores
  OBVIOUS
<1>4. ASSUME NEW made, NEW freed, LazyLife(LifeOf(c), made, freed) PROVE Sums(c, made, {}, freed)
  BY <1>4 DEF LazyLife, Sums, FreeSteps
<1> HIDE DEF i
<1>5. CASE c.benchmark = "seq"
  BY <1>2, <1>3, <1>4, <1>5, CoreLives DEF i
<1>6. CASE c.benchmark = "fib"
  BY <1>2, <1>3, <1>4, <1>6, CoreLives DEF i
<1>7. CASE c.benchmark = "col"
  BY <1>2, <1>3, <1>4, <1>7, CoreLives DEF i
<1>8. CASE c.benchmark = "mmap"
  BY <1>2, <1>3, <1>4, <1>8, CoreLives DEF i
<1>9. CASE c.benchmark = "bzip"
  BY <1>2, <1>3, <1>4, <1>9, CoreLives DEF i
<1>10. CASE c.benchmark = "psql"
  BY <1>2, <1>3, <1>4, <1>10, CoreLives DEF i
<1> QED BY <1>5, <1>6, <1>7, <1>8, <1>9, <1>10 DEF IsConfig, Benchmarks

LEMMA NycppLife ==
    ASSUME NEW l
    PROVE  /\ InNycpp(l).create = l.create \o <<Get("nycpp")>> \o l.box
           /\ InNycpp(l).free = l.free \o <<Put("nycpp")>>
           /\ InNycpp(l).box = <<>>
<1> DEFINE create == l.create \o <<Get("nycpp")>> \o l.box
<1> DEFINE free == l.free \o <<Put("nycpp")>>
<1>1. InNycpp(l) = Life(create, free, <<>>)
  BY DEF InNycpp
<1> HIDE DEF create, free
<1>2. /\ Life(create, free, <<>>).create = create
      /\ Life(create, free, <<>>).free = free
      /\ Life(create, free, <<>>).box = <<>>
  BY DEF Life
<1>3. /\ InNycpp(l).create = create
      /\ InNycpp(l).free = free
      /\ InNycpp(l).box = <<>>
  BY <1>1, <1>2
<1> QED BY <1>3 DEF create, free

(* The eager object, and the same in an NYCpp. *)
LEMMA Wrapped ==
    ASSUME NEW l, NEW got, NEW given, NEW free, NEW box, EagerLife(l, got, given, free, box),
           given \cap box = {}, free \cap box = {}, "nycpp" \notin given \cup free
    PROVE  /\ Does(l.free \o l.box, {}, free \cup box)
           /\ Does(InNycpp(l).create, got \cup {"nycpp"}, given \cup box)
           /\ Does(InNycpp(l).free \o InNycpp(l).box, {}, free \cup {"nycpp"})
<1>1. /\ Does(l.create, got, given) /\ Does(l.free, {}, free) /\ Does(l.box, {}, box)
      /\ Does(<<Get("nycpp")>>, {"nycpp"}, {}) /\ Does(<<Put("nycpp")>>, {}, {"nycpp"})
      /\ Does(<<>>, {}, {})
  <2>1. "nycpp" \in Resources
    BY DEF Resources
  <2> QED BY <2>1, DoesOne DEF EagerLife
<1> DEFINE a == <<Get("nycpp")>>
           b == <<Put("nycpp")>>
           e == <<>>
<1>2. InNycpp(l).create = (l.create \o a) \o l.box /\ InNycpp(l).free \o InNycpp(l).box = (l.free \o b) \o e
  BY NycppLife
<1>3. Does(a, {"nycpp"}, {}) /\ Does(b, {}, {"nycpp"}) /\ Does(e, {}, {})
  BY <1>1
<1> HIDE DEF a, b, e
<1>4. Does(l.free \o l.box, {} \cup {}, free \cup box)
  BY <1>1, DoesBoth
<1>5. Does(l.create \o a, got \cup {"nycpp"}, given \cup {})
  BY <1>1, <1>3, DoesBoth
<1>6. Does((l.create \o a) \o l.box, (got \cup {"nycpp"}) \cup {}, (given \cup {}) \cup box)
  BY <1>1, <1>5, DoesBoth
<1>7. Does(l.free \o b, {} \cup {}, free \cup {"nycpp"})
  BY <1>1, <1>3, DoesBoth
<1>8. Does((l.free \o b) \o e, ({} \cup {}) \cup {}, (free \cup {"nycpp"}) \cup {})
  BY <1>3, <1>7, DoesBoth
<1>9. \A s : s \cup {} = s
  OBVIOUS
<1> QED BY <1>2, <1>4, <1>6, <1>8, <1>9

LEMMA EagerSums ==
    ASSUME NEW c, IsConfig(c), c.implementation \notin Cores
    PROVE  \E got, given, free, box :
             /\ IF c.implementation = "nyc++"
                  THEN Sums(c, got \cup {"nycpp"}, given \cup box, free \cup {"nycpp"})
                  ELSE Sums(c, got, given, free \cup box)
             /\ c.benchmark \in {"seq", "fib"} =>
                    got = {"array"} /\ given = {} /\ free = {"array"} /\ box = {}
             /\ c.benchmark = "col" =>
                    got = {"matrix", "array"} /\ given = {"matrix"} /\ free = {"array"} /\ box = {}
             /\ c.benchmark = "mmap" =>
                    got = {"mapping", "wrapper"} /\ given = {} /\ free = {"mapping"} /\ box = {"wrapper"}
             /\ c.benchmark = "bzip" =>
                    /\ got = {"stream", "array", "wrapper"} /\ given = {}
                    /\ free = {"array"} /\ box = {"wrapper"}
             /\ c.benchmark = "psql" =>
                    /\ got = {"connection", "wrapper", "array"} /\ given = {"connection"}
                    /\ free = {"array"} /\ box = {"wrapper"}
<1> DEFINE i == c.implementation
           life == CASE c.benchmark = "seq" -> SeqLife(i)
                     [] c.benchmark = "fib" -> FibLife(i)
                     [] c.benchmark = "col" -> ColLife(i)
                     [] c.benchmark = "mmap" -> MMapLife(i)
                     [] c.benchmark = "bzip" -> BZipLife(i)
                     [] c.benchmark = "psql" -> PsqlLife(i)
<1>1. LifeOf(c) = IF i = "nyc++" THEN InNycpp(life) ELSE life
  BY DEF LifeOf
<1>2. /\ c.benchmark = "seq" => life = SeqLife(i)
      /\ c.benchmark = "fib" => life = FibLife(i)
      /\ c.benchmark = "col" => life = ColLife(i)
      /\ c.benchmark = "mmap" => life = MMapLife(i)
      /\ c.benchmark = "bzip" => life = BZipLife(i)
      /\ c.benchmark = "psql" => life = PsqlLife(i)
  OBVIOUS
<1> HIDE DEF life
<1>3. ASSUME NEW got, NEW given, NEW free, NEW box, EagerLife(life, got, given, free, box),
             given \cap box = {}, free \cap box = {}, "nycpp" \notin given \cup free
      PROVE  IF i = "nyc++" THEN Sums(c, got \cup {"nycpp"}, given \cup box, free \cup {"nycpp"})
                            ELSE Sums(c, got, given, free \cup box)
  <2>1. /\ Does(life.create, got, given) /\ Does(life.free \o life.box, {}, free \cup box)
        /\ Does(InNycpp(life).create, got \cup {"nycpp"}, given \cup box)
        /\ Does(InNycpp(life).free \o InNycpp(life).box, {}, free \cup {"nycpp"})
    BY <1>3, Wrapped DEF EagerLife
  <2> QED BY <1>1, <2>1 DEF Sums, FreeSteps
<1>4. i \notin Cores
  OBVIOUS
<1> HIDE DEF i
<1>5. CASE c.benchmark \in {"seq", "fib"}
  <2>1. EagerLife(life, {"array"}, {}, {"array"}, {})
    BY <1>2, <1>4, <1>5, EagerLives
  <2>2. {} \cap {} = {} /\ {"array"} \cap {} = {} /\ "nycpp" \notin {} \cup {"array"}
    OBVIOUS
  <2> QED BY <1>3, <1>5, <2>1, <2>2 DEF i
<1>6. CASE c.benchmark = "col"
  <2>1. EagerLife(life, {"matrix", "array"}, {"matrix"}, {"array"}, {})
    BY <1>2, <1>4, <1>6, EagerLives
  <2>2. {"matrix"} \cap {} = {} /\ {"array"} \cap {} = {} /\ "nycpp" \notin {"matrix"} \cup {"array"}
    OBVIOUS
  <2> QED BY <1>3, <1>6, <2>1, <2>2 DEF i
<1>7. CASE c.benchmark = "mmap"
  <2>1. EagerLife(life, {"mapping", "wrapper"}, {}, {"mapping"}, {"wrapper"})
    BY <1>2, <1>4, <1>7, EagerLives
  <2>2. {} \cap {"wrapper"} = {} /\ {"mapping"} \cap {"wrapper"} = {} /\ "nycpp" \notin {} \cup {"mapping"}
    OBVIOUS
  <2> QED BY <1>3, <1>7, <2>1, <2>2 DEF i
<1>8. CASE c.benchmark = "bzip"
  <2>1. EagerLife(life, {"stream", "array", "wrapper"}, {}, {"array"}, {"wrapper"})
    BY <1>2, <1>4, <1>8, EagerLives
  <2>2. {} \cap {"wrapper"} = {} /\ {"array"} \cap {"wrapper"} = {} /\ "nycpp" \notin {} \cup {"array"}
    OBVIOUS
  <2> DEFINE got == {"stream", "array", "wrapper"}
  <2> HIDE DEF got
  <2>3. IF i = "nyc++" THEN Sums(c, got \cup {"nycpp"}, {} \cup {"wrapper"}, {"array"} \cup {"nycpp"})
                       ELSE Sums(c, got, {}, {"array"} \cup {"wrapper"})
    BY <1>3, <2>1, <2>2 DEF got
  <2>4. got = {"stream", "array", "wrapper"}
    BY DEF got
  <2> QED BY <1>8, <2>3, <2>4 DEF i
<1>9. CASE c.benchmark = "psql"
  <2>1. EagerLife(life, {"connection", "wrapper", "array"}, {"connection"}, {"array"}, {"wrapper"})
    BY <1>2, <1>4, <1>9, EagerLives
  <2>2. /\ {"connection"} \cap {"wrapper"} = {} /\ {"array"} \cap {"wrapper"} = {}
        /\ "nycpp" \notin {"connection"} \cup {"array"}
    OBVIOUS
  <2> QED BY <1>3, <1>9, <2>1, <2>2 DEF i
<1> QED BY <1>5, <1>6, <1>7, <1>8, <1>9 DEF IsConfig, Benchmarks

(* In terms of these sums, what has to be shown. *)
LEMMA SumsBalance ==
    ASSUME NEW c, NEW got, NEW given, NEW freed, Sums(c, got, given, freed),
           given \subseteq got, given \cap {"mapping", "region"} = {},
           got \cap {"core", "sequence"} = {},
           freed \subseteq got \ given, (got \ given) \ freed = Leak(c),
           "mapping" \in got => c.benchmark = "mmap",
           c.implementation \in Cores => "region" \in got \ given,
           c.implementation \notin Cores => "region" \notin got
    PROVE  Balanced(c) /\ Made(c) = got \ given
<1>1. /\ LifeOf(c).create \in Seq(Step) /\ Tidy(LifeOf(c).create)
      /\ Got(LifeOf(c).create) = got /\ Given(LifeOf(c).create) = given
      /\ FreeSteps(c) \in Seq(Step) /\ Tidy(FreeSteps(c))
      /\ Got(FreeSteps(c)) = {} /\ Given(FreeSteps(c)) = freed
  BY DEF Sums, Does
<1> QED BY <1>1 DEF Balanced, Made

LEMMA LivesBalance ==
    ASSUME NEW c, IsConfig(c)
    PROVE  /\ Balanced(c)
           /\ c = config => Reads \subseteq Made(c)
<1> DEFINE w == Wrapper(c.implementation)
<1>1. w \in {{}, {"wrapper"}}
  BY DEF Wrapper
<1>2. CASE c.implementation \in Cores
  <2> HIDE DEF w
  <2>1. CASE c.benchmark \in {"seq", "fib"}
    <3>1. Sums(c, {"data", "region"} \cup w, {}, {"data", "region"} \cup w)
      BY <1>2, <2>1, CoreSums DEF w
    <3>2. Leak(c) = {}
      BY <1>2, <2>1 DEF Leak
    <3>3. Balanced(c) /\ Made(c) = ({"data", "region"} \cup w) \ {}
      BY <1>1, <1>2, <3>1, <3>2, SumsBalance
    <3> QED BY <1>2, <2>1, <3>3 DEF Reads
  <2>2. CASE c.benchmark = "col"
    <3>1. Sums(c, {"matrix", "data", "region"} \cup w, {}, {"matrix", "data", "region"} \cup w)
      BY <1>2, <2>2, CoreSums DEF w
    <3>2. Leak(c) = {}
      BY <1>2, <2>2 DEF Leak
    <3>3. Balanced(c) /\ Made(c) = ({"matrix", "data", "region"} \cup w) \ {}
      BY <1>1, <1>2, <3>1, <3>2, SumsBalance
    <3> QED BY <1>2, <2>2, <3>3 DEF Reads
  <2>3. CASE c.benchmark = "mmap"
    <3>1. Sums(c, {"mapping", "data", "region", "wrapper"}, {}, {"mapping", "data", "region", "wrapper"})
      BY <1>2, <2>3, CoreSums
    <3>2. Leak(c) = {}
      BY <1>2, <2>3 DEF Leak
    <3>3. Balanced(c) /\ Made(c) = {"mapping", "data", "region", "wrapper"} \ {}
      BY <1>2, <2>3, <3>1, <3>2, SumsBalance
    <3> QED BY <1>2, <2>3, <3>3 DEF Reads
  <2>4. CASE c.benchmark = "bzip"
    <3>1. Sums(c, {"blocks", "region", "wrapper"}, {}, {"blocks", "region", "wrapper"})
      BY <1>2, <2>4, CoreSums
    <3>2. Leak(c) = {}
      BY <1>2, <2>4 DEF Leak
    <3>3. Balanced(c) /\ Made(c) = {"blocks", "region", "wrapper"} \ {}
      BY <1>2, <3>1, <3>2, SumsBalance
    <3> QED BY <1>2, <2>4, <3>3 DEF Reads
  <2>5. CASE c.benchmark = "psql"
    <3>1. Sums(c, {"data", "connection", "mutex", "region", "wrapper"}, {},
               {"connection", "mutex", "region", "wrapper"})
      BY <1>2, <2>5, CoreSums
    <3>2. Leak(c) = {"data"}
      BY <1>2, <2>5 DEF Leak
    <3>3. Balanced(c) /\ Made(c) = {"data", "connection", "mutex", "region", "wrapper"} \ {}
      BY <1>2, <3>1, <3>2, SumsBalance
    <3> QED BY <1>2, <2>5, <3>3 DEF Reads
  <2> QED BY <2>1, <2>2, <2>3, <2>4, <2>5 DEF IsConfig, Benchmarks
<1>3. CASE c.implementation \notin Cores
  <2>1. PICK got, given, free, box :
             /\ IF c.implementation = "nyc++"
                  THEN Sums(c, got \cup {"nycpp"}, given \cup box, free \cup {"nycpp"})
                  ELSE Sums(c, got, given, free \cup box)
             /\ c.benchmark \in {"seq", "fib"} =>
                    got = {"array"} /\ given = {} /\ free = {"array"} /\ box = {}
             /\ c.benchmark = "col" =>
                    got = {"matrix", "array"} /\ given = {"matrix"} /\ free = {"array"} /\ box = {}
             /\ c.benchmark = "mmap" =>
                    got = {"mapping", "wrapper"} /\ given = {} /\ free = {"mapping"} /\ box = {"wrapper"}
             /\ c.benchmark = "bzip" =>
                    /\ got = {"stream", "array", "wrapper"} /\ given = {}
                    /\ free = {"array"} /\ box = {"wrapper"}
             /\ c.benchmark = "psql" =>
                    /\ got = {"connection", "wrapper", "array"} /\ given = {"connection"}
                    /\ free = {"array"} /\ box = {"wrapper"}
    BY <1>3, EagerSums
  <2>2. Leak(c) = IF c.benchmark = "bzip" THEN {"stream"} ELSE {}
    BY <1>3 DEF Leak
  <2>3. c = config => Reads = IF c.benchmark = "mmap" THEN {"mapping"} ELSE {"array"}
    BY <1>3 DEF Reads
  <2>4. c.benchmark \in Benchmarks
    BY DEF IsConfig
  <2>5. CASE c.implementation = "nyc++"
    <3> DEFINE g == got \cup {"nycpp"}
               v == given \cup box
               f == free \cup {"nycpp"}
    <3>1. Sums(c, g, v, f)
      BY <2>1, <2>5
    <3>2. /\ v \subseteq g /\ v \cap {"mapping", "region"} = {} /\ g \cap {"core", "sequence"} = {}
          /\ f \subseteq g \ v /\ (g \ v) \ f = Leak(c)
          /\ "mapping" \in g => c.benchmark = "mmap"
          /\ "region" \notin g
      BY <2>1, <2>2, <2>4 DEF Benchmarks
    <3>3. c = config => Reads \subseteq g \ v
      BY <2>1, <2>3, <2>4 DEF Benchmarks
    <3> HIDE DEF g, v, f
    <3>4. Balanced(c) /\ Made(c) = g \ v
      BY <1>3, <3>1, <3>2, SumsBalance
    <3> QED BY <3>3, <3>4
  <2>6. CASE c.implementation # "nyc++"
    <3> DEFINE f == free \cup box
    <3>1. Sums(c, got, given, f)
      BY <2>1, <2>6
    <3>2. /\ given \subseteq got /\ given \cap {"mapping", "region"} = {}
          /\ got \cap {"core", "sequence"} = {}
          /\ f \subseteq got \ given /\ (got \ given) \ f = Leak(c)
          /\ "mapping" \in got => c.benchmark = "mmap"
          /\ "region" \notin got
      BY <2>1, <2>2, <2>4 DEF Benchmarks
    <3>3. c = config => Reads \subseteq got \ given
      BY <2>1, <2>3, <2>4 DEF Benchmarks
    <3> HIDE DEF f
    <3>4. Balanced(c) /\ Made(c) = got \ given
      BY <1>3, <3>1, <3>2, SumsBalance
    <3> QED BY <3>3, <3>4
  <2> QED BY <2>5, <2>6
<1> QED BY <1>2, <1>3

-----------------------------------------------------------------------------
(***************************************************************************)
(* Only a core can answer an error, and only in place of a region; nyc++   *)
(* does not survive the NULL of a constructor.  So whatever execution      *)
(* touches is there, or is known to have been undefined.                   *)
(***************************************************************************)
ObjectKnown ==
    /\ phase = "create" /\ config.implementation \notin Cores => todo \in Seq(EagerStep)
    /\ "region" \in missing => config.implementation \in Cores
    /\ object = "error" => "region" \in missing
    /\ object = "null" => config.implementation # "nyc++"
    /\ phase \in {"configure", "execute", "free", "cleanup", "report", "done"} =>
           object # "none"
    /\ phase \in {"free", "cleanup", "report", "done"} /\ undefined = {} =>
           object = "made" \/ length = 0

IInv == TypeOK /\ ObjectKnown

(* An eager object is created without a core. *)
LEMMA EagerCreation ==
    ASSUME NEW c, IsConfig(c), c.implementation \notin Cores
    PROVE  LifeOf(c).create \in Seq(EagerStep)
<1> DEFINE s == LifeOf(c).create
<1>1. s \in Seq(Step) /\ "region" \notin Got(s)
  BY LivesBalance DEF Balanced
<1> HIDE DEF s
<1>2. DOMAIN s = 1 .. Len(s) /\ Len(s) \in Nat
  BY <1>1
<1>3. \A n \in DOMAIN s : s[n] \in EagerStep
  <2>1. "region" \in Resources
    BY DEF Resources
  <2>2. \A n \in DOMAIN s : s[n] \in Step
    BY <1>1, <1>2
  <2> QED BY <1>1, <2>1, <2>2 DEF Got, EagerStep
<1>4. s \in Seq(EagerStep)
  BY <1>1, <1>2, <1>3
<1> QED BY <1>4 DEF s

LEMMA InitInv == Init => IInv
  BY DEF Init, IInv, TypeOK, ObjectKnown, Ended

LEMMA ConfigType == TypeOK => IsConfig(config) /\ ObjectLength \in Nat
<1> SUFFICES ASSUME TypeOK PROVE IsConfig(config) /\ ObjectLength \in Nat
  OBVIOUS
<1>1. IsConfig(config)
  BY ConfigsAssumption DEF TypeOK
<1> QED BY <1>1 DEF IsConfig, ObjectLength

(* Taking a step off a list of steps leaves one. *)
LEMMA TailSteps ==
    ASSUME NEW S, NEW s \in Seq(S), s # <<>>
    PROVE  Tail(s) \in Seq(S) /\ Head(s) \in S
  OBVIOUS

LEMMA GivingUp ==
    ASSUME TypeOK, NEW r \in Resources, GiveUp(r)
    PROVE  TypeOK'
<1>1. /\ phase' \in {"crashed", "configure"}
      /\ object' \in {object, "null"}
  BY DEF GiveUp, AnswerNull
<1>2. todo' \in Seq([op : {"get", "put"}, what : Resources])
  BY DEF GiveUp, AnswerNull
<1>3. failed' \subseteq Resources \cup {"lookup", "params", "timing"}
  BY DEF GiveUp, TypeOK
<1>4. UNCHANGED <<config, held, missing, length, undefined>>
  BY DEF GiveUp, AnswerNull
<1> QED BY <1>1, <1>2, <1>3, <1>4 DEF TypeOK, Ended

LEMMA TypeInductive == TypeOK /\ [Next]_vars => TypeOK'
<1> SUFFICES ASSUME TypeOK, [Next]_vars PROVE TypeOK'
  OBVIOUS
<1> USE DEF TypeOK, Ended
<1>0. IsConfig(config) /\ ObjectLength \in Nat
  BY ConfigType
<1>1. CASE Setup
  <2>1. LifeOf(config).create \in Seq(Step)
    BY <1>0, LivesBalance DEF Balanced
  <2> QED BY <1>1, <2>1 DEF Setup, Step, Resources
<1>2. CASE SetupFails
  BY <1>2 DEF SetupFails, Dies, Resources
<1>3. CASE Acquire
  BY <1>3, TailSteps DEF Acquire, Creating, Resources
<1>4. CASE CreationFails
  <2>1. CASE OpenFails
    <3>1. {"mapping", "stream", "mutex"} \subseteq Resources
      BY DEF Resources
    <3> QED BY <2>1, <3>1, GivingUp DEF OpenFails
  <2>2. CASE MapFails
    BY <1>4, <2>2, TailSteps DEF MapFails, Creating, Resources
  <2>3. CASE BlocksFail
    <3>1. "blocks" \in Resources
      BY DEF Resources
    <3>2. CASE Dies("crashed", "blocks")
      BY <3>1, <3>2 DEF Dies
    <3> QED BY <2>3, <3>1, <3>2, GivingUp DEF BlocksFail
  <2>4. CASE ConnectionFails
    BY <1>4, <2>4 DEF ConnectionFails, Dies, Creating, Resources
  <2>5. CASE RegionFails
    <3>1. "region" \in Resources
      BY DEF Resources
    <3>2. CASE GiveUp("region")
      BY <3>1, <3>2, GivingUp
    <3>3. CASE ~GiveUp("region")
      <4>1. Creating("region") /\ todo' = Tail(todo)
        BY <2>5, <3>3 DEF RegionFails
      <4>2. todo' \in Seq([op : {"get", "put"}, what : Resources])
        BY <4>1, TailSteps DEF Creating
      <4> QED BY <2>5, <3>1, <3>3, <4>2 DEF RegionFails
    <3> QED BY <3>2, <3>3
  <2>6. CASE DecompressFails
    <3>1. "array" \in Resources
      BY DEF Resources
    <3>2. CASE GiveUp("array")
      BY <3>1, <3>2, GivingUp
    <3>3. CASE ~GiveUp("array")
      <4>1. /\ phase' \in {"crashed", "configure"}
            /\ object' \in {object, "null"}
            /\ todo' \in Seq([op : {"get", "put"}, what : Resources])
        <5>1. AnswerNull
          BY <2>6, <3>3 DEF DecompressFails
        <5>2. todo' = <<>> /\ <<>> \in Seq([op : {"get", "put"}, what : Resources])
          BY <5>1 DEF AnswerNull
        <5> QED BY <5>1, <5>2 DEF AnswerNull
      <4> QED BY <2>6, <3>1, <3>3, <4>1 DEF DecompressFails, AnswerNull
    <3> QED BY <3>2, <3>3
  <2> QED BY <1>4, <2>1, <2>2, <2>3, <2>4, <2>5, <2>6 DEF CreationFails
<1>5. CASE ExitUnimplemented \/ Spin \/ Created
  BY <1>5 DEF ExitUnimplemented, Spin, Created, vars
<1>6. CASE Configure \/ ConfigureNull
  <2>1. CASE Configure
    <3>1. length' \in Nat
      BY <1>0, <2>1 DEF Configure, Garbage
    <3>2. undefined' \subseteq Resources \cup {"params", "outside"}
      BY <2>1 DEF Configure, MaxLength
    <3>3. held' \subseteq Resources /\ phase' \in {"execute", "exited"}
      BY <2>1 DEF Configure, Resources
    <3> QED BY <2>1, <3>1, <3>2, <3>3 DEF Configure
  <2>2. CASE ConfigureNull
    BY <2>2 DEF ConfigureNull
  <2> QED BY <1>6, <2>1, <2>2
<1>7. CASE Execute
  <2>1. CASE NoAccess
    BY <2>1 DEF NoAccess, ExecutionCrashes, Executed
  <2>2. CASE PointerAccess
    BY <2>2 DEF PointerAccess, ExecutionCrashes, Executed, Resources
  <2>3. CASE CoreAccess
    BY <2>3 DEF CoreAccess, ExecutionCrashes, Executed
  <2>4. CASE NycppAccess
    <3>1. /\ phase' \in {"crashed", "free"}
          /\ UNCHANGED <<config, todo, held, missing, object, length, failed>>
      BY <2>4 DEF NycppAccess, ExecutionCrashes, Executed
    <3>2. undefined' \subseteq undefined \cup {"nycpp", "outside"}
      BY <2>4 DEF NycppAccess, ExecutionCrashes, Executed
    <3> QED BY <3>1, <3>2 DEF Resources
  <2>5. CASE PopulateFails
    BY <2>5 DEF PopulateFails, Dies, Resources
  <2> QED BY <1>7, <2>1, <2>2, <2>3, <2>4, <2>5 DEF Execute, BoroughAccess, VillageAccess
<1>8. CASE Free
  <2>1. LifeOf(config).free \o LifeOf(config).box \in Seq(Step)
    BY <1>0, LivesBalance DEF Balanced, FreeSteps
  <2> QED BY <1>8, <2>1 DEF Free, Freeing, Step
<1>9. CASE LookupFails \/ ParamsFail \/ FreeNone
  <2>1. /\ <<>> \in Seq(Step) /\ <<Put("region")>> \in Seq(Step)
        /\ <<Put("data"), Put("region")>> \in Seq(Step) /\ <<Put("wrapper")>> \in Seq(Step)
    BY DEF Put, Step, Resources
  <2> QED BY <1>9, <2>1 DEF LookupFails, ParamsFail, FreeNone, Freeing, Step
<1>10. CASE Release
  BY <1>10, TailSteps DEF Release
<1>11. CASE Teardown \/ Report \/ ReportFails
  BY <1>11 DEF Teardown, Report, ReportFails, Dies
<1>12. CASE Crash \/ Stopped \/ UNCHANGED vars
  BY <1>12 DEF Crash, Stopped, vars
<1> QED BY <1>1, <1>2, <1>3, <1>4, <1>5, <1>6, <1>7, <1>8, <1>9, <1>10, <1>11, <1>12 DEF Next

LEMMA ObjectInductive == IInv /\ [Next]_vars => ObjectKnown'
<1> SUFFICES ASSUME IInv, [Next]_vars PROVE ObjectKnown'
  OBVIOUS
<1> USE DEF IInv, ObjectKnown
<1>0. TypeOK /\ IsConfig(config)
  BY ConfigType
<1>1. CASE Setup
  <2>1. config.implementation \notin Cores => LifeOf(config).create \in Seq(EagerStep)
    BY <1>0, EagerCreation
  <2> QED BY <1>1, <2>1 DEF Setup
<1>2. CASE SetupFails
  BY <1>2 DEF SetupFails, Dies
<1>3. CASE Acquire
  <2>1. todo \in Seq(EagerStep) => Tail(todo) \in Seq(EagerStep)
    BY <1>3, TailSteps DEF Acquire, Creating
  <2> QED BY <1>3, <2>1 DEF Acquire, Creating
<1>4. CASE CreationFails
  <2>0. \A r : Creating(r) =>
          /\ phase = "create"
          /\ todo \in Seq(EagerStep) => Tail(todo) \in Seq(EagerStep) /\ r # "region"
    BY TailSteps DEF Creating, EagerStep
  <2>1. CASE OpenFails
    BY <2>0, <2>1 DEF OpenFails, GiveUp, AnswerNull
  <2>2. CASE MapFails
    BY <2>0, <2>2 DEF MapFails
  <2>3. CASE BlocksFail
    BY <2>0, <2>3 DEF BlocksFail, Dies, GiveUp, AnswerNull
  <2>4. CASE ConnectionFails
    BY <2>0, <2>4 DEF ConnectionFails, Dies
  <2>5. CASE RegionFails
    BY <2>0, <2>5 DEF RegionFails, GiveUp, AnswerNull
  <2>6. CASE DecompressFails
    BY <2>0, <2>6 DEF DecompressFails, GiveUp, AnswerNull
  <2> QED BY <1>4, <2>1, <2>2, <2>3, <2>4, <2>5, <2>6 DEF CreationFails
<1>5. CASE ExitUnimplemented \/ Spin \/ Created
  BY <1>5 DEF ExitUnimplemented, Spin, Created, vars
<1>6. CASE Configure \/ ConfigureNull
  BY <1>6 DEF Configure, ConfigureNull
<1>7. CASE Execute
  <2>1. CASE NoAccess
    BY <1>0, <2>1 DEF NoAccess, Touches, Executing, ExecutionCrashes, Executed, TypeOK
  <2>2. CASE PointerAccess
    BY <1>0, <2>2 DEF PointerAccess, Executing, ExecutionCrashes, Executed, TypeOK
  <2>3. CASE CoreAccess
    BY <1>0, <2>3 DEF CoreAccess, Executing, ExecutionCrashes, Executed, TypeOK
  <2>4. CASE NycppAccess
    BY <1>0, <2>4 DEF NycppAccess, Executing, ExecutionCrashes, Executed, TypeOK, Cores
  <2>5. CASE PopulateFails
    BY <1>0, <2>5 DEF PopulateFails, Executing, Dies
  <2> QED BY <1>7, <2>1, <2>2, <2>3, <2>4, <2>5 DEF Execute, BoroughAccess, VillageAccess
<1>8. CASE Free \/ LookupFails \/ ParamsFail \/ FreeNone
  BY <1>8 DEF Free, LookupFails, ParamsFail, FreeNone, Freeing
<1>9. CASE Release
  <2>1. todo \in Seq(EagerStep) => Tail(todo) \in Seq(EagerStep)
    BY <1>9, TailSteps DEF Release
  <2>2. undefined' = {} => undefined = {}
    BY <1>9 DEF Release
  <2> QED BY <1>9, <2>1, <2>2 DEF Release
<1>10. CASE Teardown \/ Report \/ ReportFails
  BY <1>10 DEF Teardown, Report, ReportFails, Dies
<1>11. CASE Crash \/ Stopped \/ UNCHANGED vars
  BY <1>11 DEF Crash, Stopped, vars
<1> QED BY <1>1, <1>2, <1>3, <1>4, <1>5, <1>6, <1>7, <1>8, <1>9, <1>10, <1>11 DEF Next

(* The invariant of the driver is inductive. *)
THEOREM Invariance == Spec => []IInv
<1>1. IInv /\ [Next]_vars => IInv'
  BY TypeInductive, ObjectInductive DEF IInv
<1> QED BY InitInv, <1>1, PTL DEF Spec

(* The driver's variables keep their types, whatever fails. *)
THEOREM TypeCorrect == Spec => []TypeOK
<1>1. IInv => TypeOK
  BY DEF IInv
<1> QED BY <1>1, Invariance, PTL

(***************************************************************************)
(* A row of timings is written only for an object that was created, or for *)
(* no access at all, unless something undefined has happened (main, whose  *)
(* phases look at none of the results of the one before).                  *)
(***************************************************************************)
THEOREM RowCorrect == Spec => []RowMeansObject
<1>1. IInv => RowMeansObject
  BY DEF IInv, ObjectKnown, RowMeansObject
<1> QED BY <1>1, Invariance, PTL

-----------------------------------------------------------------------------
Core == IF config.implementation \in Cores THEN {"core"} ELSE {}

(***************************************************************************)
(* What is held, or taken to be, and what is still to be acquired and to   *)
(* be released add up to the object; in a clean run, to its leak.          *)
(***************************************************************************)
Creation ==
    /\ phase = "setup" => missing = {}
    /\ phase = "create" =>
        /\ Tidy(todo)
        /\ Given(todo) \subseteq held \cup missing \cup Got(todo)
        /\ Given(todo) \cap {"core", "mapping", "region"} = {}
        /\ (held \cup missing \cup Got(todo)) \ Given(todo) = Core \cup Made(config)

Existence ==
    /\ object = "made" /\ phase \in {"configure", "execute", "free"} =>
           held \cup missing =
               Core \cup Made(config) \cup IF phase = "configure" THEN {} ELSE {"sequence"}
    /\ phase \in {"create", "configure", "execute"} => Core \subseteq held

Cleanup ==
    failed = {} /\ undefined = {} =>
        /\ phase = "cleanup" => held \ Given(todo) = Core \cup Leak(config) \cup {"sequence"}
        /\ phase = "report" => held = Leak(config) \cup {"sequence"}
        /\ phase = "done" => held = Leak(config)

(* A run that asks for nothing the code cannot do, and has not failed yet. *)
Faultless ==
    Sound(config) /\ failed \subseteq Harmless(config.benchmark) =>
        /\ undefined = {} /\ missing = {}
        /\ phase \notin {"exited", "crashed"}
        /\ object = IF phase \in {"setup", "create"} THEN "none" ELSE "made"
        /\ phase \in {"execute", "free", "cleanup"} => length = ObjectLength
        /\ phase = "cleanup" => /\ Tidy(todo) /\ Given(todo) \subseteq held
        /\ phase \in {"create", "cleanup"} /\ config.implementation = "nyc++" =>
               "mapping" \notin Given(todo)

LedgerInv == Creation /\ Existence /\ Cleanup /\ Faultless

Ledger == IInv /\ LedgerInv

(* The next step of a list, done. *)
LEMMA GetDone ==
    ASSUME NEW s \in Seq(Step), s # <<>>, NEW r \in Resources, Head(s) = Get(r)
    PROVE  /\ Got(s) = Got(Tail(s)) \cup {r} /\ Given(Tail(s)) = Given(s)
           /\ Tidy(s) => Tidy(Tail(s))
<1> DEFINE t == Tail(s)
           g == {q \in Resources : Head(s) = Get(q)}
           p == {q \in Resources : Head(s) = Put(q)}
<1>1. g = {r} /\ p = {}
  BY StepsApart
<1>2. Got(s) = Got(t) \cup g /\ Given(s) = Given(t) \cup p /\ (Tidy(s) => Tidy(t))
  BY FirstStep
<1> HIDE DEF t, g, p
<1>3. Got(s) = Got(t) \cup {r} /\ Given(t) = Given(s) /\ (Tidy(s) => Tidy(t))
  BY <1>1, <1>2
<1> QED BY <1>3 DEF t

LEMMA PutDone ==
    ASSUME NEW s \in Seq(Step), s # <<>>, NEW r \in Resources, Head(s) = Put(r)
    PROVE  /\ Got(Tail(s)) = Got(s) /\ Given(s) = Given(Tail(s)) \cup {r}
           /\ Tidy(s) => Tidy(Tail(s)) /\ r \notin Got(Tail(s)) \cup Given(Tail(s))
<1> DEFINE t == Tail(s)
           g == {q \in Resources : Head(s) = Get(q)}
           p == {q \in Resources : Head(s) = Put(q)}
<1>1. g = {} /\ p = {r}
  BY StepsApart
<1>2. /\ Got(s) = Got(t) \cup g /\ Given(s) = Given(t) \cup p
      /\ Tidy(s) => Tidy(t) /\ r \notin Got(t) \cup Given(t)
  BY FirstStep
<1> HIDE DEF t, g, p
<1>3. /\ Got(t) = Got(s) /\ Given(s) = Given(t) \cup {r}
      /\ Tidy(s) => Tidy(t) /\ r \notin Got(t) \cup Given(t)
  BY <1>1, <1>2
<1> QED BY <1>3 DEF t

LEMMA NothingLeft == Got(<<>>) = {} /\ Given(<<>>) = {} /\ Tidy(<<>>)
<1>1. "core" \in Resources
  BY DEF Resources
<1> QED BY <1>1, OneStep

LEMMA ConfigKept ==
    ASSUME UNCHANGED config
    PROVE  /\ Core' = Core /\ Sound(config)' = Sound(config) /\ ObjectLength' = ObjectLength
           /\ Made(config)' = Made(config) /\ Leak(config)' = Leak(config)
           /\ Harmless(config.benchmark)' = Harmless(config.benchmark)
  BY DEF Core, ObjectLength, Is

(* A step that ends a run that was not sound, or failed by it. *)
Excused == ~Sound(config) \/ ~(failed' \subseteq Harmless(config.benchmark))

LEMMA BadEnd ==
    ASSUME UNCHANGED config, phase' \in {"exited", "crashed"}, Excused
    PROVE  LedgerInv'
  BY ConfigKept DEF LedgerInv, Creation, Existence, Cleanup, Faultless, Excused

LEMMA NullObject ==
    ASSUME UNCHANGED <<config, held>>, phase' = "configure", object' = "null",
           Core \subseteq held, Excused
    PROVE  LedgerInv'
  BY ConfigKept DEF LedgerInv, Creation, Existence, Cleanup, Faultless, Excused

(* A step of creation that acquires r, or takes it to be acquired. *)
LEMMA CreationGoesOn ==
    ASSUME Ledger, NEW r \in Resources, Creating(r), todo' = Tail(todo),
           UNCHANGED <<config, phase, object>>,
           \/ held' = held \cup {r} /\ UNCHANGED <<missing, failed, undefined>>
           \/ missing' = missing \cup {r} /\ UNCHANGED held /\ Excused
           \/ held' = held \cup {r} /\ UNCHANGED <<missing, failed>> /\ Excused
    PROVE  LedgerInv'
<1>1. todo \in Seq(Step) /\ todo # <<>> /\ Head(todo) = Get(r) /\ phase = "create"
  BY DEF Creating, Ledger, IInv, TypeOK, Step
<1>2. /\ Got(todo) = Got(todo') \cup {r} /\ Given(todo') = Given(todo)
      /\ Tidy(todo) => Tidy(todo')
  BY <1>1, GetDone
<1>3. held' \cup missing' \cup Got(todo') = held \cup missing \cup Got(todo)
  BY <1>2
<1>4. Creation'
  BY <1>1, <1>2, <1>3, ConfigKept DEF Ledger, LedgerInv, Creation
<1>5. Existence'
  BY <1>1, ConfigKept DEF Ledger, LedgerInv, Existence
<1>6. Cleanup'
  BY <1>1 DEF Cleanup
<1>7. Faultless'
  BY <1>1, <1>2, ConfigKept DEF Ledger, LedgerInv, Faultless, Excused
<1> QED BY <1>4, <1>5, <1>6, <1>7 DEF LedgerInv

LEMMA SetupLedger == ASSUME Ledger, Setup \/ SetupFails PROVE LedgerInv'
<1>0. TypeOK /\ IsConfig(config)
  BY ConfigType DEF Ledger, IInv
<1>1. Balanced(config)
  BY <1>0, LivesBalance
<1>2. CASE Setup
  <2>1. /\ phase' = "create" /\ todo' = LifeOf(config).create /\ held' = Core
        /\ UNCHANGED <<config, missing, object, length, failed, undefined>>
    BY <1>2 DEF Setup, Core
  <2>2. missing = {} /\ phase = "setup"
    BY <1>2 DEF Setup, Ledger, LedgerInv, Creation
  <2>3. /\ Tidy(todo') /\ Given(todo') \subseteq Got(todo')
        /\ Given(todo') \cap {"mapping", "region"} = {} /\ Got(todo') \cap {"core", "sequence"} = {}
        /\ Made(config) = Got(todo') \ Given(todo')
        /\ "mapping" \in Got(todo') => config.benchmark = "mmap"
    BY <1>1, <2>1 DEF Balanced, Made
  <2>4. Core \subseteq {"core"}
    BY DEF Core
  <2>5. Creation'
    BY <2>1, <2>2, <2>3, <2>4, ConfigKept DEF Creation
  <2>6. Existence' /\ Cleanup'
    BY <2>1, ConfigKept DEF Existence, Cleanup
  <2>7. Sound(config) /\ config.implementation = "nyc++" => config.benchmark # "mmap"
    BY DEF Sound
  <2>8. Faultless'
    BY <2>1, <2>2, <2>3, <2>7, ConfigKept DEF Ledger, LedgerInv, Faultless
  <2> QED BY <2>5, <2>6, <2>8 DEF LedgerInv
<1>3. CASE SetupFails
  <2>1. "core" \notin Harmless(config.benchmark)
    BY DEF Harmless
  <2> QED BY <1>3, <2>1, BadEnd DEF SetupFails, Dies, Excused
<1> QED BY <1>2, <1>3

LEMMA CreationLedger ==
    ASSUME Ledger, Acquire \/ CreationFails \/ ExitUnimplemented \/ Spin \/ Created
    PROVE  LedgerInv'
<1>0. TypeOK /\ IsConfig(config)
  BY ConfigType DEF Ledger, IInv
<1>1. CASE Acquire
  <2>1. PICK r \in Resources :
           /\ Creating(r) /\ todo' = Tail(todo) /\ held' = held \cup {r}
           /\ undefined' = IF r = "array" /\ config.benchmark = "fib" /\ config.size < 2
                             THEN undefined \cup {"array"} ELSE undefined
           /\ UNCHANGED <<config, phase, missing, object, length, failed>>
    BY <1>1 DEF Acquire
  <2>2. config.benchmark = "fib" /\ config.size < 2 => ~Sound(config)
    BY <1>0 DEF Sound, IsConfig
  <2> QED BY <2>1, <2>2, CreationGoesOn DEF Excused
<1>2. ASSUME NEW r \in Resources, r \notin {"lookup", "params"}, GiveUp(r) PROVE LedgerInv'
  <2>1. /\ UNCHANGED <<config, held>> /\ failed' = failed \cup {r}
        /\ phase' = "crashed" \/ (phase' = "configure" /\ object' = "null")
        /\ phase = "create"
    BY <1>2 DEF GiveUp, AnswerNull, Creating
  <2>2. r \notin Harmless(config.benchmark)
    BY <1>2 DEF Harmless
  <2>3. Core \subseteq held
    BY <2>1 DEF Ledger, LedgerInv, Existence
  <2> QED BY <2>1, <2>2, <2>3, BadEnd, NullObject DEF Excused
<1>3. "lookup" \notin Resources /\ "params" \notin Resources
  BY DEF Resources
<1>4. CASE OpenFails
  <2>1. {"mapping", "stream", "mutex"} \subseteq Resources
    BY DEF Resources
  <2> QED BY <1>2, <1>3, <1>4, <2>1 DEF OpenFails
<1>5. CASE MapFails
  <2>1. /\ Creating("mapping") /\ todo' = Tail(todo) /\ missing' = missing \cup {"mapping"}
        /\ UNCHANGED <<config, held, object, length, undefined>>
        /\ phase' \in {phase, "crashed"}
    BY <1>5 DEF MapFails
  <2>2. Excused
    <3>1. CASE config.size > 0
      BY <1>5, <3>1 DEF MapFails, Excused, Harmless
    <3>2. CASE ~(config.size > 0)
      <4>1. ~Sound(config)
        BY <1>0, <3>2 DEF Sound, IsConfig
      <4> QED BY <4>1 DEF Excused
    <3> QED BY <3>1, <3>2
  <2>3. "mapping" \in Resources
    BY DEF Resources
  <2> QED BY <2>1, <2>2, <2>3, CreationGoesOn, BadEnd
<1>6. CASE BlocksFail
  <2>1. "blocks" \in Resources /\ "blocks" \notin Harmless(config.benchmark)
    BY DEF Resources, Harmless
  <2> QED BY <1>2, <1>3, <1>6, <2>1, BadEnd DEF BlocksFail, Dies, Excused
<1>7. CASE ConnectionFails
  <2>1. "connection" \notin Harmless(config.benchmark)
    BY DEF Harmless
  <2> QED BY <1>7, <2>1, BadEnd DEF ConnectionFails, Dies, Excused
<1>8. CASE RegionFails
  <2>1. "region" \in Resources /\ "region" \notin Harmless(config.benchmark)
    BY DEF Resources, Harmless
  <2>2. CASE GiveUp("region")
    BY <1>2, <1>3, <2>1, <2>2
  <2>3. CASE ~GiveUp("region")
    <3>1. /\ Creating("region") /\ todo' = Tail(todo) /\ missing' = missing \cup {"region"}
          /\ failed' = failed \cup {"region"}
          /\ UNCHANGED <<config, phase, held, object, length, undefined>>
      BY <1>8, <2>3 DEF RegionFails
    <3> QED BY <2>1, <3>1, CreationGoesOn DEF Excused
  <2> QED BY <2>2, <2>3
<1>9. CASE DecompressFails
  <2>1. "array" \in Resources
    BY DEF Resources
  <2>2. CASE GiveUp("array")
    BY <1>2, <1>3, <2>1, <2>2
  <2>3. CASE ~GiveUp("array")
    <3>1. /\ Creating("array") /\ config.size = 0 /\ AnswerNull
      BY <1>9, <2>3 DEF DecompressFails
    <3>2. ~Sound(config)
      BY <1>0, <3>1 DEF Sound, IsConfig
    <3>3. phase = "create" /\ Core \subseteq held
      BY <3>1 DEF Creating, Ledger, LedgerInv, Existence
    <3> QED BY <3>1, <3>2, <3>3, BadEnd, NullObject DEF AnswerNull, Excused
  <2> QED BY <2>2, <2>3
<1>10. CASE ExitUnimplemented
  <2>1. ~Sound(config)
    BY <1>10 DEF ExitUnimplemented, Unimplemented, Is, Sound
  <2> QED BY <1>10, <2>1, BadEnd DEF ExitUnimplemented, Excused
<1>11. CASE Spin
  BY <1>11, ConfigKept DEF Spin, vars, Ledger, LedgerInv, Creation, Existence, Cleanup, Faultless
<1>12. CASE Created
  <2>1. /\ phase = "create" /\ todo = <<>> /\ phase' = "configure"
        /\ UNCHANGED <<config, todo, held, missing, length, failed, undefined>>
        /\ object' = IF "region" \in missing THEN "error" ELSE "made"
    BY <1>12 DEF Created
  <2>2. held \cup missing = Core \cup Made(config) /\ Core \subseteq held
    BY <2>1, NothingLeft DEF Ledger, LedgerInv, Creation, Existence
  <2>3. Creation' /\ Cleanup'
    BY <2>1 DEF Creation, Cleanup
  <2>4. Existence'
    BY <2>1, <2>2, ConfigKept DEF Existence
  <2>5. Faultless'
    BY <2>1, ConfigKept DEF Ledger, LedgerInv, Faultless
  <2> QED BY <2>3, <2>4, <2>5 DEF LedgerInv
<1> QED BY <1>1, <1>4, <1>5, <1>6, <1>7, <1>8, <1>9, <1>10, <1>11, <1>12 DEF CreationFails

(* The steps after creation up to the last access. *)
LEMMA AccessLedger ==
    ASSUME Ledger, Configure \/ ConfigureNull \/ Execute
    PROVE  LedgerInv'
<1>0. TypeOK /\ IsConfig(config) /\ ObjectLength \in Nat
  BY ConfigType DEF Ledger, IInv
<1>1. CASE Configure
  <2>1. /\ phase = "configure" /\ UNCHANGED <<config, todo, missing, object, failed>>
        /\ MaxLength(length')
        /\ \/ phase' = "execute" /\ held' = held \cup {"sequence"}
           \/ phase' = "exited" /\ UNCHANGED held /\ config.pattern \notin Patterns
    BY <1>1 DEF Configure
  <2>2. config.pattern \notin Patterns => ~Sound(config)
    BY DEF Sound, Patterns
  <2>3. CASE phase' = "exited"
    BY <2>1, <2>2, <2>3, BadEnd DEF Excused
  <2>4. CASE phase' = "execute"
    <3>1. held' = held \cup {"sequence"}
      BY <2>1, <2>4
    <3>2. Creation' /\ Cleanup'
      BY <2>4 DEF Creation, Cleanup
    <3>3. Existence'
      BY <2>1, <2>4, <3>1, ConfigKept DEF Ledger, LedgerInv, Existence
    <3>4. object = "made" => length' = ObjectLength /\ UNCHANGED undefined
      BY <2>1 DEF MaxLength
    <3>5. Faultless'
      BY <2>1, <2>4, <3>4, ConfigKept DEF Ledger, LedgerInv, Faultless
    <3> QED BY <3>2, <3>3, <3>5 DEF LedgerInv
  <2> QED BY <2>1, <2>3, <2>4
<1>2. CASE ConfigureNull
  <2>1. Excused
    BY <1>2 DEF ConfigureNull, Ledger, LedgerInv, Faultless, Excused
  <2> QED BY <1>2, <2>1, BadEnd DEF ConfigureNull
<1>3. Sound(config) /\ failed \subseteq Harmless(config.benchmark) /\ phase = "execute" =>
         /\ object = "made" /\ missing = {} /\ undefined = {} /\ length = ObjectLength
         /\ config.pattern # "reverse" /\ length > 0
  <2>1. Sound(config) => ObjectLength > 0 /\ config.pattern # "reverse"
    BY <1>0 DEF Sound, IsConfig, ObjectLength
  <2> QED BY <2>1 DEF Ledger, LedgerInv, Faultless
<1>4. ASSUME ExecutionCrashes, Excused PROVE LedgerInv'
  BY <1>4, BadEnd DEF ExecutionCrashes
<1>5. ASSUME NEW what, phase = "execute", Executed(what), what = {} \/ Excused PROVE LedgerInv'
  <2>1. /\ phase' = "free" /\ UNCHANGED <<config, todo, held, missing, object, length, failed>>
        /\ undefined' = undefined \cup what \cup IF config.pattern = "reverse" THEN {"outside"} ELSE {}
    BY <1>5 DEF Executed
  <2>2. Creation' /\ Cleanup'
    BY <2>1 DEF Creation, Cleanup
  <2>3. Existence'
    BY <1>5, <2>1, ConfigKept DEF Ledger, LedgerInv, Existence
  <2>4. Faultless'
    BY <1>3, <1>5, <2>1, ConfigKept DEF Ledger, LedgerInv, Faultless, Excused
  <2> QED BY <2>2, <2>3, <2>4 DEF LedgerInv
<1>6. ASSUME phase = "execute", UNCHANGED failed, object # "made" \/ missing # {} \/ ~(length > 0) PROVE Excused
  BY <1>3, <1>6 DEF Excused
<1>7. CASE NoAccess
  <2>1. phase = "execute" /\ UNCHANGED failed /\ ~(length > 0)
    BY <1>7 DEF NoAccess, Executing, Touches, ExecutionCrashes, Executed
  <2>2. Excused
    BY <1>6, <2>1
  <2> QED BY <1>4, <1>5, <1>7, <2>1, <2>2 DEF NoAccess
<1>8. CASE PointerAccess
  <2>1. phase = "execute" /\ UNCHANGED failed
    BY <1>8 DEF PointerAccess, Executing, ExecutionCrashes, Executed
  <2>2. CASE ExecutionCrashes /\ (object = "null" \/ "mapping" \in missing)
    <3>1. Excused
      BY <1>6, <2>1, <2>2
    <3> QED BY <1>4, <2>2, <3>1
  <2>3. CASE Executed(missing)
    BY <1>5, <1>6, <2>1, <2>3
  <2> QED BY <1>8, <2>2, <2>3 DEF PointerAccess
<1>9. CASE BoroughAccess \/ VillageAccess
  <2>1. phase = "execute" /\ UNCHANGED failed /\ config.implementation \in {"nyc", "toronto"} /\ CoreAccess
    BY <1>9 DEF BoroughAccess, VillageAccess, CoreAccess, Executing, ExecutionCrashes, Executed
  <2>2. SelfIsNull => Excused
    <3> SUFFICES ASSUME SelfIsNull, ~Excused PROVE FALSE
      OBVIOUS
    <3>1. Sound(config) /\ length = ObjectLength
      BY <1>3, <2>1 DEF Excused
    <3>2. config.benchmark = "fib" /\ length = config.size /\ length > LoadCt
      BY <3>1 DEF SelfIsNull, ObjectLength, Is
    <3>3. config.size <= LoadCt
      BY <2>1, <3>1, <3>2 DEF Sound
    <3> QED BY <1>0, <3>2, <3>3, SizesAssumption DEF IsConfig
  <2>3. CASE ExecutionCrashes /\ ("mapping" \in missing \/ SelfIsNull)
    <3>1. Excused
      BY <1>6, <2>1, <2>2, <2>3
    <3> QED BY <1>4, <2>3, <3>1
  <2>4. CASE Executed(IF object = "made" THEN {} ELSE {"params"})
    <3>1. (IF object = "made" THEN {} ELSE {"params"}) = {} \/ Excused
      BY <1>6, <2>1
    <3> QED BY <1>5, <2>1, <2>4, <3>1
  <2> QED BY <2>1, <2>3, <2>4 DEF CoreAccess
<1>10. CASE NycppAccess
  <2>1. phase = "execute" /\ UNCHANGED failed /\ config.implementation = "nyc++"
    BY <1>10 DEF NycppAccess, Executing, ExecutionCrashes, Executed
  <2>2. CASE ExecutionCrashes /\ "mapping" \in missing
    <3>1. Excused
      BY <1>6, <2>1, <2>2
    <3> QED BY <1>4, <2>2, <3>1
  <2>3. CASE Executed(IF Is({"seq", "fib"}, {"nyc++"}) THEN {"nycpp"} ELSE {})
    <3>1. Sound(config) => ~Is({"seq", "fib"}, {"nyc++"})
      BY <2>1 DEF Sound, Is
    <3>2. (IF Is({"seq", "fib"}, {"nyc++"}) THEN {"nycpp"} ELSE {}) = {} \/ Excused
      BY <3>1 DEF Excused
    <3> QED BY <1>5, <2>1, <2>3, <3>2
  <2> QED BY <1>10, <2>2, <2>3 DEF NycppAccess
<1>11. CASE PopulateFails
  <2>1. "connection" \notin Harmless(config.benchmark) /\ "blocks" \notin Harmless(config.benchmark)
    BY DEF Harmless
  <2> QED BY <1>11, <2>1, BadEnd DEF PopulateFails, Dies, Excused
<1> QED BY <1>1, <1>2, <1>7, <1>8, <1>9, <1>10, <1>11 DEF Execute

(* What a clean run holds when it starts to free its object. *)
LEMMA FreeLedger ==
    ASSUME Ledger, Free \/ LookupFails \/ ParamsFail \/ FreeNone
    PROVE  LedgerInv'
<1>0. TypeOK /\ IsConfig(config)
  BY ConfigType DEF Ledger, IInv
<1>1. Balanced(config)
  BY <1>0, LivesBalance
<1>2. /\ phase = "free" /\ phase' = "cleanup"
      /\ UNCHANGED <<config, held, missing, object, length>>
  BY DEF Free, LookupFails, ParamsFail, FreeNone, Freeing
<1>3. Creation' /\ Existence'
  BY <1>2 DEF Creation, Existence
<1>4. object = "made" => held \cup missing = Core \cup Made(config) \cup {"sequence"}
  BY <1>2 DEF Ledger, LedgerInv, Existence
<1>5. CASE Free
  <2>1. object = "made" /\ todo' = FreeSteps(config) /\ UNCHANGED <<failed, undefined>>
    BY <1>5 DEF Free, Freeing, FreeSteps
  <2>2. /\ Tidy(todo') /\ Given(todo') \subseteq Made(config)
        /\ Made(config) \ Given(todo') = Leak(config)
    BY <1>1, <2>1 DEF Balanced
  <2>3. /\ Made(config) \cap {"core", "sequence"} = {}
        /\ "mapping" \in Made(config) => config.benchmark = "mmap"
    BY <1>1 DEF Balanced, Made
  <2>4. missing \subseteq {"mapping", "region"}
    BY <1>0 DEF TypeOK
  <2>5. Leak(config) \cap {"mapping", "region"} = {}
    BY DEF Leak
  <2>6. Core \subseteq {"core"}
    BY DEF Core
  <2>7. held \ Given(todo') = Core \cup Leak(config) \cup {"sequence"}
    BY <1>4, <2>1, <2>2, <2>3, <2>4, <2>5, <2>6
  <2>8. Cleanup'
    BY <1>2, <2>7, ConfigKept DEF Cleanup
  <2>9. Sound(config) /\ config.implementation = "nyc++" => config.benchmark # "mmap"
    BY DEF Sound
  <2>10. Faultless'
    BY <1>2, <1>4, <2>1, <2>2, <2>3, <2>9, ConfigKept DEF Ledger, LedgerInv, Faultless
  <2> QED BY <1>3, <2>8, <2>10 DEF LedgerInv
<1>6. CASE LookupFails
  <2>1. todo' = <<>> /\ failed' = failed \cup {"lookup"} /\ UNCHANGED undefined
    BY <1>6 DEF LookupFails, Freeing
  <2>2. Cleanup'
    BY <2>1 DEF Cleanup
  <2>3. Faultless'
    BY <1>2, <2>1, NothingLeft, ConfigKept DEF Ledger, LedgerInv, Faultless
  <2> QED BY <1>3, <2>2, <2>3 DEF LedgerInv
<1>7. CASE ParamsFail
  <2>1. /\ object = "made" /\ config.implementation = "ufo"
        /\ failed' = failed \cup {"params"}
        /\ undefined' = IF FreesUnread THEN undefined \cup {"params"} ELSE undefined
        /\ config.benchmark # "col" => todo' = <<Put("region")>>
    BY <1>7 DEF ParamsFail, Freeing
  <2>2. Cleanup'
    BY <2>1 DEF Cleanup
  <2>3. CASE config.benchmark \in {"seq", "col"}
    <3>1. "params" \notin Harmless(config.benchmark)
      BY <2>3 DEF Harmless
    <3>2. Faultless'
      BY <1>2, <2>1, <3>1, ConfigKept DEF Faultless
    <3> QED BY <1>3, <2>2, <3>2 DEF LedgerInv
  <2>4. CASE config.benchmark \notin {"seq", "col"}
    <3>1. UNCHANGED undefined /\ todo' = <<Put("region")>>
      BY <2>1, <2>4 DEF FreesUnread
    <3>2. Given(todo') = {"region"} /\ Tidy(todo')
      <4>1. "region" \in Resources
        BY DEF Resources
      <4> QED BY <3>1, <4>1, OneStep
    <3>3. "region" \in Made(config)
      BY <1>1, <2>1 DEF Balanced, Cores
    <3>4. Faultless'
      BY <1>2, <1>4, <2>1, <3>1, <3>2, <3>3, ConfigKept DEF Ledger, LedgerInv, Faultless
    <3> QED BY <1>3, <2>2, <3>4 DEF LedgerInv
  <2> QED BY <2>3, <2>4
<1>8. CASE FreeNone
  <2>1. object # "made" /\ undefined' = undefined \cup {"params"} /\ UNCHANGED failed
    BY <1>8 DEF FreeNone
  <2>2. Cleanup'
    BY <2>1 DEF Cleanup
  <2>3. Faultless'
    BY <1>2, <2>1, ConfigKept DEF Ledger, LedgerInv, Faultless
  <2> QED BY <1>3, <2>2, <2>3 DEF LedgerInv
<1> QED BY <1>5, <1>6, <1>7, <1>8

LEMMA ReleaseLedger == ASSUME Ledger, Release PROVE LedgerInv'
<1>1. PICK r \in Resources :
         /\ Head(todo) = Put(r) /\ held' = held \ {r}
         /\ undefined' = IF r \in held \cup missing /\ ~(r = "mapping" /\ config.implementation = "nyc++")
                           THEN undefined ELSE undefined \cup {r}
  BY DEF Release
<1>2. /\ phase \in {"create", "cleanup"} /\ todo # <<>> /\ todo' = Tail(todo)
      /\ UNCHANGED <<config, phase, missing, object, length, failed>>
  BY DEF Release
<1>3. todo \in Seq(Step)
  BY DEF Ledger, IInv, TypeOK, Step
<1>4. /\ Got(todo') = Got(todo) /\ Given(todo) = Given(todo') \cup {r}
      /\ Tidy(todo) => Tidy(todo') /\ r \notin Got(todo') \cup Given(todo')
  BY <1>1, <1>2, <1>3, PutDone
<1>5. missing \subseteq {"mapping", "region"}
  BY DEF Ledger, IInv, TypeOK
<1>6. CASE phase = "create"
  <2>1. /\ Tidy(todo) /\ Given(todo) \subseteq held \cup missing \cup Got(todo)
        /\ Given(todo) \cap {"core", "mapping", "region"} = {}
        /\ (held \cup missing \cup Got(todo)) \ Given(todo) = Core \cup Made(config)
        /\ Core \subseteq held
    BY <1>6 DEF Ledger, LedgerInv, Creation, Existence
  <2>2. /\ Given(todo') \subseteq held' \cup missing \cup Got(todo')
        /\ (held' \cup missing \cup Got(todo')) \ Given(todo') = Core \cup Made(config)
        /\ r \notin missing /\ r \in held
    BY <1>1, <1>4, <1>5, <2>1
  <2>3. Creation'
    BY <1>2, <1>4, <1>6, <2>1, <2>2, ConfigKept DEF Creation
  <2>4. Core \subseteq {"core"}
    BY DEF Core
  <2>5. Existence' /\ Cleanup'
    BY <1>1, <1>2, <1>4, <1>6, <2>1, <2>4, ConfigKept DEF Existence, Cleanup
  <2>6. Faultless'
    BY <1>1, <1>2, <1>4, <1>6, <2>2, ConfigKept DEF Ledger, LedgerInv, Faultless
  <2> QED BY <2>3, <2>5, <2>6 DEF LedgerInv
<1>7. CASE phase = "cleanup"
  <2>1. Creation' /\ Existence'
    BY <1>2, <1>7 DEF Creation, Existence
  <2>2. held' \ Given(todo') = held \ Given(todo)
    BY <1>1, <1>4
  <2>3. undefined' = {} => undefined = {}
    BY <1>1
  <2>4. Cleanup'
    BY <1>2, <1>7, <2>2, <2>3, ConfigKept DEF Ledger, LedgerInv, Cleanup
  <2>5. Faultless'
    BY <1>1, <1>2, <1>4, <1>7, ConfigKept DEF Ledger, LedgerInv, Faultless
  <2> QED BY <2>1, <2>4, <2>5 DEF LedgerInv
<1> QED BY <1>2, <1>6, <1>7

LEMMA EndLedger ==
    ASSUME Ledger, Teardown \/ Report \/ ReportFails \/ Crash \/ Stopped \/ UNCHANGED vars
    PROVE  LedgerInv'
<1>1. CASE Teardown
  <2>1. /\ phase = "cleanup" /\ todo = <<>> /\ phase' = "report" /\ held' = held \ {"core"}
        /\ UNCHANGED <<config, missing, object, length, failed, undefined>>
    BY <1>1 DEF Teardown
  <2>2. Core \subseteq {"core"} /\ "core" \notin Leak(config)
    BY DEF Core, Leak
  <2>3. failed = {} /\ undefined = {} => held' = Leak(config) \cup {"sequence"}
    BY <2>1, <2>2, NothingLeft DEF Ledger, LedgerInv, Cleanup
  <2>4. Creation' /\ Existence'
    BY <2>1 DEF Creation, Existence
  <2>5. Cleanup'
    BY <2>1, <2>3, ConfigKept DEF Cleanup
  <2>6. Faultless'
    BY <2>1, ConfigKept DEF Ledger, LedgerInv, Faultless
  <2> QED BY <2>4, <2>5, <2>6 DEF LedgerInv
<1>2. CASE Report
  <2>1. /\ phase = "report" /\ phase' = "done" /\ held' = held \ {"sequence"}
        /\ UNCHANGED <<config, missing, object, length, failed, undefined>>
    BY <1>2 DEF Report
  <2>2. "sequence" \notin Leak(config)
    BY DEF Leak
  <2>3. failed = {} /\ undefined = {} => held' = Leak(config)
    BY <2>1, <2>2 DEF Ledger, LedgerInv, Cleanup
  <2>4. Creation' /\ Existence'
    BY <2>1 DEF Creation, Existence
  <2>5. Cleanup'
    BY <2>1, <2>3, ConfigKept DEF Cleanup
  <2>6. Faultless'
    BY <2>1, ConfigKept DEF Ledger, LedgerInv, Faultless
  <2> QED BY <2>4, <2>5, <2>6 DEF LedgerInv
<1>3. CASE ReportFails
  <2>1. "timing" \notin Harmless(config.benchmark)
    BY DEF Harmless
  <2> QED BY <1>3, <2>1, BadEnd DEF ReportFails, Dies, Excused
<1>4. CASE Crash
  <2>1. Excused
    BY <1>4 DEF Crash, Ledger, LedgerInv, Faultless, Excused
  <2> QED BY <1>4, <2>1, BadEnd DEF Crash
<1>5. CASE Stopped \/ UNCHANGED vars
  BY <1>5, ConfigKept
  DEF Stopped, vars, Ledger, LedgerInv, Creation, Existence, Cleanup, Faultless
<1> QED BY <1>1, <1>2, <1>3, <1>4, <1>5

LEMMA LedgerNext == Ledger /\ [Next]_vars => LedgerInv'
  BY SetupLedger, CreationLedger, AccessLedger, FreeLedger, ReleaseLedger, EndLedger DEF Next

(***************************************************************************)
(* In every phase the resources add up: what the constructor acquires is   *)
(* what the object is made of, and what is not leaked is freed.            *)
(***************************************************************************)
THEOREM LedgerBalances == Spec => []LedgerInv
<1>1. Init => LedgerInv
  BY DEF Init, LedgerInv, Creation, Existence, Cleanup, Faultless
<1>2. Ledger /\ [Next]_vars => LedgerInv'
  BY LedgerNext
<1> QED BY <1>1, <1>2, Invariance, PTL DEF Spec, Ledger

(***************************************************************************)
(* Runs that ask for nothing the code cannot do stay defined and end well, *)
(* unless a step fails; not even a look-up that fails at the end matters,  *)
(* but for seq and col (main, src/bench.c).                                *)
(***************************************************************************)
THEOREM SoundRunsCorrect == Spec => []SoundRunsStayDefined
<1>1. LedgerInv => SoundRunsStayDefined
  BY DEF LedgerInv, Faultless, SoundRunsStayDefined
<1> QED BY <1>1, LedgerBalances, PTL

(***************************************************************************)
(* What populate reads outlives the last access, for every benchmark on    *)
(* every implementation (the *_new and *_free functions, main's order).    *)
(***************************************************************************)
THEOREM InputsCorrect == Spec => []InputsOutliveAccess
<1>1. IInv /\ LedgerInv => InputsOutliveAccess
  <2> SUFFICES ASSUME IInv, LedgerInv PROVE InputsOutliveAccess
    OBVIOUS
  <2>1. IsConfig(config)
    BY ConfigType DEF IInv
  <2>2. Reads \subseteq Made(config)
    BY <2>1, LivesBalance
  <2>3. config.implementation \in Cores => Core = {"core"}
    BY DEF Core
  <2> QED BY <2>2, <2>3 DEF LedgerInv, Existence, InputsOutliveAccess
<1> QED BY <1>1, Invariance, LedgerBalances, PTL

(***************************************************************************)
(* A run in which nothing fails gives back everything but the two leaks    *)
(* (the struct of Players_*_free, the file of the eager bzip object).      *)
(***************************************************************************)
THEOREM ReleaseCorrect == Spec => []CleanRunReleasesAll
<1>1. IInv /\ LedgerInv => CleanRunReleasesAll
  <2> SUFFICES ASSUME IInv, LedgerInv PROVE CleanRunReleasesAll
    OBVIOUS
  <2>1. config.implementation \in Implementations
    BY ConfigType DEF IInv, IsConfig
  <2>2. config.implementation \in {"normil", "nyc++"} <=> config.implementation \notin Cores
    BY <2>1 DEF Implementations, Cores
  <2> QED BY <2>2 DEF LedgerInv, Cleanup, CleanRunReleasesAll, Leak, Is
<1> QED BY <1>1, Invariance, LedgerBalances, PTL
=============================================================================
