----------------------------- MODULE FoldLemmas ------------------------------
(***************************************************************************)
(* What the folds of the models compute.  FoldLeft and FlattenSeq choose a *)
(* function that goes on as the fold does; that there is one, and only     *)
(* one, is shown by taking the least length at which it would fail.  The   *)
(* models fold over data: the periodic plan over pids (StnEngine), the     *)
(* decode map over records and refusals (StreamBeat), the segments of a    *)
(* wire and the records of a reply (Batches).                              *)
(***************************************************************************)
EXTENDS Integers, Sequences, FiniteSets, SequencesExt, SequenceTheorems,
        FiniteSetTheorems, WellFoundedInduction, TLAPS

(* Every set of numbers has a least one, so induction over a set is sound. *)
LEMMA Least == ASSUME NEW T \in SUBSET Nat, T # {} PROVE \E x \in T : \A y \in T : x <= y
<1>1. IsWellFoundedOn(OpToRel(<, Nat), Nat)
  BY NatLessThanWellFounded
<1>2. PICK x \in T : \A y \in T : ~ (<<y, x>> \in OpToRel(<, Nat))
  BY <1>1, WFMin
<1>3. \A y \in T : ~(y < x)
  BY <1>2 DEF OpToRel
<1> QED BY <1>3

LEMMA Induct ==
  ASSUME NEW T, 0 \in T, \A n \in Nat : n \in T => n + 1 \in T PROVE \A n \in Nat : n \in T
<1> SUFFICES ASSUME NEW m \in Nat, m \notin T PROVE FALSE
  OBVIOUS
<1> DEFINE U == {n \in Nat : n \notin T}
<1>1. PICK x \in U : \A y \in U : x <= y
  <2>1. U \in SUBSET Nat /\ U # {}
    OBVIOUS
  <2> HIDE DEF U
  <2> QED BY <2>1, Least
<1>2. x # 0 /\ x - 1 \in Nat /\ x - 1 \notin U
  BY <1>1
<1> QED BY <1>1, <1>2

LEMMA SeqInduct ==
  ASSUME NEW E, NEW T, <<>> \in T, \A s \in Seq(E), e \in E : s \in T => Append(s, e) \in T
  PROVE  \A s \in Seq(E) : s \in T
<1> DEFINE U == {n \in Nat : \A s \in Seq(E) : Len(s) = n => s \in T}
<1>1. 0 \in U
  <2>1. \A s \in Seq(E) : Len(s) = 0 => s = <<>>
    OBVIOUS
  <2> QED BY <2>1
<1>2. ASSUME NEW n \in Nat, n \in U PROVE n + 1 \in U
  <2> SUFFICES ASSUME NEW s \in Seq(E), Len(s) = n + 1 PROVE s \in T
    OBVIOUS
  <2> DEFINE f == SubSeq(s, 1, n)
  <2>1. f \in Seq(E) /\ Len(f) = n /\ s[n + 1] \in E
    OBVIOUS
  <2>2. s = Append(f, s[n + 1])
    OBVIOUS
  <2> QED BY <1>2, <2>1, <2>2
<1> HIDE DEF U
<1>3. \A n \in Nat : n \in U
  BY <1>1, <1>2, Induct
<1> QED BY <1>3 DEF U

LEMMA Greatest ==
  ASSUME NEW k \in Nat, NEW s \in SUBSET (1 .. k), s # {}
  PROVE  Max(s) \in s /\ \A y \in s : y <= Max(s)
<1> DEFINE U == {k - x : x \in s}
<1>1. PICK u \in U : \A y \in U : u <= y
  <2>1. \A x \in s : k - x \in Nat
    OBVIOUS
  <2>2. U \in SUBSET Nat /\ U # {}
    BY <2>1
  <2> HIDE DEF U
  <2> QED BY <2>2, Least
<1>2. PICK x \in s : u = k - x
  BY <1>1
<1>3. ASSUME NEW y \in s PROVE x >= y
  <2>1. u <= k - y
    BY <1>1
  <2> QED BY <1>2, <2>1
<1>4. Max(s) \in s /\ \A y \in s : Max(s) >= y
  BY <1>3 DEF Max
<1> QED BY <1>4

(* A fold from the left over a sequence, as a function of the prefixes.     *)
Folding(g, step, base, seq, k) ==
  \A s \in SUBSET (1 .. k) :
    g[s] = IF s = {} THEN base ELSE step[<<g[s \ {Max(s)}], seq[Max(s)]>>]

LEMMA FoldExists ==
  ASSUME NEW V, NEW E, NEW step \in [V \X E -> V], NEW base \in V, NEW n \in Nat,
         NEW seq \in [1 .. n -> E]
  PROVE  \E g \in [SUBSET (1 .. n) -> V] : Folding(g, step, base, seq, n)
<1> DEFINE Folds(k) == \E g \in [SUBSET (1 .. k) -> V] : Folding(g, step, base, seq, k)
           U == {k \in Nat : k <= n => Folds(k)}
<1>1. 0 \in U
  <2> DEFINE g == [s \in SUBSET (1 .. 0) |-> base]
  <2>1. g \in [SUBSET (1 .. 0) -> V] /\ Folding(g, step, base, seq, 0)
    BY DEF Folding
  <2> QED BY <2>1
<1>2. ASSUME NEW k \in Nat, k <= n => Folds(k), k + 1 <= n PROVE Folds(k + 1)
  <2> DEFINE K == 1 .. (k + 1)
  <2>0. k + 1 <= n
    BY <1>2
  <2>1. PICK f \in [SUBSET (1 .. k) -> V] : Folding(f, step, base, seq, k)
    <3>1. k <= n
      BY <1>2
    <3> QED BY <1>2, <3>1
  <2> DEFINE g == [s \in SUBSET K |->
                     IF s = {} THEN base ELSE step[<<f[s \ {Max(s)}], seq[Max(s)]>>]]
  <2>2. ASSUME NEW s \in SUBSET K, s # {}
        PROVE  Max(s) \in 1 .. n /\ s \ {Max(s)} \in SUBSET (1 .. k)
    <3>1. k + 1 \in Nat /\ s \in SUBSET (1 .. (k + 1))
      OBVIOUS
    <3>2. Max(s) \in s /\ \A y \in s : y <= Max(s)
      BY <2>2, <3>1, Greatest
    <3>3. \A y \in s : y \in Nat /\ 1 <= y /\ y <= k + 1
      BY <3>1
    <3>4. PICK m : m = Max(s)
      OBVIOUS
    <3>5. m \in s /\ m \in Nat /\ 1 <= m /\ m <= k + 1 /\ \A y \in s : y <= m
      BY <3>2, <3>3, <3>4
    <3>6. m \in 1 .. n
      BY <2>0, <3>5
    <3>7. ASSUME NEW y \in s, y # m PROVE y \in 1 .. k
      <4>1. y \in Nat /\ 1 <= y /\ y <= m
        BY <3>3, <3>5
      <4> QED BY <3>5, <3>7, <4>1
    <3> QED BY <3>4, <3>6, <3>7
  <2>3. g \in [SUBSET K -> V]
    <3>1. \A s \in SUBSET K : s # {} => <<f[s \ {Max(s)}], seq[Max(s)]>> \in V \X E
      BY <2>2
    <3> QED BY <3>1
  <2>4. ASSUME NEW s \in SUBSET (1 .. k) PROVE g[s] = f[s]
    <3>1. s \in SUBSET K
      OBVIOUS
    <3>2. f[s] = IF s = {} THEN base ELSE step[<<f[s \ {Max(s)}], seq[Max(s)]>>]
      BY <2>1 DEF Folding
    <3> QED BY <3>1, <3>2
  <2>5. Folding(g, step, base, seq, k + 1)
    BY <2>2, <2>4 DEF Folding
  <2> HIDE DEF g
  <2> QED BY <2>3, <2>5
<1> HIDE DEF Folds
<1>3. \A k \in Nat : k \in U => k + 1 \in U
  BY <1>2
<1> HIDE DEF U
<1>4. n \in U
  BY <1>1, <1>3, Induct
<1>5. Folds(n)
  BY <1>4 DEF U
<1> QED BY <1>5 DEF Folds

(* What goes on from the same elements as a fold does, is that fold.       *)
Follows(h, g, n) ==
  \A s \in SUBSET (1 .. n) : (s = {} \/ h[s \ {Max(s)}] = g[s \ {Max(s)}]) => h[s] = g[s]

LEMMA FoldAlone ==
  ASSUME NEW n \in Nat, NEW g, NEW h, Follows(h, g, n)
  PROVE  \A s \in SUBSET (1 .. n) : h[s] = g[s]
<1> DEFINE Same(k) == \A s \in SUBSET (1 .. k) : h[s] = g[s]
           U == {k \in Nat : k <= n => Same(k)}
<1>0. \A s \in SUBSET (1 .. n) : (s = {} \/ h[s \ {Max(s)}] = g[s \ {Max(s)}]) => h[s] = g[s]
  BY DEF Follows
<1>1. 0 \in U
  <2>1. ASSUME NEW s \in SUBSET (1 .. 0) PROVE s \in SUBSET (1 .. n) /\ s = {}
    OBVIOUS
  <2> QED BY <1>0, <2>1
<1>2. ASSUME NEW k \in Nat, k <= n => Same(k), k + 1 <= n PROVE Same(k + 1)
  <2>0. k <= n /\ k + 1 \in Nat
    BY <1>2
  <2> SUFFICES ASSUME NEW s \in SUBSET (1 .. (k + 1)), s # {} PROVE h[s] = g[s]
    <3>1. {} \in SUBSET (1 .. n)
      OBVIOUS
    <3> QED BY <1>0, <3>1
  <2>1. PICK m : m = Max(s)
    OBVIOUS
  <2>2. m \in s /\ \A y \in s : y <= m
    BY <2>0, <2>1, Greatest
  <2>3. ASSUME NEW y \in s PROVE y \in 1 .. n /\ (y # m => y \in 1 .. k)
    <3>1. y \in Nat /\ m \in Nat /\ 1 <= y /\ y <= m /\ m <= k + 1
      BY <2>2
    <3> QED BY <1>2, <3>1
  <2>4. s \in SUBSET (1 .. n) /\ s \ {m} \in SUBSET (1 .. k)
    BY <2>3
  <2>5. h[s \ {m}] = g[s \ {m}]
    BY <1>2, <2>0, <2>4
  <2> QED BY <1>0, <2>1, <2>4, <2>5
<1> HIDE DEF Same
<1>3. \A k \in Nat : k \in U => k + 1 \in U
  BY <1>2
<1> HIDE DEF U
<1>4. n \in U
  BY <1>1, <1>3, Induct
<1>5. Same(n)
  BY <1>4 DEF U
<1> QED BY <1>5 DEF Same

(* The same along the prefixes alone.                                      *)
Trace(w, step, base, seq, n) ==
  /\ w[0] = base /\ \A i \in 1 .. n : w[i] = step[<<w[i - 1], seq[i]>>]

Along(g, n) == [i \in 0 .. n |-> g[1 .. i]]

LEMMA TraceOf ==
  ASSUME NEW step, NEW base, NEW n \in Nat, NEW seq, NEW g, Folding(g, step, base, seq, n)
  PROVE  Trace(Along(g, n), step, base, seq, n) /\ Along(g, n)[n] = g[1 .. n]
<1>1. \A i \in 0 .. n : 1 .. i \in SUBSET (1 .. n)
  OBVIOUS
<1>2. ASSUME NEW i \in 1 .. n
      PROVE  1 .. i # {} /\ Max(1 .. i) = i /\ (1 .. i) \ {i} = 1 .. (i - 1)
  <2>1. /\ i \in 1 .. i /\ 1 .. i # {} /\ (1 .. i) \ {i} = 1 .. (i - 1) /\ i \in Nat
        /\ 1 .. i \in SUBSET (1 .. i)
    OBVIOUS
  <2>2. Max(1 .. i) \in 1 .. i /\ \A y \in 1 .. i : y <= Max(1 .. i)
    BY <2>1, Greatest
  <2> QED BY <2>1, <2>2
<1>3. g[1 .. 0] = base
  <2>1. 1 .. 0 = {}
    OBVIOUS
  <2> QED BY <1>1, <2>1 DEF Folding
<1>4. ASSUME NEW i \in 1 .. n PROVE g[1 .. i] = step[<<g[1 .. (i - 1)], seq[i]>>]
  <2> DEFINE s == 1 .. i
  <2>1. s \in SUBSET (1 .. n)
    BY <1>1
  <2>2. g[s] = IF s = {} THEN base ELSE step[<<g[s \ {Max(s)}], seq[Max(s)]>>]
    BY <2>1 DEF Folding
  <2> QED BY <1>2, <2>2
<1> QED BY <1>1, <1>3, <1>4 DEF Trace, Along

LEMMA TracesAgree ==
  ASSUME NEW w, NEW v, NEW step, NEW base, NEW seq, NEW n \in Nat,
         Trace(w, step, base, seq, n), Trace(v, step, base, seq, n)
  PROVE  w[n] = v[n]
<1> DEFINE U == {k \in Nat : k <= n => w[k] = v[k]}
<1>1. 0 \in U
  BY DEF Trace
<1>2. ASSUME NEW k \in Nat, k \in U PROVE k + 1 \in U
  <2> SUFFICES ASSUME k + 1 <= n PROVE w[k + 1] = v[k + 1]
    OBVIOUS
  <2>1. k + 1 \in 1 .. n /\ k + 1 - 1 = k
    OBVIOUS
  <2>2. w[k] = v[k]
    BY <1>2
  <2>3. w[k + 1] = step[<<w[k], seq[k + 1]>>] /\ v[k + 1] = step[<<v[k], seq[k + 1]>>]
    BY <2>1 DEF Trace
  <2> QED BY <2>2, <2>3
<1> HIDE DEF U
<1>3. n \in U
  BY <1>1, <1>2, Induct
<1> QED BY <1>3 DEF U

-----------------------------------------------------------------------------
(* What comes before the last element, and concatenation.                  *)
LEMMA TraceShort ==
  ASSUME NEW w, NEW step, NEW base, NEW n \in Nat, NEW m \in 0 .. n, NEW seq, NEW t,
         Trace(w, step, base, t, n), \A i \in 1 .. m : t[i] = seq[i]
  PROVE  Trace(w, step, base, seq, m)
<1>1. \A i \in 1 .. m : i \in 1 .. n
  OBVIOUS
<1> QED BY <1>1 DEF Trace

(* A fold over a sequence is the end of a trace.  For an operator, the     *)
(* function that FoldLeft chooses is compared with the one that is there:  *)
(* where both have come from the same elements, they go on the same way.   *)
IsFold(v, step, base, seq) ==
  \E w : Trace(w, step, base, seq, Len(seq)) /\ v = w[Len(seq)]

Guides(g, V, E, step, base, seq) ==
  /\ g \in [SUBSET DOMAIN seq -> V] /\ g[{}] = base
  /\ \A s \in SUBSET DOMAIN seq :
       s # {} => /\ seq[Max(s)] \in E /\ s \ {Max(s)} \in SUBSET DOMAIN seq
                 /\ g[s] = step[<<g[s \ {Max(s)}], seq[Max(s)]>>]
  /\ \A h : Follows(h, g, Len(seq)) =>
       IsFold(h[DOMAIN seq], step, base, seq) /\ h[DOMAIN seq] \in V

LEMMA FoldGiven ==
  ASSUME NEW V, NEW E, NEW step \in [V \X E -> V], NEW base \in V, NEW seq \in Seq(E)
  PROVE  \E g : Guides(g, V, E, step, base, seq)
<1> DEFINE n == Len(seq)
<1>0. n \in Nat
  OBVIOUS
<1>1. DOMAIN seq = 1 .. n /\ seq \in [1 .. n -> E]
  OBVIOUS
<1> HIDE DEF n
<1>2. PICK g \in [SUBSET (1 .. n) -> V] : Folding(g, step, base, seq, n)
  BY <1>0, <1>1, FoldExists
<1>3. g[{}] = base
  <2>1. {} \in SUBSET (1 .. n)
    OBVIOUS
  <2> QED BY <1>2, <2>1 DEF Folding
<1>4. ASSUME NEW s \in SUBSET (1 .. n), s # {}
      PROVE  /\ seq[Max(s)] \in E /\ s \ {Max(s)} \in SUBSET (1 .. n)
             /\ g[s] = step[<<g[s \ {Max(s)}], seq[Max(s)]>>]
  <2>1. Max(s) \in s
    BY <1>0, <1>4, Greatest
  <2> QED BY <1>1, <1>2, <1>4, <2>1 DEF Folding
<1>5. ASSUME NEW h, Follows(h, g, n)
      PROVE  IsFold(h[1 .. n], step, base, seq) /\ h[1 .. n] \in V
  <2>1. \A s \in SUBSET (1 .. n) : h[s] = g[s]
    BY <1>0, <1>5, FoldAlone
  <2>2. Trace(Along(g, n), step, base, seq, n) /\ Along(g, n)[n] = g[1 .. n]
    BY <1>0, <1>2, TraceOf
  <2> QED BY <2>1, <2>2 DEF IsFold, n
<1> QED BY <1>1, <1>2, <1>3, <1>4, <1>5 DEF n, Guides

LEMMA FoldNone ==
  ASSUME NEW v, NEW step, NEW base, IsFold(v, step, base, <<>>) PROVE v = base
<1>1. Len(<<>>) = 0
  OBVIOUS
<1> QED BY <1>1 DEF IsFold, Trace

LEMMA FoldOne ==
  ASSUME NEW E, NEW seq \in Seq(E), NEW e \in E, NEW step, NEW base,
         NEW v, IsFold(v, step, base, seq), NEW u, IsFold(u, step, base, Append(seq, e))
  PROVE  u = step[<<v, e>>]
<1> DEFINE n == Len(seq)
           t == Append(seq, e)
<1>0. n \in Nat
  OBVIOUS
<1>1. /\ Len(t) = n + 1 /\ t[n + 1] = e /\ \A i \in 1 .. n : t[i] = seq[i]
  OBVIOUS
<1>2. PICK x : Trace(x, step, base, seq, n) /\ v = x[n]
  BY DEF IsFold
<1> HIDE DEF t, n
<1>3. PICK w : Trace(w, step, base, t, n + 1) /\ u = w[n + 1]
  BY <1>1 DEF IsFold, t
<1>4. Trace(w, step, base, seq, n)
  <2>1. n + 1 \in Nat /\ n \in 0 .. n + 1
    BY <1>0
  <2> QED BY <1>1, <1>3, <2>1, TraceShort
<1>5. w[n] = v
  BY <1>0, <1>2, <1>4, TracesAgree
<1>6. w[n + 1] = step[<<w[n], e>>]
  <2>1. n + 1 \in 1 .. n + 1 /\ (n + 1) - 1 = n
    BY <1>0
  <2> QED BY <1>1, <1>3, <2>1 DEF Trace
<1> QED BY <1>3, <1>5, <1>6

ConcatStep(E) == [x \in Seq(E) \X Seq(E) |-> x[1] \o x[2]]

LEMMA FlatTrace ==
  ASSUME NEW E, NEW ss \in Seq(Seq(E))
  PROVE  \E w \in [0 .. Len(ss) -> Seq(E)] :
           Trace(w, ConcatStep(E), <<>>, ss, Len(ss)) /\ FlattenSeq(ss) = w[Len(ss)]
<1> DEFINE n == Len(ss)
           Body(f) == [i \in 1 .. Len(ss) |-> IF i = 1 THEN ss[i] ELSE f[i - 1] \o ss[i]]
           flat == CHOOSE f : f = Body(f)
<1>0. n \in Nat
  OBVIOUS
<1>1. n # 0 => FlattenSeq(ss) = flat[n]
  BY DEF FlattenSeq
<1>2. ss \in [1 .. n -> Seq(E)] /\ (n = 0 => ss = <<>> /\ FlattenSeq(ss) = <<>>)
  BY DEF FlattenSeq
<1>3. ConcatStep(E) \in [Seq(E) \X Seq(E) -> Seq(E)] /\ <<>> \in Seq(E)
  BY DEF ConcatStep
<1> HIDE DEF n
<1>4. PICK g \in [SUBSET (1 .. n) -> Seq(E)] : Folding(g, ConcatStep(E), <<>>, ss, n)
  BY <1>0, <1>2, <1>3, FoldExists
<1>5. Trace(Along(g, n), ConcatStep(E), <<>>, ss, n)
  BY <1>0, <1>4, TraceOf
<1>6. Along(g, n) \in [0 .. n -> Seq(E)]
  <2>1. \A i \in 0 .. n : 1 .. i \in SUBSET (1 .. n)
    BY <1>0
  <2> QED BY <2>1 DEF Along
<1>7. PICK w \in [0 .. n -> Seq(E)] : Trace(w, ConcatStep(E), <<>>, ss, n)
  BY <1>5, <1>6
<1>8. w[0] = <<>> /\ \A i \in 1 .. n : w[i] = w[i - 1] \o ss[i]
  <2>1. \A i \in 1 .. n : i - 1 \in 0 .. n /\ w[i - 1] \in Seq(E) /\ ss[i] \in Seq(E)
    BY <1>0, <1>2, <1>7
  <2> QED BY <1>7, <2>1 DEF Trace, ConcatStep
<1>9. CASE n = 0
  BY <1>2, <1>7, <1>8, <1>9 DEF n
<1>10. CASE n # 0
  <2> DEFINE f == [i \in 1 .. n |-> w[i]]
  <2>1. f = Body(f)
    <3>1. ASSUME NEW i \in 1 .. n PROVE f[i] = IF i = 1 THEN ss[i] ELSE f[i - 1] \o ss[i]
      <4>1. CASE i = 1
        <5>1. 1 \in 1 .. n /\ 1 - 1 = 0
          BY <4>1
        <5>2. w[1] = w[0] \o ss[1] /\ ss[1] \in Seq(E)
          BY <1>2, <1>8, <5>1
        <5> QED BY <1>8, <4>1, <5>1, <5>2
      <4>2. CASE i # 1
        <5>1. i - 1 \in 1 .. n
          BY <1>0, <4>2
        <5> QED BY <1>8, <4>2, <5>1
      <4> QED BY <4>1, <4>2
    <3> QED BY <3>1 DEF n
  <2>2. PICK h : h = Body(h) /\ FlattenSeq(ss) = h[n]
    BY <1>1, <1>10, <2>1
  <2>3. \A i \in 1 .. n : h[i] = IF i = 1 THEN ss[i] ELSE h[i - 1] \o ss[i]
    BY <2>2 DEF n
  <2>4. \A i \in 1 .. n : f[i] = IF i = 1 THEN ss[i] ELSE f[i - 1] \o ss[i]
    BY <2>1 DEF n
  <2> HIDE DEF Body, f
  <2> DEFINE U == {k \in Nat : k + 1 <= n => h[k + 1] = f[k + 1]}
  <2>5. 0 \in U
    BY <1>0, <2>3, <2>4
  <2>6. ASSUME NEW k \in Nat, k \in U PROVE k + 1 \in U
    <3> SUFFICES ASSUME k + 1 + 1 <= n PROVE h[k + 1 + 1] = f[k + 1 + 1]
      OBVIOUS
    <3>1. h[k + 1] = f[k + 1]
      BY <1>0, <2>6
    <3>2. k + 1 + 1 \in 1 .. n /\ k + 1 + 1 # 1 /\ (k + 1 + 1) - 1 = k + 1
      BY <1>0
    <3> QED BY <2>3, <2>4, <3>1, <3>2
  <2> HIDE DEF U
  <2>7. n - 1 \in U
    <3>1. n - 1 \in Nat
      BY <1>0, <1>10
    <3> QED BY <2>5, <2>6, <3>1, Induct
  <2>8. h[n] = w[n]
    BY <1>0, <1>10, <2>7 DEF U, f
  <2> QED BY <1>7, <2>2, <2>8 DEF n
<1> QED BY <1>9, <1>10

LEMMA Flattened ==
  ASSUME NEW E, NEW ss \in Seq(Seq(E)) PROVE FlattenSeq(ss) \in Seq(E)
<1>1. PICK w \in [0 .. Len(ss) -> Seq(E)] : FlattenSeq(ss) = w[Len(ss)]
  BY FlatTrace
<1> QED BY <1>1

LEMMA FlatEmpty == FlattenSeq(<<>>) = <<>>
  BY DEF FlattenSeq

LEMMA FlatAppend ==
  ASSUME NEW E, NEW ss \in Seq(Seq(E)), NEW s \in Seq(E)
  PROVE  FlattenSeq(Append(ss, s)) = FlattenSeq(ss) \o s
<1> DEFINE n == Len(ss)
           t == Append(ss, s)
<1>1. n \in Nat /\ t \in Seq(Seq(E)) /\ Len(t) = n + 1 /\ t[n + 1] = s
      /\ \A i \in 1 .. n : t[i] = ss[i]
  OBVIOUS
<1>0. n \in Nat
  BY <1>1
<1> HIDE DEF t
<1>2. PICK v \in [0 .. n -> Seq(E)] :
        Trace(v, ConcatStep(E), <<>>, ss, n) /\ FlattenSeq(ss) = v[n]
  BY FlatTrace
<1> HIDE DEF n
<1>3. PICK w \in [0 .. n + 1 -> Seq(E)] :
        Trace(w, ConcatStep(E), <<>>, t, n + 1) /\ FlattenSeq(t) = w[n + 1]
  BY <1>1, FlatTrace
<1>4. Trace(w, ConcatStep(E), <<>>, ss, n)
  <2>1. n + 1 \in Nat /\ n \in 0 .. n + 1
    BY <1>1
  <2> QED BY <1>1, <1>3, <2>1, TraceShort
<1>5. w[n] = v[n]
  BY <1>1, <1>2, <1>4, TracesAgree
<1>6. w[n + 1] = ConcatStep(E)[<<w[n], s>>] /\ w[n] \in Seq(E)
  <2>1. n + 1 \in 1 .. n + 1 /\ (n + 1) - 1 = n /\ n \in 0 .. n + 1
    BY <1>0
  <2> QED BY <1>1, <1>3, <2>1 DEF Trace
<1>7. w[n + 1] = w[n] \o s
  BY <1>6 DEF ConcatStep
<1> QED BY <1>2, <1>3, <1>5, <1>7 DEF t

LEMMA FlatConcat ==
  ASSUME NEW E, NEW ss \in Seq(Seq(E)), NEW ts \in Seq(Seq(E))
  PROVE  FlattenSeq(ss \o ts) = FlattenSeq(ss) \o FlattenSeq(ts)
<1> DEFINE T == {us \in Seq(Seq(E)) : FlattenSeq(ss \o us) = FlattenSeq(ss) \o FlattenSeq(us)}
<1>1. <<>> \in T
  <2>1. ss \o <<>> = ss /\ FlattenSeq(ss) \o <<>> = FlattenSeq(ss)
    BY Flattened
  <2>2. FlattenSeq(ss \o <<>>) = FlattenSeq(ss) \o FlattenSeq(<<>>)
    BY <2>1, FlatEmpty, Zenon
  <2> QED BY <2>2
<1>2. ASSUME NEW us \in Seq(Seq(E)), NEW u \in Seq(E), us \in T PROVE Append(us, u) \in T
  <2>1. ss \o Append(us, u) = Append(ss \o us, u) /\ ss \o us \in Seq(Seq(E))
    OBVIOUS
  <2>2. FlattenSeq(Append(ss \o us, u)) = FlattenSeq(ss \o us) \o u
    BY <2>1, FlatAppend
  <2>3. FlattenSeq(Append(us, u)) = FlattenSeq(us) \o u
    BY FlatAppend
  <2>4. FlattenSeq(ss) \in Seq(E) /\ FlattenSeq(us) \in Seq(E)
    BY Flattened
  <2>5. (FlattenSeq(ss) \o FlattenSeq(us)) \o u = FlattenSeq(ss) \o (FlattenSeq(us) \o u)
    BY <2>4
  <2>6. FlattenSeq(ss \o us) = FlattenSeq(ss) \o FlattenSeq(us)
    BY <1>2
  <2>7. FlattenSeq(ss \o Append(us, u)) = FlattenSeq(ss) \o FlattenSeq(Append(us, u))
    BY <2>1, <2>2, <2>3, <2>5, <2>6, Zenon
  <2>8. Append(us, u) \in Seq(Seq(E))
    OBVIOUS
  <2> QED BY <2>7, <2>8
<1> HIDE DEF T
<1>3. ts \in T
  BY <1>1, <1>2, SeqInduct
<1> QED BY <1>3 DEF T

(* To flatten twice is to flatten the flattened.                           *)
Flats(xss) == [i \in DOMAIN xss |-> FlattenSeq(xss[i])]

LEMMA FlatsTyped ==
  ASSUME NEW E, NEW xss \in Seq(Seq(Seq(E)))
  PROVE  Flats(xss) \in Seq(Seq(E)) /\ DOMAIN Flats(xss) = DOMAIN xss
<1>1. \A i \in DOMAIN xss : FlattenSeq(xss[i]) \in Seq(E)
  BY Flattened
<1>2. DOMAIN xss = 1 .. Len(xss) /\ Len(xss) \in Nat
  OBVIOUS
<1> QED BY <1>1, <1>2 DEF Flats

LEMMA FlatFlat ==
  ASSUME NEW E, NEW xss \in Seq(Seq(Seq(E)))
  PROVE  FlattenSeq(FlattenSeq(xss)) = FlattenSeq(Flats(xss))
<1> DEFINE T == {yss \in Seq(Seq(Seq(E))) : FlattenSeq(FlattenSeq(yss)) = FlattenSeq(Flats(yss))}
<1>1. <<>> \in T
  <2>1. Flats(<<>>) = <<>>
    BY DEF Flats
  <2> QED BY <2>1, FlatEmpty
<1>2. ASSUME NEW yss \in Seq(Seq(Seq(E))), NEW ys \in Seq(Seq(E)), yss \in T
      PROVE  Append(yss, ys) \in T
  <2>1. Append(yss, ys) \in Seq(Seq(Seq(E))) /\ FlattenSeq(yss) \in Seq(Seq(E))
    BY Flattened
  <2>2. FlattenSeq(Append(yss, ys)) = FlattenSeq(yss) \o ys
    BY FlatAppend
  <2>3. FlattenSeq(FlattenSeq(yss) \o ys) = FlattenSeq(FlattenSeq(yss)) \o FlattenSeq(ys)
    BY <2>1, FlatConcat
  <2>4. Flats(yss) \in Seq(Seq(E)) /\ FlattenSeq(ys) \in Seq(E)
    BY FlatsTyped, Flattened
  <2>5. Flats(Append(yss, ys)) = Append(Flats(yss), FlattenSeq(ys))
    <3>1. DOMAIN Flats(yss) = 1 .. Len(yss) /\ Len(Flats(yss)) = Len(yss) /\ Len(yss) \in Nat
      BY <2>4 DEF Flats
    <3> QED BY <2>1, <2>4, <3>1 DEF Flats
  <2>6. FlattenSeq(Append(Flats(yss), FlattenSeq(ys))) = FlattenSeq(Flats(yss)) \o FlattenSeq(ys)
    BY <2>4, FlatAppend
  <2> QED BY <1>2, <2>1, <2>2, <2>3, <2>5, <2>6
<1> HIDE DEF T
<1>3. xss \in T
  BY <1>1, <1>2, SeqInduct
<1> QED BY <1>3 DEF T

(* The elements of a flattened sequence, and that each is there once.      *)
Together(ss) == UNION {Range(ss[i]) : i \in DOMAIN ss}
Parted(ss) == /\ \A i \in DOMAIN ss : IsInjective(ss[i])
              /\ \A i, j \in DOMAIN ss : i # j => Range(ss[i]) \cap Range(ss[j]) = {}

LEMMA ConcatOnce ==
  ASSUME NEW E, NEW s \in Seq(E), NEW t \in Seq(E)
  PROVE  /\ Range(s \o t) = Range(s) \cup Range(t)
         /\ IsInjective(s) /\ IsInjective(t) /\ Range(s) \cap Range(t) = {} => IsInjective(s \o t)
<1> DEFINE n == Len(s)
           m == Len(t)
           u == s \o t
<1>1. /\ n \in Nat /\ m \in Nat /\ DOMAIN s = 1 .. n /\ DOMAIN t = 1 .. m
      /\ DOMAIN u = 1 .. (n + m) /\ \A i \in 1 .. (n + m) : u[i] = IF i <= n THEN s[i] ELSE t[i - n]
  OBVIOUS
<1> HIDE DEF n, m, u
<1>2. \A i \in DOMAIN u : \/ i \in DOMAIN s /\ u[i] = s[i]
                          \/ i - n \in DOMAIN t /\ i > n /\ u[i] = t[i - n]
  BY <1>1
<1>3. \A i \in DOMAIN s : i \in DOMAIN u /\ u[i] = s[i]
  BY <1>1
<1>4. \A i \in DOMAIN t : n + i \in DOMAIN u /\ u[n + i] = t[i]
  BY <1>1
<1>5. Range(u) = Range(s) \cup Range(t)
  BY <1>2, <1>3, <1>4 DEF Range
<1>6. ASSUME IsInjective(s), IsInjective(t), Range(s) \cap Range(t) = {}, NEW a \in DOMAIN u,
             NEW b \in DOMAIN u, u[a] = u[b]
      PROVE  a = b
  <2>0. a \in Int /\ b \in Int
    BY <1>1
  <2>1. CASE a \in DOMAIN s /\ u[a] = s[a] /\ b \in DOMAIN s /\ u[b] = s[b]
    BY <1>6, <2>1 DEF IsInjective
  <2>2. CASE a - n \in DOMAIN t /\ u[a] = t[a - n] /\ b - n \in DOMAIN t /\ u[b] = t[b - n]
    <3>1. a - n = b - n
      BY <1>6, <2>2 DEF IsInjective
    <3> QED BY <1>1, <2>0, <3>1
  <2>3. CASE a \in DOMAIN s /\ u[a] = s[a] /\ b - n \in DOMAIN t /\ u[b] = t[b - n]
    BY <1>6, <2>3 DEF Range
  <2>4. CASE a - n \in DOMAIN t /\ u[a] = t[a - n] /\ b \in DOMAIN s /\ u[b] = s[b]
    BY <1>6, <2>4 DEF Range
  <2> QED BY <1>2, <2>1, <2>2, <2>3, <2>4
<1> QED BY <1>5, <1>6 DEF u, IsInjective

LEMMA FlatOnce ==
  ASSUME NEW E, NEW ss \in Seq(Seq(E))
  PROVE  /\ Range(FlattenSeq(ss)) = Together(ss)
         /\ Parted(ss) => IsInjective(FlattenSeq(ss))
<1> DEFINE T == {us \in Seq(Seq(E)) : /\ Range(FlattenSeq(us)) = Together(us)
                                      /\ Parted(us) => IsInjective(FlattenSeq(us))}
<1>1. <<>> \in T
  BY FlatEmpty DEF Range, Together, IsInjective
<1>2. ASSUME NEW us \in Seq(Seq(E)), NEW u \in Seq(E), us \in T PROVE Append(us, u) \in T
  <2> DEFINE v == Append(us, u)
             n == Len(us)
  <2>1. /\ v \in Seq(Seq(E)) /\ n \in Nat /\ DOMAIN us = 1 .. n /\ DOMAIN v = 1 .. (n + 1)
        /\ v[n + 1] = u /\ \A i \in DOMAIN us : v[i] = us[i]
    OBVIOUS
  <2>2. FlattenSeq(v) = FlattenSeq(us) \o u /\ FlattenSeq(us) \in Seq(E)
    BY FlatAppend, Flattened
  <2> HIDE DEF v, n
  <2>3. Together(v) = Together(us) \cup Range(u)
    <3>1. \A i \in DOMAIN v : i \in DOMAIN us \/ i = n + 1
      BY <2>1
    <3>2. DOMAIN us \subseteq DOMAIN v /\ n + 1 \in DOMAIN v
      BY <2>1
    <3> QED BY <2>1, <3>1, <3>2 DEF Together
  <2>4. Range(FlattenSeq(us)) = Together(us)
    BY <1>2
  <2>5. Range(FlattenSeq(v)) = Together(v)
    BY <2>2, <2>3, <2>4, ConcatOnce
  <2>6. ASSUME Parted(v) PROVE IsInjective(FlattenSeq(v))
    <3>1. DOMAIN us \subseteq DOMAIN v /\ n + 1 \in DOMAIN v /\ n + 1 \notin DOMAIN us
      BY <2>1
    <3>2. Parted(us)
      BY <2>1, <2>6, <3>1 DEF Parted
    <3>3. IsInjective(u)
      BY <2>1, <2>6, <3>1 DEF Parted
    <3>4. \A i \in DOMAIN us : Range(us[i]) \cap Range(u) = {}
      BY <2>1, <2>6, <3>1 DEF Parted
    <3>5. Range(FlattenSeq(us)) \cap Range(u) = {}
      BY <2>4, <3>4 DEF Together
    <3>6. IsInjective(FlattenSeq(us))
      BY <1>2, <3>2
    <3> QED BY <2>2, <3>3, <3>5, <3>6, ConcatOnce
  <2> QED BY <2>1, <2>5, <2>6 DEF v
<1> HIDE DEF T
<1>3. ss \in T
  BY <1>1, <1>2, SeqInduct
<1> QED BY <1>3 DEF T

(* What SetToSeq makes of a finite set.                                    *)
LEMMA Listed ==
  ASSUME NEW S, IsFiniteSet(S)
  PROVE  /\ SetToSeq(S) \in Seq(S) /\ Len(SetToSeq(S)) = Cardinality(S)
         /\ IsInjective(SetToSeq(S)) /\ Range(SetToSeq(S)) = S
<1> DEFINE n == Cardinality(S)
           f == SetToSeq(S)
<1>1. n \in Nat /\ ExistsBijection(1 .. n, S)
  BY FS_CardinalityType
<1>2. \E g \in [1 .. n -> S] : IsInjective(g)
  BY <1>1 DEF ExistsBijection, Bijection, Injection
<1>3. f \in [1 .. n -> S] /\ IsInjective(f)
  BY <1>2 DEF SetToSeq
<1> HIDE DEF f
<1>4. f \in Injection(1 .. n, S)
  BY <1>3 DEF Injection
<1>5. Cardinality(1 .. n) = n
  BY <1>1, FS_Interval
<1>6. f \in Surjection(1 .. n, S)
  BY <1>4, <1>5, FS_Injection
<1>7. f \in Seq(S) /\ Len(f) = n
  BY <1>1, <1>3
<1>8. Range(f) = S
  BY <1>3, <1>6 DEF Surjection, Range
<1> QED BY <1>3, <1>7, <1>8 DEF f

LEMMA Counted ==
  ASSUME NEW E, NEW s \in Seq(E), IsInjective(s)
  PROVE  Len(s) = Cardinality(Range(s))
<1> DEFINE n == Len(s)
<1>1. n \in Nat /\ s \in [1 .. n -> Range(s)] /\ DOMAIN s = 1 .. n
  BY DEF Range
<1> HIDE DEF n
<1>2. s \in Injection(1 .. n, Range(s))
  BY <1>1 DEF Injection
<1>3. s \in Surjection(1 .. n, Range(s))
  BY <1>1 DEF Surjection, Range
<1>4. ExistsBijection(1 .. n, Range(s))
  BY <1>2, <1>3 DEF ExistsBijection, Bijection
<1> QED BY <1>1, <1>4, FS_CountingElements DEF n

=============================================================================
