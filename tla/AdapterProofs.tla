---------------------------- MODULE AdapterProofs ----------------------------
(***************************************************************************)
(* The two adapters the handler drives, and what it makes of them.         *)
(*                                                                         *)
(* First the plan of the periodic messages.  Then the STN engine, for any  *)
(* pids, chip memory and losses: what it monitors, what it shows, and what *)
(* its teardown leaves.  Then the DVI link, for any modules, polls, slots, *)
(* filters and disturbances: what the handler makes of the adapter, and    *)
(* what its polls are answered with.                                       *)
(***************************************************************************)
EXTENDS StnEngine, DviLink, FoldLemmas

-----------------------------------------------------------------------------
(***************************************************************************)
(* The plan of the periodic messages.  What the two folds of the packing   *)
(* make of one member more, what the packing makes of a bucket, the        *)
(* buckets of a tier, and the tiers of the plan.                           *)
(***************************************************************************)
CostStep == [x \in Nat \X DOMAIN Pids |-> x[1] + Cost(x[2])]

LEMMA CostNat == \A p \in DOMAIN Pids : Cost(p) \in Nat
  BY StnAssumption DEF Cost

LEMMA CostTrace ==
  ASSUME NEW ps \in Seq(DOMAIN Pids)
  PROVE  \E w \in [0 .. Len(ps) -> Nat] :
           Trace(w, CostStep, 0, ps, Len(ps)) /\ CostOf(ps) = w[Len(ps)]
<1> DEFINE n == Len(ps)
           Body(h) == [s \in SUBSET DOMAIN ps |->
                         IF s = {} THEN 0 ELSE h[s \ {Max(s)}] + Cost(ps[Max(s)])]
           iter == CHOOSE h : h = Body(h)
<1>1. CostOf(ps) = iter[DOMAIN ps]
  BY DEF CostOf, FoldLeft, MapThenFoldSet
<1>2. n \in Nat /\ DOMAIN ps = 1 .. n /\ ps \in [1 .. n -> DOMAIN Pids]
  OBVIOUS
<1>3. CostStep \in [Nat \X DOMAIN Pids -> Nat]
  BY CostNat DEF CostStep
<1>0. n \in Nat
  BY <1>2
<1> HIDE DEF n
<1>4. PICK g \in [SUBSET (1 .. n) -> Nat] : Folding(g, CostStep, 0, ps, n)
  BY <1>2, <1>3, FoldExists
<1>5. ASSUME NEW s \in SUBSET (1 .. n), s # {}
      PROVE  s \ {Max(s)} \in SUBSET (1 .. n) /\ ps[Max(s)] \in DOMAIN Pids
  BY <1>2, <1>5, Greatest
<1>6. ASSUME NEW s \in SUBSET (1 .. n)
      PROVE  g[s] = IF s = {} THEN 0 ELSE g[s \ {Max(s)}] + Cost(ps[Max(s)])
  BY <1>4, <1>5 DEF Folding, CostStep
<1>7. g = Body(g)
  BY <1>2, <1>4, <1>6
<1>8. PICK h : h = Body(h) /\ CostOf(ps) = h[1 .. n]
  BY <1>1, <1>2, <1>7
<1> HIDE DEF Body
<1>9. ASSUME NEW s \in SUBSET (1 .. n), s = {} \/ h[s \ {Max(s)}] = g[s \ {Max(s)}]
      PROVE  h[s] = g[s]
  <2>1. h[s] = IF s = {} THEN 0 ELSE h[s \ {Max(s)}] + Cost(ps[Max(s)])
    BY <1>2, <1>8 DEF Body
  <2> QED BY <1>6, <1>9, <2>1
<1>10. \A s \in SUBSET (1 .. n) : h[s] = g[s]
  <2>1. Follows(h, g, n)
    BY <1>9 DEF Follows
  <2> QED BY <1>0, <2>1, FoldAlone
<1>11. h[1 .. n] = g[1 .. n]
  BY <1>10
<1>12. Trace(Along(g, n), CostStep, 0, ps, n) /\ Along(g, n)[n] = g[1 .. n]
  BY <1>0, <1>4, TraceOf
<1>13. Along(g, n) \in [0 .. n -> Nat]
  <2>1. \A i \in 0 .. n : 1 .. i \in SUBSET (1 .. n)
    BY <1>0
  <2> QED BY <2>1 DEF Along
<1> QED BY <1>8, <1>11, <1>12, <1>13 DEF n

LEMMA CostAppend ==
  ASSUME NEW ps \in Seq(DOMAIN Pids), NEW p \in DOMAIN Pids
  PROVE  CostOf(ps) \in Nat /\ CostOf(Append(ps, p)) = CostOf(ps) + Cost(p)
<1> DEFINE n == Len(ps)
           qs == Append(ps, p)
<1>1. /\ n \in Nat /\ qs \in Seq(DOMAIN Pids) /\ Len(qs) = n + 1 /\ qs[n + 1] = p
      /\ \A i \in 1 .. n : qs[i] = ps[i]
  OBVIOUS
<1>0. n \in Nat
  BY <1>1
<1> HIDE DEF qs
<1>2. PICK v \in [0 .. n -> Nat] : Trace(v, CostStep, 0, ps, n) /\ CostOf(ps) = v[n]
  BY CostTrace
<1> HIDE DEF n
<1>3. PICK w \in [0 .. n + 1 -> Nat] : Trace(w, CostStep, 0, qs, n + 1) /\ CostOf(qs) = w[n + 1]
  BY <1>1, CostTrace
<1>4. Trace(w, CostStep, 0, ps, n)
  <2>1. n + 1 \in Nat /\ n \in 0 .. n + 1
    BY <1>1
  <2> QED BY <1>1, <1>3, <2>1, TraceShort
<1>5. w[n] = v[n]
  BY <1>1, <1>2, <1>4, TracesAgree
<1>6. w[n + 1] = CostStep[<<w[n], p>>] /\ w[n] \in Nat
  <2>1. n + 1 \in 1 .. n + 1 /\ (n + 1) - 1 = n /\ n \in 0 .. n + 1
    BY <1>0
  <2> QED BY <1>1, <1>3, <2>1 DEF Trace
<1>7. w[n + 1] = w[n] + Cost(p)
  BY <1>6 DEF CostStep
<1> QED BY <1>2, <1>3, <1>5, <1>6, <1>7 DEF qs

LEMMA CostEmpty == CostOf(<<>>) = 0
<1>1. <<>> \in Seq(DOMAIN Pids) /\ Len(<<>>) = 0
  OBVIOUS
<1>2. PICK w \in [0 .. 0 -> Nat] : Trace(w, CostStep, 0, <<>>, 0) /\ CostOf(<<>>) = w[0]
  BY <1>1, CostTrace
<1> QED BY <1>2 DEF Trace

-----------------------------------------------------------------------------
(* One member more: into the last message, or into one of its own.         *)
Put(acc, p) ==
  IF /\ acc # <<>> /\ Len(Last(acc)) < ChunkLimit[Pids[p].mode]
     /\ Room(Last(acc), p)
    THEN Front(acc) \o <<Append(Last(acc), p)>>
    ELSE Append(acc, <<p>>)
Packs(E) == Seq(Seq(E))
PutStep == [x \in Packs(DOMAIN Pids) \X DOMAIN Pids |-> Put(x[1], x[2])]

LEMMA FrontLast ==
  ASSUME NEW E, NEW s \in Seq(E), s # <<>>
  PROVE  /\ Front(s) \in Seq(E) /\ Last(s) \in E /\ s = Append(Front(s), Last(s))
         /\ \A e : Front(s) \o <<e>> = Append(Front(s), e)
<1>1. /\ Len(s) \in Nat /\ Len(s) >= 1 /\ 1 \in 1 .. Len(s) + 1
      /\ Len(s) - 1 \in 0 .. Len(s) /\ \A i \in 1 .. Len(s) : s[i] \in E
  OBVIOUS
<1>2. Front(s) \in Seq(E) /\ Len(Front(s)) = Len(s) - 1
      /\ \A i \in 1 .. Len(s) - 1 : Front(s)[i] = s[i]
  <2> DEFINE n == Len(s) - 1
  <2>2. n \in Int /\ n >= 0 /\ 1 \in Int /\ \A i \in 1 .. n : s[i] \in E
    BY <1>1
  <2>3. Front(s) = SubSeq(s, 1, n)
    BY DEF Front
  <2> HIDE DEF n
  <2>4. /\ SubSeq(s, 1, n) \in Seq(E)
        /\ Len(SubSeq(s, 1, n)) = IF 1 <= n THEN n - 1 + 1 ELSE 0
        /\ \A i \in 1 .. n - 1 + 1 : SubSeq(s, 1, n)[i] = s[1 + i - 1]
    BY ONLY <2>2, SubSeqProperties
  <2>5. Len(Front(s)) = n /\ \A i \in 1 .. n : Front(s)[i] = s[i]
    BY <2>2, <2>3, <2>4
  <2> QED BY <2>3, <2>4, <2>5 DEF n
<1>3. Last(s) \in E /\ s = Append(Front(s), Last(s))
  BY <1>1, <1>2 DEF Last
<1>4. \A e : Front(s) \o <<e>> = Append(Front(s), e)
  BY <1>2
<1> QED BY <1>2, <1>3, <1>4

LEMMA PutTyped ==
  \A acc \in Packs(DOMAIN Pids), p \in DOMAIN Pids : Put(acc, p) \in Packs(DOMAIN Pids)
<1> SUFFICES ASSUME NEW acc \in Packs(DOMAIN Pids), NEW p \in DOMAIN Pids
             PROVE  Put(acc, p) \in Packs(DOMAIN Pids)
  OBVIOUS
<1>1. CASE Put(acc, p) = Append(acc, <<p>>)
  BY <1>1 DEF Packs
<1>2. CASE acc # <<>> /\ Put(acc, p) = Front(acc) \o <<Append(Last(acc), p)>>
  <2>1. Front(acc) \in Seq(Seq(DOMAIN Pids)) /\ Last(acc) \in Seq(DOMAIN Pids)
    BY <1>2, FrontLast DEF Packs
  <2>2. Append(Last(acc), p) \in Seq(DOMAIN Pids)
    BY <2>1
  <2> QED BY <1>2, <2>1, <2>2 DEF Packs
<1> QED BY <1>1, <1>2 DEF Put

LEMMA PackTrace ==
  ASSUME NEW ps \in Seq(DOMAIN Pids)
  PROVE  \E w \in [0 .. Len(ps) -> Packs(DOMAIN Pids)] :
           Trace(w, PutStep, <<>>, ps, Len(ps)) /\ Packed(ps) = w[Len(ps)]
<1> DEFINE n == Len(ps)
           Body(h) == [s \in SUBSET DOMAIN ps |->
                         IF s = {} THEN <<>> ELSE Put(h[s \ {Max(s)}], ps[Max(s)])]
           iter == CHOOSE h : h = Body(h)
<1>1. Packed(ps) = iter[DOMAIN ps]
  BY DEF Packed, FoldLeft, MapThenFoldSet, Put
<1>2. DOMAIN ps = 1 .. n /\ ps \in [1 .. n -> DOMAIN Pids]
  OBVIOUS
<1>0. n \in Nat
  OBVIOUS
<1>3. /\ PutStep \in [Packs(DOMAIN Pids) \X DOMAIN Pids -> Packs(DOMAIN Pids)]
      /\ <<>> \in Packs(DOMAIN Pids)
  BY PutTyped DEF PutStep, Packs
<1> HIDE DEF n
<1>4. PICK g \in [SUBSET (1 .. n) -> Packs(DOMAIN Pids)] : Folding(g, PutStep, <<>>, ps, n)
  BY <1>0, <1>2, <1>3, FoldExists
<1>5. ASSUME NEW s \in SUBSET (1 .. n), s # {}
      PROVE  s \ {Max(s)} \in SUBSET (1 .. n) /\ ps[Max(s)] \in DOMAIN Pids
  BY <1>0, <1>2, <1>5, Greatest
<1>6. ASSUME NEW s \in SUBSET (1 .. n)
      PROVE  g[s] = IF s = {} THEN <<>> ELSE Put(g[s \ {Max(s)}], ps[Max(s)])
  BY <1>4, <1>5 DEF Folding, PutStep
<1>7. g = Body(g)
  BY <1>2, <1>4, <1>6
<1>8. PICK h : h = Body(h) /\ Packed(ps) = h[1 .. n]
  BY <1>1, <1>2, <1>7
<1> HIDE DEF Body
<1>9. ASSUME NEW s \in SUBSET (1 .. n), s = {} \/ h[s \ {Max(s)}] = g[s \ {Max(s)}]
      PROVE  h[s] = g[s]
  <2>1. h[s] = IF s = {} THEN <<>> ELSE Put(h[s \ {Max(s)}], ps[Max(s)])
    BY <1>2, <1>8 DEF Body
  <2> QED BY <1>6, <1>9, <2>1
<1>10. \A s \in SUBSET (1 .. n) : h[s] = g[s]
  <2>1. Follows(h, g, n)
    BY <1>9 DEF Follows
  <2> QED BY <1>0, <2>1, FoldAlone
<1>11. h[1 .. n] = g[1 .. n]
  BY <1>10
<1>12. Trace(Along(g, n), PutStep, <<>>, ps, n) /\ Along(g, n)[n] = g[1 .. n]
  BY <1>0, <1>4, TraceOf
<1>13. Along(g, n) \in [0 .. n -> Packs(DOMAIN Pids)]
  <2>1. \A i \in 0 .. n : 1 .. i \in SUBSET (1 .. n)
    BY <1>0
  <2> QED BY <2>1 DEF Along
<1> QED BY <1>8, <1>11, <1>12, <1>13 DEF n

LEMMA PackAppend ==
  ASSUME NEW ps \in Seq(DOMAIN Pids), NEW p \in DOMAIN Pids
  PROVE  Packed(ps) \in Packs(DOMAIN Pids) /\ Packed(Append(ps, p)) = Put(Packed(ps), p)
<1> DEFINE n == Len(ps)
           qs == Append(ps, p)
<1>1. /\ n \in Nat /\ qs \in Seq(DOMAIN Pids) /\ Len(qs) = n + 1 /\ qs[n + 1] = p
      /\ \A i \in 1 .. n : qs[i] = ps[i]
  OBVIOUS
<1>0. n \in Nat
  BY <1>1
<1> HIDE DEF qs
<1>2. PICK v \in [0 .. n -> Packs(DOMAIN Pids)] :
        Trace(v, PutStep, <<>>, ps, n) /\ Packed(ps) = v[n]
  BY PackTrace
<1> HIDE DEF n
<1>3. PICK w \in [0 .. n + 1 -> Packs(DOMAIN Pids)] :
        Trace(w, PutStep, <<>>, qs, n + 1) /\ Packed(qs) = w[n + 1]
  BY <1>1, PackTrace
<1>4. Trace(w, PutStep, <<>>, ps, n)
  <2>1. n + 1 \in Nat /\ n \in 0 .. n + 1
    BY <1>1
  <2> QED BY <1>1, <1>3, <2>1, TraceShort
<1>5. w[n] = v[n]
  BY <1>1, <1>2, <1>4, TracesAgree
<1>6. w[n + 1] = PutStep[<<w[n], p>>] /\ w[n] \in Packs(DOMAIN Pids)
  <2>1. n + 1 \in 1 .. n + 1 /\ (n + 1) - 1 = n /\ n \in 0 .. n + 1
    BY <1>0
  <2> QED BY <1>1, <1>3, <2>1 DEF Trace
<1>7. w[n + 1] = Put(w[n], p)
  BY <1>6 DEF PutStep
<1> QED BY <1>2, <1>3, <1>5, <1>6, <1>7 DEF qs

LEMMA PackEmpty == Packed(<<>>) = <<>>
<1>1. <<>> \in Seq(DOMAIN Pids) /\ Len(<<>>) = 0
  OBVIOUS
<1>2. PICK w \in [0 .. 0 -> Packs(DOMAIN Pids)] :
        Trace(w, PutStep, <<>>, <<>>, 0) /\ Packed(<<>>) = w[0]
  BY <1>1, PackTrace
<1> QED BY <1>2 DEF Trace

Fit(M, md) == {m \in Seq(M) : m # <<>> /\ 1 + CostOf(m) <= 7 /\ Len(m) <= ChunkLimit[md]}

LEMMA PackFits ==
  ASSUME NEW md \in {"01", "22"}, NEW M \in SUBSET DOMAIN Pids,
         \A p \in M : Pids[p].mode = md /\ 1 + Cost(p) <= 7
  PROVE  \A ms \in Seq(M) : Packed(ms) \in Seq(Fit(M, md)) /\ FlattenSeq(Packed(ms)) = ms
<1> DEFINE T == {ms \in Seq(M) : Packed(ms) \in Seq(Fit(M, md)) /\ FlattenSeq(Packed(ms)) = ms}
<1>1. <<>> \in T
  <2>1. <<>> \in Seq(M) /\ <<>> \in Seq(Fit(M, md))
    OBVIOUS
  <2> QED BY <2>1, PackEmpty, FlatEmpty
<1>2. ASSUME NEW ms \in Seq(M), NEW p \in M, ms \in T PROVE Append(ms, p) \in T
  <2> DEFINE acc == Packed(ms)
             all == Append(ms, p)
  <2>1. all \in Seq(M) /\ ms \in Seq(DOMAIN Pids) /\ p \in DOMAIN Pids /\ all = ms \o <<p>>
    OBVIOUS
  <2>2. acc \in Seq(Fit(M, md)) /\ FlattenSeq(acc) = ms /\ Packed(all) = Put(acc, p)
    BY <1>2, <2>1, PackAppend
  <2>3. \A e \in Fit(M, md) : e \in Seq(M) /\ e \in Seq(DOMAIN Pids)
    BY DEF Fit
  <2>4. \A ss \in Seq(Fit(M, md)) : ss \in Seq(Seq(M))
    BY <2>3
  <2>5. Cost(p) \in Nat /\ 1 + Cost(p) <= 7 /\ Pids[p].mode = md /\ ChunkLimit[md] \in Nat \ {0}
    BY StnAssumption, CostNat, <2>1
  <2> HIDE DEF acc, all
  <2>6. CASE Put(acc, p) = Append(acc, <<p>>)
    <3>1. CostOf(<<p>>) = Cost(p)
      <4>1. <<>> \in Seq(DOMAIN Pids) /\ <<p>> = Append(<<>>, p)
        OBVIOUS
      <4>2. CostOf(Append(<<>>, p)) = CostOf(<<>>) + Cost(p)
        BY <2>1, <4>1, CostAppend
      <4> QED BY <2>5, <4>1, <4>2, CostEmpty
    <3>2. <<p>> \in Fit(M, md)
      BY <2>5, <3>1 DEF Fit
    <3>3. Append(acc, <<p>>) \in Seq(Fit(M, md)) /\ <<p>> \in Seq(M)
      BY <2>2, <3>2
    <3>4. FlattenSeq(Append(acc, <<p>>)) = ms \o <<p>>
      BY <2>2, <2>4, <3>3, FlatAppend
    <3> QED BY <2>1, <2>2, <2>6, <3>3, <3>4 DEF all
  <2>7. CASE /\ acc # <<>> /\ Len(Last(acc)) < ChunkLimit[Pids[p].mode] /\ Room(Last(acc), p)
             /\ Put(acc, p) = Front(acc) \o <<Append(Last(acc), p)>>
    <3>1. PICK F \in Seq(Fit(M, md)), L \in Fit(M, md) :
            /\ acc = Append(F, L) /\ Put(acc, p) = Append(F, Append(L, p))
            /\ Len(L) < ChunkLimit[md] /\ CostOf(L) + Cost(p) <= 7 - 1
      <4>1. Front(acc) \in Seq(Fit(M, md)) /\ Last(acc) \in Fit(M, md)
            /\ acc = Append(Front(acc), Last(acc))
            /\ \A e : Front(acc) \o <<e>> = Append(Front(acc), e)
        BY <2>2, <2>7, FrontLast
      <4> QED BY <2>5, <2>7, <4>1 DEF Room
    <3>2. F \in Seq(Seq(M)) /\ L \in Seq(M) /\ L \in Seq(DOMAIN Pids) /\ Append(L, p) \in Seq(M)
      BY <2>3, <2>4
    <3>3. CostOf(Append(L, p)) = CostOf(L) + Cost(p) /\ CostOf(L) \in Nat
      BY <2>1, <3>2, CostAppend
    <3>4. Len(Append(L, p)) = Len(L) + 1 /\ Append(L, p) # <<>> /\ Len(L) \in Nat
      BY <2>1, <3>2, AppendProperties
    <3>5. Append(L, p) \in Fit(M, md)
      BY <2>5, <3>1, <3>2, <3>3, <3>4 DEF Fit
    <3>6. FlattenSeq(F) \in Seq(M) /\ FlattenSeq(acc) = FlattenSeq(F) \o L
          /\ FlattenSeq(Append(F, Append(L, p))) = FlattenSeq(F) \o Append(L, p)
      BY <3>1, <3>2, FlatAppend, Flattened
    <3>7. FlattenSeq(F) \o Append(L, p) = Append(FlattenSeq(F) \o L, p)
      BY <3>2, <3>6
    <3>8. Append(F, Append(L, p)) \in Seq(Fit(M, md))
      BY <3>5
    <3> QED BY <2>1, <2>2, <3>1, <3>6, <3>7, <3>8 DEF all
  <2> QED BY <2>6, <2>7 DEF Put, all
<1> HIDE DEF T
<1>3. \A ms \in Seq(M) : ms \in T
  BY <1>1, <1>2, SeqInduct
<1> QED BY <1>3 DEF T

(* Parts that ask for disjoint sets, each once: so does the whole.         *)
Parts(G, n, xss, R) ==
  /\ xss \in [1 .. n -> Seq(G)]
  /\ \A i \in 1 .. n : Range(FlattenSeq(xss[i])) = R[i] /\ IsInjective(FlattenSeq(xss[i]))
  /\ \A i, j \in 1 .. n : i # j => R[i] \cap R[j] = {}

LEMMA TogetherOnce ==
  ASSUME NEW s, NEW G \in SUBSET Seq(s), NEW n \in Nat, NEW xss, NEW R, Parts(G, n, xss, R)
  PROVE  /\ FlattenSeq(xss) \in Seq(G)
         /\ Range(FlattenSeq(FlattenSeq(xss))) = UNION {R[i] : i \in 1 .. n}
         /\ IsInjective(FlattenSeq(FlattenSeq(xss)))
<1>0. xss \in [1 .. n -> Seq(G)]
  BY DEF Parts
<1>1. xss \in Seq(Seq(G)) /\ DOMAIN xss = 1 .. n
  BY <1>0
<1>2. xss \in Seq(Seq(Seq(s)))
  <2>1. \A g \in Seq(G) : g \in Seq(Seq(s))
    OBVIOUS
  <2> QED BY <1>1, <2>1
<1>3. FlattenSeq(xss) \in Seq(G) /\ FlattenSeq(FlattenSeq(xss)) = FlattenSeq(Flats(xss))
  BY <1>1, <1>2, Flattened, FlatFlat
<1>4. Flats(xss) \in Seq(Seq(s)) /\ DOMAIN Flats(xss) = 1 .. n
      /\ \A i \in 1 .. n : Flats(xss)[i] = FlattenSeq(xss[i])
  BY <1>1, <1>2, FlatsTyped DEF Flats
<1> DEFINE flats == Flats(xss)
<1> HIDE DEF flats
<1>5. /\ DOMAIN flats = 1 .. n
      /\ \A i \in 1 .. n : Range(flats[i]) = R[i] /\ IsInjective(flats[i])
  BY <1>4 DEF Parts, flats
<1>6. Together(flats) = UNION {R[i] : i \in 1 .. n}
  BY <1>5 DEF Together
<1>7. Parted(flats)
  BY <1>5 DEF Parted, Parts
<1> QED BY <1>3, <1>4, <1>6, <1>7, FlatOnce DEF flats

Good(s) == {m \in Seq(s) \ {<<>>} :
              /\ 1 + CostOf(m) <= 7 /\ Len(m) <= ChunkLimit[Pids[m[1]].mode]
              /\ \A p \in Range(m) : /\ Pids[p].mode = Pids[m[1]].mode
                                     /\ Pids[p].header = Pids[m[1]].header
                                     /\ Pids[p].tier = Pids[m[1]].tier}
KeyOf(p) == <<Pids[p].mode, Pids[p].header>>
Tiers == <<"Fast", "Medium", "Slow">>
Tier(s, t) == {p \in s : Pids[p].tier = t}
Keys(s, t) == {KeyOf(p) : p \in Tier(s, t)}
Members(s, t, b) == {p \in s : Pids[p].tier = t /\ KeyOf(p) = b}
Bucket(s, t, b) == Packed(SetToSeq(Members(s, t, b)))
TierPlan(s, t) ==
  LET keys == SetToSeq(Keys(s, t))
  IN  FlattenSeq([j \in DOMAIN keys |-> Bucket(s, t, keys[j])])

LEMMA PlanIs == \A s : Plan(s) = FlattenSeq([i \in 1 .. 3 |-> TierPlan(s, Tiers[i])])
  BY DEF Plan, TierPlan, Tiers, Bucket, Members, Keys, Tier, KeyOf

LEMMA BucketFits ==
  ASSUME NEW s \in SUBSET DOMAIN Pids, IsFiniteSet(s), Engages(s), NEW t, NEW b \in Keys(s, t)
  PROVE  /\ Bucket(s, t, b) \in Seq(Good(s))
         /\ Range(FlattenSeq(Bucket(s, t, b))) = Members(s, t, b)
         /\ IsInjective(FlattenSeq(Bucket(s, t, b)))
<1> DEFINE M == Members(s, t, b)
<1>1. M \in SUBSET s /\ M \in SUBSET DOMAIN Pids /\ IsFiniteSet(M)
  BY FS_Subset DEF Members
<1>2. PICK md \in {"01", "22"} : \A p \in M : Pids[p].mode = md /\ 1 + Cost(p) <= 7
  BY StnAssumption DEF Engages, Members, Keys, Tier, KeyOf
<1>3. \A p, q \in M : /\ Pids[p].mode = Pids[q].mode /\ Pids[p].header = Pids[q].header
                      /\ Pids[p].tier = Pids[q].tier
  BY DEF Members, KeyOf
<1> HIDE DEF M
<1>4. SetToSeq(M) \in Seq(M) /\ IsInjective(SetToSeq(M)) /\ Range(SetToSeq(M)) = M
  BY <1>1, Listed
<1>5. Packed(SetToSeq(M)) \in Seq(Fit(M, md)) /\ FlattenSeq(Packed(SetToSeq(M))) = SetToSeq(M)
  BY <1>1, <1>2, <1>4, PackFits
<1>6. ASSUME NEW m \in Fit(M, md) PROVE m \in Good(s)
  <2>1. m \in Seq(M) /\ m # <<>> /\ 1 + CostOf(m) <= 7 /\ Len(m) <= ChunkLimit[md]
    BY <1>6 DEF Fit
  <2>2. m[1] \in M /\ Range(m) \subseteq M /\ m \in Seq(s)
    <3>1. /\ Len(m) \in Nat /\ Len(m) >= 1 /\ DOMAIN m = 1 .. Len(m)
          /\ \A i \in 1 .. Len(m) : m[i] \in M
      BY <2>1
    <3>2. m \in Seq(s)
      BY <1>1, <2>1
    <3> QED BY <3>1, <3>2 DEF Range
  <2>3. Pids[m[1]].mode = md
    BY <1>2, <2>2
  <2> QED BY <1>3, <2>1, <2>2, <2>3 DEF Good
<1>7. Packed(SetToSeq(M)) \in Seq(Good(s))
  BY <1>5, <1>6
<1> QED BY <1>4, <1>5, <1>7 DEF Bucket, M

LEMMA TierFits ==
  ASSUME NEW s \in SUBSET DOMAIN Pids, IsFiniteSet(s), Engages(s), NEW t
  PROVE  /\ TierPlan(s, t) \in Seq(Good(s))
         /\ Range(FlattenSeq(TierPlan(s, t))) = Tier(s, t)
         /\ IsInjective(FlattenSeq(TierPlan(s, t)))
<1>1. IsFiniteSet(Tier(s, t))
  BY FS_Subset DEF Tier
<1>2. IsFiniteSet(Keys(s, t))
  <2> DEFINE f == [p \in Tier(s, t) |-> KeyOf(p)]
  <2>1. f \in Surjection(Tier(s, t), Keys(s, t))
    BY DEF Surjection, Keys
  <2> QED BY <1>1, <2>1, FS_Surjection
<1> DEFINE keys == SetToSeq(Keys(s, t))
           n == Len(keys)
           xss == [j \in DOMAIN keys |-> Bucket(s, t, keys[j])]
           R == [j \in DOMAIN keys |-> Members(s, t, keys[j])]
<1>3. keys \in Seq(Keys(s, t)) /\ IsInjective(keys) /\ Range(keys) = Keys(s, t)
  BY <1>2, Listed
<1> HIDE DEF keys
<1>4. n \in Nat /\ DOMAIN keys = 1 .. n /\ \A j \in 1 .. n : keys[j] \in Keys(s, t)
  BY <1>3
<1> HIDE DEF n
<1>5. \A j \in 1 .. n : /\ Bucket(s, t, keys[j]) \in Seq(Good(s))
                        /\ Range(FlattenSeq(Bucket(s, t, keys[j]))) = Members(s, t, keys[j])
                        /\ IsInjective(FlattenSeq(Bucket(s, t, keys[j])))
  BY <1>4, BucketFits
<1>6. xss \in [1 .. n -> Seq(Good(s))]
  BY <1>4, <1>5
<1>7. \A i, j \in 1 .. n : i # j => keys[i] # keys[j]
  BY <1>3, <1>4 DEF IsInjective
<1>8. \A i \in 1 .. n : /\ Range(FlattenSeq(xss[i])) = R[i] /\ IsInjective(FlattenSeq(xss[i]))
  BY <1>4, <1>5
<1>9. \A i, j \in 1 .. n : i # j => R[i] \cap R[j] = {}
  BY <1>4, <1>7 DEF Members
<1>10. UNION {R[i] : i \in 1 .. n} = Tier(s, t)
  <2>1. ASSUME NEW p \in Tier(s, t) PROVE p \in UNION {R[i] : i \in 1 .. n}
    <3>1. KeyOf(p) \in Range(keys)
      BY <1>3 DEF Keys
    <3>2. PICK i \in 1 .. n : keys[i] = KeyOf(p)
      BY <1>4, <3>1 DEF Range
    <3> QED BY <1>4, <3>2 DEF Members, Tier
  <2>2. \A i \in 1 .. n : R[i] \subseteq Tier(s, t)
    BY <1>4 DEF Members, Tier
  <2> QED BY <2>1, <2>2
<1>11. Good(s) \in SUBSET Seq(s)
  BY DEF Good
<1>12. TierPlan(s, t) = FlattenSeq(xss)
  BY DEF TierPlan, keys
<1> HIDE DEF xss, R
<1>13. Parts(Good(s), n, xss, R)
  BY <1>6, <1>8, <1>9 DEF Parts
<1>14. /\ FlattenSeq(xss) \in Seq(Good(s))
       /\ Range(FlattenSeq(FlattenSeq(xss))) = UNION {R[i] : i \in 1 .. n}
       /\ IsInjective(FlattenSeq(FlattenSeq(xss)))
  BY ONLY <1>4, <1>11, <1>13, TogetherOnce
<1> QED BY <1>10, <1>12, <1>14

LEMMA EngagedFits ==
  ASSUME NEW s \in SUBSET DOMAIN Pids, IsFiniteSet(s), Engages(s) PROVE PlanFits(s)
<1> DEFINE xss == [i \in 1 .. 3 |-> TierPlan(s, Tiers[i])]
           R == [i \in 1 .. 3 |-> Tier(s, Tiers[i])]
<1>1. xss \in [1 .. 3 -> Seq(Good(s))]
  BY TierFits
<1>2. \A i \in 1 .. 3 : /\ Range(FlattenSeq(xss[i])) = R[i] /\ IsInjective(FlattenSeq(xss[i]))
  BY TierFits
<1>3. \A i, j \in 1 .. 3 : i # j => Tiers[i] # Tiers[j]
  BY DEF Tiers
<1>4. \A i, j \in 1 .. 3 : i # j => R[i] \cap R[j] = {}
  BY <1>3 DEF Tier
<1>5. UNION {R[i] : i \in 1 .. 3} = s
  <2>1. \A p \in s : Pids[p].tier \in {Tiers[1], Tiers[2], Tiers[3]}
    BY StnAssumption DEF Tiers
  <2> QED BY <2>1 DEF Tier
<1>6. Good(s) \in SUBSET Seq(s) /\ 3 \in Nat
  BY DEF Good
<1>7. Plan(s) = FlattenSeq(xss)
  BY PlanIs
<1> HIDE DEF xss, R
<1>12. Parts(Good(s), 3, xss, R)
  BY <1>1, <1>2, <1>4 DEF Parts
<1>13. /\ FlattenSeq(xss) \in Seq(Good(s))
       /\ Range(FlattenSeq(FlattenSeq(xss))) = UNION {R[i] : i \in 1 .. 3}
       /\ IsInjective(FlattenSeq(FlattenSeq(xss)))
  BY ONLY <1>6, <1>12, TogetherOnce
<1>8. /\ Plan(s) \in Seq(Good(s)) /\ Range(FlattenSeq(Plan(s))) = s
      /\ IsInjective(FlattenSeq(Plan(s)))
  BY <1>5, <1>7, <1>13
<1>9. FlattenSeq(Plan(s)) \in Seq(s)
  <2>1. Plan(s) \in Seq(Seq(s))
    BY <1>6, <1>8
  <2> QED BY <2>1, Flattened
<1>10. Len(FlattenSeq(Plan(s))) = Cardinality(s)
  BY <1>8, <1>9, Counted
<1>11. Plan(s) \in Seq(Seq(s) \ {<<>>}) /\ \A m \in Range(Plan(s)) : m \in Good(s)
  <2>1. Good(s) \subseteq Seq(s) \ {<<>>}
    BY DEF Good
  <2> QED BY <1>8, <2>1 DEF Range
<1> QED BY <1>8, <1>10, <1>11 DEF PlanFits, Good

(* The periodic messages of every set of pids the session engages on fit    *)
(* the one frame nobody has to ask for, keep to the admission's members, are *)
(* of one mode, header and tier, and ask for every active pid once and for  *)
(* no other, for any pids, lengths, headers and limits                      *)
(* (build_periodic_set).                                                    *)
THEOREM PlansFit == \A s \in Signals : Engages(s) => PlanFits(s)
  BY EngagedFits, StnAssumption

-----------------------------------------------------------------------------
(***************************************************************************)
(* The STN engine.                                                         *)
(***************************************************************************)
(* What the break and the teardown have lost so far.                       *)
Misses(n) == entry >= trouble + n

(* monitor_active is set only by a verdict on STM, and a monitor runs only *)
(* under it, unless the break lost both its bytes.                         *)
Mon ==
  /\ DOMAIN chip = {"monitors", "normal", "messages", "filters", "path", "number"}
  /\ chip.monitors \in BOOLEAN /\ active \in BOOLEAN
  /\ stopped \in BOOLEAN /\ lost \in BOOLEAN /\ tap \in BOOLEAN
  /\ active => pc \in {"armed", "broken"}
  /\ pc = "armed" => active /\ (chip.monitors \/ stopped \/ lost)
  /\ chip.monitors /\ ~active => pc = "watch" \/ (pc \in Leaving \ {"broken"} /\ Misses(2))
  /\ pc = "watch" => stopped \in {~chip.monitors, FALSE} /\ (stopped \/ chip.monitors \/ lost)
  /\ pc \in {"setup", "try", "watch", "armed"} => tap

(* The way out in order: what the losses since the break may have left.    *)
Teardown == {"clear", "ask", "pin", "probe", "search", "reprobe", "done"}
Back ==
  /\ trouble \in Nat /\ entry \in Nat /\ clears \in Nat
  /\ pc \notin Teardown => clears = 0
  /\ pc \in Leaving => entry >= trouble
  /\ pc = "broken" /\ chip.monitors => Misses(1)
  /\ pc = "clear" => clears <= 1 /\ entry >= trouble + clears
  /\ pc \in Teardown \ {"clear"} => chip.messages = {} \/ Misses(2)
  /\ pc = "probe" => chip.path = "closed" \/ Misses(1)
  /\ pc = "search" /\ chip.number => Misses(1)
  /\ pc = "reprobe" /\ chip.number => chip.path = "closed" \/ Misses(2)
  /\ pc = "done" /\ chip.number => chip.path # "dead" \/ Misses(2)

StnInv == Mon /\ Back

(* Frames on their way to the host: the queue, the newest number of each   *)
(* id, and what the host is shown.                                         *)
QueuedFrames == [message : Messages, n : Nat]
Ids == {Pids[p].header : p \in sig}
Planned == sig \in Signals /\ Engages(sig)
Typed ==
  /\ script \in Seq(Messages) /\ chip.messages \subseteq Messages
  /\ live.decoders \subseteq Messages
  /\ fires \in Nat /\ queue \in Seq(QueuedFrames)
  /\ sent \in [Ids -> Nat] /\ shown \in [sig -> Nat]
Bus ==
  /\ pc \in {"off", "install"} => queue = <<>> /\ \A id \in Ids : sent[id] = 0
  /\ pc \in Teardown => live = NoEngine
  /\ \A id \in Ids : sent[id] <= fires

(* The newest frame of an id is the last of it in the queue, or it was     *)
(* decoded and is shown, or nobody may decode it.                          *)
Queued(id) == \E f \in Range(queue) : IdOf(f.message) = id /\ f.n = sent[id]
Visible(id) == \E p \in sig : Pids[p].header = id /\ shown[p] = sent[id]
Foreign(id) == \E m \in chip.messages \ live.decoders : IdOf(m) = id
Order ==
  /\ \A f \in Range(queue) : /\ f.n <= sent[IdOf(f.message)]
                             /\ Queued(IdOf(f.message))
                             /\ live # NoEngine => f.message \in chip.messages
  /\ live # NoEngine =>
       \A id \in Ids : sent[id] > 0 => Queued(id) \/ Visible(id) \/ Foreign(id)

News == Planned /\ Typed /\ Bus /\ Order

-----------------------------------------------------------------------------
LEMMA StnStart ==
  Init => StnInv
<1> SUFFICES ASSUME Init PROVE StnInv
  OBVIOUS
<1>1. PICK number \in BOOLEAN :
        chip = [monitors |-> FALSE, normal |-> FALSE, messages |-> {}, filters |-> {},
                path |-> "open", number |-> number]
  BY DEF Init
<1>2. /\ chip.monitors = FALSE
      /\ DOMAIN chip = {"monitors", "normal", "messages", "filters", "path", "number"}
  BY <1>1
<1>3. Mon
  BY <1>2 DEF Init, Mon, Misses
<1>4. Back
  BY <1>2, StnAssumption DEF Init, Back, Teardown, Leaving
<1> QED BY <1>3, <1>4 DEF StnInv

(* What a byte and each command make of the chip.                          *)
Fields == {"monitors", "normal", "messages", "filters", "path", "number"}
LEMMA Chips ==
  ASSUME Mon
  PROVE  /\ ByteTo(chip).monitors = FALSE /\ DOMAIN ByteTo(chip) = Fields
         /\ ByteTo(chip).messages = chip.messages /\ ByteTo(chip).number = chip.number
         /\ ~chip.monitors => ByteTo(chip) = chip
         /\ DOMAIN Wiped = Fields /\ Wiped.messages = {} /\ Wiped.monitors = chip.monitors
         /\ Wiped.number = chip.number
         /\ DOMAIN Closed = Fields /\ Closed.path = "closed" /\ Closed.monitors = chip.monitors
         /\ Closed.messages = chip.messages /\ Closed.number = chip.number
         /\ DOMAIN Probed = Fields /\ Probed.monitors = chip.monitors
         /\ Probed.path = (IF chip.path = "closed" THEN "open" ELSE chip.path)
         /\ Probed.messages = chip.messages /\ Probed.number = chip.number
<1>1. DOMAIN chip = Fields /\ chip.monitors \in BOOLEAN
  BY DEF Mon, Fields
<1> QED BY <1>1 DEF ByteTo, Wiped, Closed, Probed, Fields

(* Losses are not taken back.                                              *)
LEMMA Later ==
  ASSUME trouble \in Nat, trouble' \in Nat, trouble' <= trouble, entry \in Nat, entry' = entry
  PROVE  \A n \in Nat : Misses(n) => Misses(n)'
<1>1. \A t, u, e, n \in Nat : u <= t /\ e >= t + n => e >= u + n
  OBVIOUS
<1> QED BY <1>1 DEF Misses

LEMMA Owed ==
  ASSUME trouble \in Nat, trouble' \in Nat, trouble' = trouble - 1,
         entry \in Nat, entry' = entry
  PROVE  (entry >= trouble => Misses(1)') /\ (Misses(1) => Misses(2)')
<1>1. \A t, u, e \in Nat : u = t - 1 => /\ e >= t => e >= u + 1
                                        /\ e >= t + 1 => e >= u + 2
  OBVIOUS
<1> QED BY <1>1 DEF Misses

LEMMA Slack ==
  /\ \A t, e \in Nat : e >= t + 2 => e >= t + 1
  /\ \A t, e \in Nat : e >= t => e >= t + 0
OBVIOUS

(* Before the break nothing is owed to the way out.                        *)
LEMMA Early ==
  ASSUME StnInv, pc \notin Leaving, pc' \notin Leaving, trouble' \in Nat,
         UNCHANGED <<entry, clears>>, Mon'
  PROVE  StnInv'
BY DEF StnInv, Back, Leaving, Teardown

LEMMA StnInstalls ==
  ASSUME StnInv, StartMode \/ Install \/ OutOfMemory \/ Installed
  PROVE  StnInv'
<1>0. /\ pc \in {"off", "install"} /\ pc' \in {"install", "refused", "installed"}
      /\ UNCHANGED <<stopped, active, tap, lost, entry, clears>> /\ trouble' \in Nat
  BY DEF StartMode, Install, OutOfMemory, Installed, Exchange, Loses, StnInv, Back
<1>1. ~active /\ ~chip.monitors
  BY <1>0 DEF StnInv, Mon, Misses, Leaving
<1>2. DOMAIN chip' = DOMAIN chip /\ chip'.monitors = FALSE
  <2>1. DOMAIN chip = Fields
    BY DEF StnInv, Mon, Fields
  <2> QED BY <1>1, <2>1 DEF StartMode, Install, OutOfMemory, Installed, Exchange, Heard,
                            Stored, Fields
<1>3. Mon'
  BY <1>0, <1>1, <1>2 DEF StnInv, Mon
<1> QED BY <1>0, <1>3, Early DEF Leaving

LEMMA StnArms ==
  ASSUME StnInv, EnterMonitor \/ SetFilters \/ Monitor \/ Holds \/ Retries
  PROVE  StnInv'
<1>0. /\ pc \in {"installed", "setup", "try", "watch"}
      /\ pc' \in {"setup", "unarmed", "try", "watch", "armed"}
      /\ UNCHANGED <<entry, clears>> /\ trouble' \in Nat
  BY DEF EnterMonitor, SetFilters, Monitor, Holds, Retries, Goes, StmLost, Loses, StnInv, Back
<1>1. /\ ~active /\ DOMAIN chip = Fields /\ chip.monitors \in BOOLEAN
      /\ chip.monitors => pc = "watch"
  BY <1>0 DEF StnInv, Mon, Misses, Leaving, Fields
<1>3. CASE SetFilters
  <2>1. DOMAIN chip' = Fields /\ chip'.monitors = chip.monitors
    BY <1>1, <1>3 DEF SetFilters, Fields
  <2> QED BY <1>0, <1>1, <1>3, <2>1, Early DEF SetFilters, Goes, StnInv, Mon, Fields, Leaving
<1>4. CASE Monitor
  <2>1. ~chip.monitors /\ pc = "try" /\ tap
    BY <1>1, <1>4 DEF Monitor, Goes, StnInv, Mon
  <2>2. /\ DOMAIN chip' = Fields /\ chip'.monitors \in BOOLEAN
        /\ ~stopped' /\ lost' \in BOOLEAN /\ (chip'.monitors \/ lost')
    BY <1>1, <1>4, <2>1 DEF Monitor, StmLost, Heard, Fields, StnInv, Mon
  <2> QED BY <1>0, <1>1, <1>4, <2>1, <2>2, Early DEF Monitor, Goes, StnInv, Mon, Fields, Leaving
<1>5. CASE Holds
  BY <1>0, <1>5, Early DEF Holds, Goes, StnInv, Mon, Leaving
<1>6. CASE Retries
  BY <1>0, <1>6, Early DEF Retries, StnInv, Mon, Leaving
<1>7. CASE EnterMonitor
  BY <1>0, <1>1, <1>7, Early DEF EnterMonitor, StnInv, Mon, Leaving
<1> QED BY <1>3, <1>4, <1>5, <1>6, <1>7

LEMMA StnAborts == ASSUME StnInv, Aborts PROVE StnInv'
<1>1. /\ chip.monitors /\ chip' = ByteTo(chip) /\ stopped' = (stopped \/ tap)
      /\ trouble \in Nat /\ trouble > 0 /\ trouble' = trouble - 1
      /\ UNCHANGED <<pc, active, tap, lost, clears, entry>>
  BY DEF Aborts, Loses, StnInv, Back
<1>2. /\ chip'.monitors = FALSE /\ DOMAIN chip' = Fields
      /\ chip'.messages = chip.messages /\ chip'.number = chip.number
  BY <1>1, Chips DEF StnInv
<1>3. stopped' \in BOOLEAN
  BY <1>1 DEF StnInv, Mon
<1>4. Mon'
  BY <1>1, <1>2, <1>3 DEF StnInv, Mon, Fields
<1>5. \A n \in Nat : Misses(n) => Misses(n)'
  BY <1>1 DEF Misses, StnInv, Back
<1>6. Misses(1) => Misses(1)' /\ Misses(2)'
  BY <1>1 DEF Misses, StnInv, Back
<1>7. pc \in Teardown => Misses(2)
  BY <1>1 DEF StnInv, Mon, Teardown
<1>8. Back'
  BY <1>1, <1>2, <1>5, <1>7 DEF StnInv, Back, Teardown, Leaving, Misses
<1> QED BY <1>4, <1>8 DEF StnInv

LEMMA StnFrames ==
  ASSUME StnInv, (\E m \in chip.messages : Fires(m)) \/ Decode
  PROVE  StnInv'
<1>1. UNCHANGED <<pc, chip, stopped, active, tap, lost, clears, trouble, entry>>
  BY DEF Fires, Decode
<1> QED BY <1>1 DEF StnInv, Mon, Back, Misses, Teardown, Leaving

LEMMA StnBreaks ==
  ASSUME StnInv, BreakByte \/ BreakEnds \/ Abandon
  PROVE  StnInv'
<1>0. /\ trouble \in Nat /\ trouble' \in Nat /\ DOMAIN chip = Fields
      /\ chip.monitors \in BOOLEAN /\ active \in BOOLEAN /\ stopped \in BOOLEAN
      /\ clears' = clears /\ clears = 0
  BY DEF BreakByte, BreakEnds, Abandon, Goes, Loses, StnInv, Mon, Back, Fields, Teardown
<1>1. CASE BreakByte
  <2>1. /\ pc' = "broken" /\ entry' = trouble /\ UNCHANGED <<active, tap, lost>>
        /\ chip.monitors => active
    BY <1>1 DEF BreakByte, StnInv, Mon, Misses, Leaving
  <2>2. /\ DOMAIN chip' = Fields /\ chip'.monitors \in BOOLEAN /\ stopped' \in BOOLEAN
        /\ trouble' \in {trouble, trouble - 1}
        /\ (chip'.monitors => active /\ trouble' = trouble - 1)
    BY <1>0, <1>1, <2>1, Chips DEF BreakByte, Loses, StnInv
  <2>3. Mon'
    BY <2>1, <2>2 DEF StnInv, Mon, Fields
  <2>4. Back'
    <3>1. /\ trouble' \in Nat /\ entry' \in Nat /\ clears' = 0 /\ entry' >= trouble'
          /\ (chip'.monitors => entry' >= trouble' + 1)
      BY <1>0, <2>1, <2>2
    <3> QED BY <2>1, <3>1 DEF Back, Misses, Leaving, Teardown
  <2> QED BY <2>3, <2>4 DEF StnInv
<1>2. CASE BreakEnds
  <2>1. /\ pc = "broken" /\ pc' = "detach" /\ tap' = FALSE /\ active' = FALSE
        /\ UNCHANGED <<stopped, lost, entry>>
        /\ entry >= trouble /\ entry \in Nat
        /\ (chip.monitors => active /\ entry >= trouble + 1)
    <3>1. pc = "broken" /\ pc' = "detach" /\ tap' = FALSE /\ active' = FALSE
          /\ UNCHANGED <<stopped, lost, entry>>
      BY <1>2 DEF BreakEnds, Goes
    <3>2. entry >= trouble /\ entry \in Nat /\ (chip.monitors => entry >= trouble + 1)
      BY <3>1 DEF StnInv, Back, Misses, Leaving
    <3>3. chip.monitors => active
      BY <1>0, <3>1 DEF StnInv, Mon
    <3> QED BY <3>1, <3>2, <3>3
  <2>2. CASE /\ chip' = (IF active THEN Heard([chip EXCEPT !.filters = {}]) ELSE chip)
             /\ UNCHANGED trouble
    <3>1. chip.monitors = FALSE => /\ DOMAIN [chip EXCEPT !.filters = {}] = Fields
                                   /\ [chip EXCEPT !.filters = {}].monitors = FALSE
      BY <1>0 DEF Fields
    <3>2. DOMAIN chip' = Fields /\ chip'.monitors = FALSE
      BY <1>0, <2>1, <2>2, <3>1, Chips DEF Heard, StnInv
    <3> QED BY <1>0, <2>1, <2>2, <3>2 DEF StnInv, Mon, Back, Misses, Leaving, Teardown, Fields
  <2>3. CASE Loses /\ UNCHANGED chip
    <3>1. chip'.monitors => entry' >= trouble' + 2
      BY <1>0, <2>1, <2>3 DEF Loses
    <3>2. entry' >= trouble'
      BY <1>0, <2>1, <2>3 DEF Loses
    <3> QED BY <1>0, <2>1, <2>3, <3>1, <3>2
            DEF StnInv, Mon, Back, Misses, Leaving, Teardown, Fields
  <2> QED BY <1>2, <2>2, <2>3 DEF BreakEnds
<1>3. CASE Abandon
  BY <1>0, <1>3 DEF Abandon, Goes, StnInv, Mon, Back, Misses, Leaving, Teardown, Fields
<1> QED BY <1>1, <1>2, <1>3

(* A command of the teardown, whose loss counts; a chip that still monitors *)
(* has already cost two.                                                   *)
LEMMA Commands ==
  ASSUME StnInv, pc \in {"detach"} \cup Teardown, NEW effect, NEW answered, NEW silent,
         Exchange(effect, answered, silent), DOMAIN effect = Fields,
         effect.monitors = chip.monitors, effect.number = chip.number,
         effect.messages \in {chip.messages, {}},
         pc' \in Teardown, UNCHANGED <<stopped, active, tap, lost, entry>>
  PROVE  /\ Mon' /\ trouble' \in Nat /\ entry' \in Nat /\ entry' >= trouble'
         /\ trouble' <= trouble /\ chip'.number = chip.number
         /\ chip.messages = {} => chip'.messages = {}
         /\ \/ Misses(2) /\ Misses(2)'
            \/ chip' = effect /\ pc' = answered /\ trouble' = trouble
            \/ chip' \in {chip, effect} /\ pc' = silent /\ trouble' = trouble - 1
<1>1. /\ trouble \in Nat /\ entry \in Nat /\ entry >= trouble /\ DOMAIN chip = Fields
      /\ chip.monitors \in BOOLEAN /\ ~active
      /\ chip.monitors => Misses(2)
      /\ pc \in Leaving /\ pc' \in Leaving
  BY DEF StnInv, Mon, Back, Leaving, Teardown, Fields
<1>2. /\ trouble' \in Nat /\ trouble' <= trouble /\ entry' = entry
      /\ (trouble' = trouble \/ trouble' = trouble - 1)
  BY <1>1 DEF Exchange, Loses
<1>3. Misses(2) => Misses(2)'
  BY <1>1, <1>2, Later
<1>4. /\ chip' \in {chip, effect, ByteTo(chip)}
      /\ ~chip.monitors => chip' \in {chip, effect}
  BY DEF Exchange, Heard
<1>5. /\ DOMAIN chip' = Fields /\ chip'.monitors \in BOOLEAN
      /\ chip'.monitors => chip.monitors
      /\ chip'.number = chip.number
      /\ chip.messages = {} => chip'.messages = {}
  BY <1>1, <1>4, Chips DEF StnInv
<1>6. Mon'
  BY <1>1, <1>3, <1>5 DEF StnInv, Mon, Fields, Teardown
<1>7. ~chip.monitors =>
        \/ chip' = effect /\ pc' = answered /\ trouble' = trouble
        \/ chip' \in {chip, effect} /\ pc' = silent /\ trouble' = trouble - 1
  BY <1>1 DEF Exchange, Heard, Loses
<1> QED BY <1>1, <1>2, <1>3, <1>5, <1>6, <1>7

LEMMA StnClears ==
  ASSUME StnInv, Flush \/ Clear \/ AskProtocol
  PROVE  StnInv'
<1>0. DOMAIN chip = Fields /\ trouble \in Nat /\ entry \in Nat /\ clears \in Nat
  BY DEF StnInv, Mon, Back, Fields
<1>1. CASE Flush
  <2>1. /\ pc = "detach" /\ Exchange(chip, "clear", "clear") /\ pc' = "clear"
        /\ UNCHANGED <<stopped, active, tap, lost, entry, clears>>
    BY <1>1 DEF Flush, Exchange
  <2>2. /\ Mon' /\ trouble' \in Nat /\ entry' \in Nat /\ entry' >= trouble'
    BY <1>0, <2>1, Commands DEF Teardown
  <2>3. clears' = 0 /\ clears' \in Nat /\ clears' <= 1
    BY <2>1 DEF StnInv, Back, Teardown
  <2>4. entry' >= trouble' + clears'
    <3>1. entry' >= trouble' + 0
      BY <2>2, Slack
    <3> QED BY <2>3, <3>1
  <2> QED BY <2>1, <2>2, <2>3, <2>4 DEF StnInv, Back, Teardown, Leaving
<1>2. CASE Clear
  <2>1. /\ pc = "clear" /\ clears' = clears + 1 /\ clears <= 1 /\ entry >= trouble + clears
        /\ Exchange(Wiped, "ask", IF clears = 0 THEN "clear" ELSE "ask")
        /\ pc' \in {"clear", "ask"} /\ (pc' = "clear" => clears = 0)
        /\ UNCHANGED <<stopped, active, tap, lost, entry>>
    BY <1>2 DEF Clear, Exchange, StnInv, Back
  <2>2. /\ Mon' /\ trouble' \in Nat /\ entry' \in Nat /\ entry' >= trouble'
        /\ trouble' <= trouble
        /\ \/ Misses(2) /\ Misses(2)'
           \/ chip' = Wiped /\ pc' = "ask" /\ trouble' = trouble
           \/ /\ pc' = (IF clears = 0 THEN "clear" ELSE "ask") /\ trouble' = trouble - 1
    BY <2>1, Chips, Commands DEF Teardown, StnInv
  <2>3. ASSUME pc' = "clear" PROVE clears' = 1 /\ entry' >= trouble' + clears'
    <3>1. clears = 0 /\ clears' = 1 /\ entry' = entry /\ entry >= trouble
      BY <1>0, <2>1, <2>3
    <3>2. entry' >= trouble' + 1
      <4>1. CASE Misses(2)'
        <5>1. trouble' \in Nat /\ entry' \in Nat /\ entry' >= trouble' + 2
          BY <2>2, <4>1 DEF Misses
        <5> QED BY <5>1, Slack
      <4>2. CASE trouble' = trouble - 1
        BY <1>0, <3>1, <4>2
      <4> QED BY <2>2, <2>3, <4>1, <4>2
    <3> QED BY <3>1, <3>2
  <2>4. pc' = "ask" => chip'.messages = {} \/ Misses(2)'
    <3>1. CASE Misses(2)' \/ chip' = Wiped
      BY <3>1, Chips DEF StnInv
    <3>2. CASE pc' = "ask" /\ clears # 0 /\ trouble' = trouble - 1
      <4>1. Misses(1)
        <5>1. clears = 1
          BY <1>0, <2>1, <3>2
        <5> QED BY <2>1, <5>1 DEF Misses
      <4> QED BY <1>0, <2>1, <2>2, <3>2, <4>1, Owed
    <3> QED BY <2>2, <3>1, <3>2
  <2>5. clears' \in Nat /\ (pc' = "clear" => clears' <= 1)
    BY <1>0, <2>1, <2>3
  <2>6. Back'
    <3>1. CASE pc' = "clear"
      BY <2>2, <2>3, <2>5, <3>1 DEF Back, Teardown, Leaving
    <3>2. CASE pc' = "ask"
      BY <2>2, <2>4, <2>5, <3>2 DEF Back, Teardown, Leaving
    <3> QED BY <2>1, <3>1, <3>2
  <2> QED BY <2>2, <2>6 DEF StnInv
<1>3. CASE AskProtocol
  <2> DEFINE next == IF chip.number THEN "pin" ELSE "search"
  <2>1. /\ pc = "ask" /\ Exchange(chip, next, "search") /\ pc' \in {"pin", "search"}
        /\ UNCHANGED <<stopped, active, tap, lost, entry, clears>>
    BY <1>3 DEF AskProtocol, Exchange, teardownSame
  <2>2. /\ Mon' /\ trouble' \in Nat /\ entry' \in Nat /\ entry' >= trouble'
        /\ trouble' <= trouble /\ chip'.number = chip.number
        /\ chip.messages = {} => chip'.messages = {}
        /\ \/ Misses(2) /\ Misses(2)'
           \/ pc' = next /\ trouble' = trouble
           \/ pc' = "search" /\ trouble' = trouble - 1
    BY <1>0, <2>1, Commands DEF Teardown
  <2>3. chip'.messages = {} \/ Misses(2)'
    <3>1. chip.messages = {} \/ Misses(2)
      BY <2>1 DEF StnInv, Back, Teardown
    <3>2. Misses(2) => Misses(2)'
      BY <1>0, <2>1, <2>2, Later
    <3> QED BY <2>2, <3>1, <3>2
  <2>4. pc' = "search" /\ chip'.number => Misses(1)'
    <3>1. CASE Misses(2)'
      <4>1. trouble' \in Nat /\ entry' \in Nat /\ entry' >= trouble' + 2
        BY <2>2, <3>1 DEF Misses
      <4> QED BY <4>1, Slack DEF Misses
    <3>2. CASE trouble' = trouble - 1
      <4>1. entry >= trouble
        BY <1>0, <2>1 DEF StnInv, Back, Leaving
      <4> QED BY <1>0, <2>1, <2>2, <3>2, <4>1, Owed
    <3> QED BY <2>2, <3>1, <3>2
  <2> HIDE DEF next
  <2> QED BY <1>0, <2>1, <2>2, <2>3, <2>4 DEF StnInv, Back, Teardown, Leaving
<1> QED BY <1>1, <1>2, <1>3

LEMMA StnReopens ==
  ASSUME StnInv, Pin \/ Probe \/ Search \/ Reprobe
  PROVE  StnInv'
<1>0. /\ DOMAIN chip = Fields /\ trouble \in Nat /\ entry \in Nat /\ clears \in Nat
      /\ pc \in {"pin", "probe", "search", "reprobe"}
      /\ pc' \in {"probe", "search", "reprobe", "done"}
      /\ UNCHANGED <<stopped, active, tap, lost, entry, clears>>
      /\ chip.messages = {} \/ Misses(2)
  BY DEF Pin, Probe, Search, Reprobe, Exchange, teardownSame,
         StnInv, Mon, Back, Fields, Teardown
<1> DEFINE Kept == /\ Mon' /\ trouble' \in Nat /\ entry' \in Nat /\ entry' >= trouble'
                   /\ trouble' <= trouble /\ chip'.number = chip.number
                   /\ chip.messages = {} => chip'.messages = {}
<1>1. Kept => (Misses(1) => Misses(1)') /\ (Misses(2) => Misses(2)')
              /\ (chip'.messages = {} \/ Misses(2)')
  <2>1. SUFFICES ASSUME Kept PROVE (Misses(1) => Misses(1)') /\ (Misses(2) => Misses(2)')
    BY <1>0
  <2> QED BY <1>0, <2>1, Later
<1>2. Kept /\ trouble' = trouble - 1 => Misses(1)' /\ (Misses(1) => Misses(2)')
  <2>1. entry >= trouble
    BY <1>0 DEF StnInv, Back, Leaving
  <2> QED BY <1>0, <2>1, Owed
<1>3. ASSUME Kept, Misses(2)' PROVE Misses(1)'
  <2>1. trouble' \in Nat /\ entry' \in Nat /\ entry' >= trouble' + 2
    BY <1>3 DEF Misses
  <2> QED BY <2>1, Slack DEF Misses
<1>4. CASE Pin
  <2>1. pc = "pin" /\ Exchange(Closed, "probe", "probe") /\ pc' = "probe"
    BY <1>4 DEF Pin, Exchange
  <2>2. /\ Kept
        /\ Misses(2)' \/ chip' = Closed \/ trouble' = trouble - 1
    BY <1>0, <2>1, Chips, Commands DEF Teardown, StnInv
  <2>3. chip'.path = "closed" \/ Misses(1)'
    BY <1>2, <1>3, <2>2, Chips DEF StnInv
  <2> QED BY <1>0, <1>1, <2>1, <2>2, <2>3 DEF StnInv, Back, Teardown, Leaving
<1>5. CASE Probe
  <2> DEFINE next == IF Probed.path = "open" THEN "done" ELSE "search"
  <2>1. /\ pc = "probe" /\ Exchange(Probed, next, "search") /\ pc' \in {"done", "search"}
        /\ chip.path = "closed" \/ Misses(1)
    BY <1>5 DEF Probe, Exchange, StnInv, Back
  <2>2. /\ Kept
        /\ \/ Misses(2)'
           \/ chip' = Probed /\ pc' = next
           \/ pc' = "search" /\ trouble' = trouble - 1
    BY <1>0, <2>1, Chips, Commands DEF Teardown, StnInv
  <2>3. pc' = "done" => chip'.path # "dead" \/ Misses(2)'
    BY <2>1, <2>2
  <2>4. pc' = "search" => Misses(1)'
    <3>1. Misses(2)' => Misses(1)'
      BY <1>3, <2>2
    <3>2. CASE chip' = Probed /\ pc' = next /\ pc' = "search"
      <4>1. chip.path # "closed"
        BY <3>2, Chips DEF StnInv
      <4> QED BY <1>1, <2>1, <2>2, <4>1
    <3> QED BY <1>2, <2>2, <3>1, <3>2
  <2> HIDE DEF next
  <2> QED BY <1>0, <1>1, <2>1, <2>2, <2>3, <2>4 DEF StnInv, Back, Teardown, Leaving
<1>6. CASE Search
  <2>1. pc = "search" /\ Exchange(Closed, "reprobe", "reprobe") /\ pc' = "reprobe"
        /\ (chip.number => Misses(1))
    BY <1>6 DEF Search, Exchange, StnInv, Back
  <2>2. /\ Kept
        /\ Misses(2)' \/ chip' = Closed \/ trouble' = trouble - 1
    BY <1>0, <2>1, Chips, Commands DEF Teardown, StnInv
  <2>3. chip'.number => chip'.path = "closed" \/ Misses(2)'
    BY <1>2, <2>1, <2>2, Chips DEF StnInv
  <2> QED BY <1>0, <1>1, <2>1, <2>2, <2>3 DEF StnInv, Back, Teardown, Leaving
<1>7. CASE Reprobe
  <2>1. pc = "reprobe" /\ Exchange(Probed, "done", "done") /\ pc' = "done"
        /\ (chip.number => chip.path = "closed" \/ Misses(2))
    BY <1>7 DEF Reprobe, Exchange, StnInv, Back
  <2>2. /\ Kept
        /\ Misses(2)' \/ chip' \in {chip, Probed}
    BY <1>0, <2>1, Chips, Commands DEF Teardown, StnInv
  <2>3. chip'.number => chip'.path # "dead" \/ Misses(2)'
    BY <1>1, <2>1, <2>2, Chips DEF StnInv
  <2> QED BY <1>0, <1>1, <2>1, <2>2, <2>3 DEF StnInv, Back, Teardown, Leaving
<1> QED BY <1>4, <1>5, <1>6, <1>7

LEMMA StnNext == StnInv /\ [Next]_vars => StnInv'
<1> SUFFICES ASSUME StnInv, [Next]_vars PROVE StnInv'
  OBVIOUS
<1>1. CASE UNCHANGED vars \/ Ended
  <2>1. UNCHANGED <<pc, chip, stopped, active, tap, lost, clears, trouble, entry>>
    BY <1>1 DEF Ended, vars
  <2> QED BY <2>1 DEF StnInv, Mon, Back, Misses, Teardown, Leaving
<1>2. CASE Next /\ ~Ended
  BY <1>2, StnInstalls, StnArms, StnAborts, StnFrames, StnBreaks, StnClears, StnReopens DEF Next
<1> QED BY <1>1, <1>2

-----------------------------------------------------------------------------
(* What the plan guarantees of its messages.                               *)
LEMMA OfPlan ==
  ASSUME Planned, NEW m \in Messages
  PROVE  /\ IdOf(m) \in Ids
         /\ \E p \in sig : p \in Range(m)
         /\ \A p \in Range(m) : p \in sig /\ Pids[p].header = IdOf(m)
<1>1. Plan(sig) \in Seq(Seq(sig) \ {<<>>}) /\ m \in Range(Plan(sig))
      /\ \A k \in Range(Plan(sig)) :
           \A p \in Range(k) : Pids[p].header = Pids[k[1]].header
  BY PlansFit DEF Planned, PlanFits, Messages
<1>2. m \in Seq(sig) /\ m # <<>>
  BY <1>1 DEF Range
<1>3. m[1] \in sig /\ m[1] \in Range(m) /\ \A p \in Range(m) : p \in sig
  BY <1>2 DEF Range
<1> QED BY <1>1, <1>3 DEF IdOf, Ids

LEMMA Frame ==
  ASSUME News, NEW f \in Range(queue)
  PROVE  /\ f.message \in Messages /\ f.n \in Nat /\ IdOf(f.message) \in Ids
         /\ f.n <= sent[IdOf(f.message)] /\ Queued(IdOf(f.message))
<1>1. f \in QueuedFrames
  BY DEF News, Typed, Range
<1> QED BY <1>1, OfPlan DEF News, Order, QueuedFrames

LEMMA NewsStart == ASSUME Init PROVE News
<1>1. Planned
  BY DEF Init, Planned
<1>2. script \in Seq(Messages)
  <2>1. Plan(sig) \in Seq(Seq(sig) \ {<<>>})
    BY <1>1, PlansFit DEF Planned, PlanFits
  <2>2. Plan(sig) \in Seq(Range(Plan(sig)))
    BY <2>1 DEF Range
  <2> QED BY <2>2 DEF Init, Messages
<1>3. sent = [id \in Ids |-> 0]
  <2>1. IdsOf({<<p>> : p \in sig}) = Ids
    <3>1. \A p : IdOf(<<p>>) = Pids[p].header
      BY DEF IdOf
    <3> QED BY <3>1 DEF IdsOf, Ids
  <2> QED BY <2>1 DEF Init
<1>4. shown = [p \in sig |-> 0] /\ queue = <<>> /\ fires = 0 /\ pc = "off"
      /\ live.decoders = {} /\ chip.messages = {}
  BY DEF Init, NoEngine
<1>5. Typed
  BY <1>2, <1>3, <1>4 DEF Typed
<1>6. Bus
  BY <1>3, <1>4 DEF Bus, Teardown
<1>7. Range(queue) = {}
  BY <1>4 DEF Range
<1>8. Order
  BY <1>3, <1>7 DEF Order
<1> QED BY <1>1, <1>5, <1>6, <1>8 DEF News

(* The steps that leave the frames and the chip's messages alone.          *)
LEMMA Quiet ==
  ASSUME News, UNCHANGED <<sig, live, queue, sent, shown, fires>>,
         script' \in Seq(Messages), chip'.messages = chip.messages,
         pc' \in {"off", "install"} => pc \in {"off", "install"},
         pc' \in Teardown => live = NoEngine
  PROVE  News'
<1>1. Messages' = Messages /\ Ids' = Ids /\ QueuedFrames' = QueuedFrames
  BY DEF Messages, Ids, QueuedFrames
<1>2. Planned' /\ Typed' /\ Bus'
  BY <1>1 DEF News, Planned, Typed, Bus, Teardown
<1>3. \A id : Queued(id)' = Queued(id) /\ Visible(id)' = Visible(id) /\ Foreign(id)' = Foreign(id)
  BY DEF Queued, Visible, Foreign
<1>4. Order'
  BY <1>1, <1>3 DEF News, Order
<1> QED BY <1>2, <1>4 DEF News

LEMMA NewsQuiet ==
  ASSUME Mon, News,
         \/ StartMode \/ OutOfMemory \/ Installed \/ EnterMonitor
         \/ SetFilters \/ Monitor \/ Aborts \/ Holds \/ Retries
         \/ BreakByte \/ BreakEnds \/ AskProtocol \/ Pin \/ Probe
         \/ Search \/ Reprobe
  PROVE  News'
<1>0. script \in Seq(Messages) /\ <<>> \in Seq(Messages)
  BY DEF News, Typed
<1>00. DOMAIN chip = {"monitors", "normal", "messages", "filters", "path", "number"}
  BY DEF Mon
<1>01. ByteTo(chip).messages = chip.messages
  BY <1>00 DEF ByteTo
<1>1. CASE StartMode
  <2>1. chip'.messages = chip.messages /\ pc = "off" /\ pc' = "install"
    BY <1>00, <1>01, <1>1 DEF StartMode, Exchange, Heard
  <2> QED BY <1>0, <1>1, <2>1, Quiet DEF StartMode, Teardown, decode
<1>2. CASE OutOfMemory
  BY <1>0, <1>2, Quiet DEF OutOfMemory, Teardown, decode
<1>3. CASE Installed
  BY <1>0, <1>3, Quiet DEF Installed, Teardown, decode
<1>4. CASE EnterMonitor
  BY <1>0, <1>4, Quiet DEF EnterMonitor, Teardown, decode
<1>5. CASE SetFilters
  <2>1. chip'.messages = chip.messages
    BY <1>00, <1>5 DEF SetFilters
  <2> QED BY <1>0, <1>5, <2>1, Quiet DEF SetFilters, Goes, Teardown, decode
<1>6. CASE Monitor
  <2>1. chip'.messages = chip.messages
    BY <1>00, <1>01, <1>6 DEF Monitor, StmLost, Heard
  <2> QED BY <1>0, <1>6, <2>1, Quiet DEF Monitor, Goes, Teardown, decode
<1>7. CASE Aborts
  <2>1. chip'.messages = chip.messages /\ pc' = pc /\ UNCHANGED <<sig, script, live, decode>>
    BY <1>01, <1>7 DEF Aborts
  <2>2. pc \in Teardown => live = NoEngine
    BY DEF News, Bus
  <2> QED BY <1>0, <2>1, <2>2, Quiet DEF decode
<1>8. CASE Holds
  BY <1>0, <1>8, Quiet DEF Holds, Goes, Teardown, decode
<1>9. CASE Retries
  BY <1>0, <1>9, Quiet DEF Retries, Teardown, decode
<1>10. CASE BreakByte
  <2>1. chip'.messages = chip.messages
    BY <1>01, <1>10 DEF BreakByte
  <2> QED BY <1>0, <1>10, <2>1, Quiet DEF BreakByte, Teardown, decode
<1>11. CASE BreakEnds
  <2>1. chip'.messages = chip.messages
    <3>1. [chip EXCEPT !.filters = {}].messages = chip.messages
      BY <1>00
    <3> QED BY <1>01, <1>11, <3>1 DEF BreakEnds, Heard
  <2> QED BY <1>0, <1>11, <2>1, Quiet DEF BreakEnds, Goes, Teardown, decode
<1>12. CASE AskProtocol \/ Pin \/ Probe \/ Search \/ Reprobe
  <2>1. live = NoEngine
    BY <1>12 DEF News, Bus, Teardown, AskProtocol, Pin, Probe, Search,
                 Reprobe
  <2>2. UNCHANGED <<sig, script, live, queue, sent, shown, fires>>
    BY <1>12 DEF AskProtocol, Pin, Probe, Search, Reprobe,
                 teardownSame, decode
  <2>3. pc' \notin {"off", "install"}
    BY <1>12 DEF AskProtocol, Pin, Probe, Search, Reprobe, Exchange
  <2>4. chip'.messages = chip.messages
    <3>1. Closed.messages = chip.messages
      BY <1>00 DEF Closed
    <3>2. Probed.messages = chip.messages
      BY <1>00 DEF Probed
    <3> QED BY <1>01, <1>12, <3>1, <3>2 DEF AskProtocol, Pin, Probe, Search,
                                             Reprobe, Exchange, Heard
  <2> QED BY <1>0, <2>1, <2>2, <2>3, <2>4, Quiet
<1> QED BY <1>1, <1>2, <1>3, <1>4, <1>5, <1>6, <1>7, <1>8, <1>9, <1>10, <1>11, <1>12

(* Nothing fires before every message is in.                               *)
LEMMA NewsInstall == ASSUME Mon, News, Install PROVE News'
<1>0. DOMAIN chip = {"monitors", "normal", "messages", "filters", "path", "number"}
  BY DEF Mon
<1>1. /\ pc = "install" /\ script # <<>> /\ script \in Seq(Messages)
      /\ UNCHANGED <<sig, pc, queue, sent, shown, fires>> /\ script' = Tail(script)
  BY DEF Install, decode, News, Typed
<1>2. Head(script) \in Messages /\ Tail(script) \in Seq(Messages)
  BY <1>1
<1>3. chip'.messages \subseteq chip.messages \cup {Head(script)}
  BY <1>0 DEF Install, Stored
<1>4. live'.decoders \subseteq live.decoders \cup {Head(script)}
  BY DEF Install
<1>5. Messages' = Messages /\ Ids' = Ids /\ QueuedFrames' = QueuedFrames
  BY <1>1 DEF Messages, Ids, QueuedFrames
<1>6. Planned' /\ Typed'
  BY <1>1, <1>2, <1>3, <1>4, <1>5 DEF News, Planned, Typed
<1>7. queue = <<>> /\ \A id \in Ids : sent[id] = 0
  BY <1>1 DEF News, Bus
<1>8. Bus'
  BY <1>1, <1>5, <1>7 DEF News, Bus, Teardown
<1>9. Range(queue') = {}
  BY <1>1, <1>7 DEF Range
<1>10. Order'
  BY <1>1, <1>5, <1>7, <1>9 DEF Order
<1> QED BY <1>6, <1>8, <1>10 DEF News

(* Once the engine is forgotten, only the numbers matter.                  *)
LEMMA NewsForgets == ASSUME Mon, News, Abandon \/ Flush \/ Clear PROVE News'
<1>0. DOMAIN chip = {"monitors", "normal", "messages", "filters", "path", "number"}
  BY DEF Mon
<1>1. UNCHANGED <<sig, script, queue, sent, shown, fires>> /\ live' = NoEngine
  BY DEF Abandon, Flush, Clear, decode, News, Bus, Teardown
<1>2. pc' \notin {"off", "install"}
  BY DEF Abandon, Goes, Flush, Clear, Exchange
<1>3. chip'.messages \subseteq chip.messages
  <2>1. ByteTo(chip).messages = chip.messages
    BY <1>0 DEF ByteTo
  <2>2. Wiped.messages = {}
    BY <1>0 DEF Wiped
  <2> QED BY <2>1, <2>2 DEF Abandon, Flush, Clear, Exchange, Heard
<1>4. Messages' = Messages /\ Ids' = Ids /\ QueuedFrames' = QueuedFrames
  BY <1>1 DEF Messages, Ids, QueuedFrames
<1>5. Planned' /\ Typed' /\ Bus'
  BY <1>1, <1>2, <1>3, <1>4 DEF News, Planned, Typed, Bus, NoEngine
<1>6. \A id : Queued(id)' = Queued(id)
  BY <1>1 DEF Queued
<1>7. Order'
  BY <1>1, <1>4, <1>6 DEF News, Order
<1> QED BY <1>5, <1>7 DEF News

(* A frame is the newest of its id when it joins the queue.                *)
LEMMA NewsFires ==
  ASSUME Mon, News, NEW m \in chip.messages, Fires(m) PROVE News'
<1>1. /\ UNCHANGED <<sig, pc, script, chip, live, shown>> /\ fires' = fires + 1
      /\ fires \in Nat /\ m \in Messages /\ sent \in [Ids -> Nat] /\ queue \in Seq(QueuedFrames)
  BY DEF Fires, News, Typed
<1>2. Messages' = Messages /\ Ids' = Ids /\ QueuedFrames' = QueuedFrames
  BY <1>1 DEF Messages, Ids, QueuedFrames
<1>3. pc \notin {"off", "install"} /\ (live # NoEngine => pc \notin Teardown)
  BY DEF Fires, Mon, News, Bus, Misses, Leaving
<1>4. CASE UNCHANGED <<queue, sent>>
  <2>1. Planned' /\ Typed' /\ Bus'
    BY <1>1, <1>2, <1>4 DEF News, Planned, Typed, Bus
  <2>2. \A id : Queued(id)' = Queued(id) /\ Visible(id)' = Visible(id)
                /\ Foreign(id)' = Foreign(id)
    BY <1>1, <1>4 DEF Queued, Visible, Foreign
  <2>3. Order'
    BY <1>1, <1>2, <1>4, <2>2 DEF News, Order
  <2> QED BY <2>1, <2>3 DEF News
<1>5. CASE /\ queue' = Append(queue, [message |-> m, n |-> fires + 1])
           /\ sent' = [sent EXCEPT ![IdOf(m)] = fires + 1]
  <2> DEFINE f == [message |-> m, n |-> fires + 1]
  <2>1. IdOf(m) \in Ids /\ Planned
    BY <1>1, OfPlan DEF News
  <2>2. f \in QueuedFrames
    BY <1>1 DEF QueuedFrames
  <2>3. Range(queue') = Range(queue) \cup {f}
    BY <1>1, <1>5, <2>2 DEF Range
  <2>4. sent' \in [Ids -> Nat] /\ sent'[IdOf(m)] = fires + 1
        /\ \A id \in Ids \ {IdOf(m)} : sent'[id] = sent[id]
    BY <1>1, <1>5, <2>1
  <2>5. \A id \in Ids : sent[id] <= fires
    BY DEF News, Bus
  <2>6. queue' \in Seq(QueuedFrames)
    BY <1>1, <1>5, <2>2
  <2>7. Planned' /\ Typed'
    BY <1>1, <1>2, <2>4, <2>6 DEF News, Planned, Typed
  <2>8. Bus'
    <3>1. \A id \in Ids : sent'[id] <= fires'
      BY <1>1, <2>4, <2>5
    <3> QED BY <1>1, <1>2, <1>3, <3>1 DEF News, Bus
  <2>9. Queued(IdOf(m))'
    <3>1. f \in Range(queue') /\ f.message = m /\ f.n = sent'[IdOf(m)]
      BY <2>3, <2>4
    <3>2. IdOf(f.message)' = IdOf(m)
      BY <3>1 DEF IdOf
    <3> QED BY <3>1, <3>2 DEF Queued, IdOf
  <2>10. \A id \in Ids \ {IdOf(m)} : Queued(id) => Queued(id)'
    BY <2>3, <2>4 DEF Queued
  <2>11. \A id \in Ids \ {IdOf(m)} : /\ Visible(id) => Visible(id)'
                                     /\ Foreign(id) => Foreign(id)'
    BY <1>1, <2>4 DEF Visible, Foreign
  <2>12. ASSUME NEW g \in Range(queue')
         PROVE  /\ g.n <= sent'[IdOf(g.message)] /\ Queued(IdOf(g.message))'
                /\ live' # NoEngine => g.message \in chip'.messages
    <3>1. CASE g = f
      BY <1>1, <2>4, <2>9, <3>1
    <3>2. CASE g \in Range(queue)
      <4>1. /\ IdOf(g.message) \in Ids /\ g.n <= sent[IdOf(g.message)] /\ g.n \in Nat
            /\ Queued(IdOf(g.message))
        BY <3>2, Frame
      <4>2. live # NoEngine => g.message \in chip.messages
        BY <3>2 DEF News, Order
      <4>3. g.n <= sent'[IdOf(g.message)]
        BY <1>1, <2>4, <2>5, <4>1
      <4>4. Queued(IdOf(g.message))'
        BY <2>9, <2>10, <4>1
      <4> QED BY <1>1, <4>2, <4>3, <4>4
    <3> QED BY <2>3, <3>1, <3>2
  <2>13. ASSUME live' # NoEngine, NEW id \in Ids, sent'[id] > 0
         PROVE  Queued(id)' \/ Visible(id)' \/ Foreign(id)'
    <3>1. CASE id = IdOf(m)
      BY <2>9, <3>1
    <3>2. CASE id # IdOf(m)
      <4>1. Queued(id) \/ Visible(id) \/ Foreign(id)
        BY <1>1, <2>4, <2>13, <3>2 DEF News, Order
      <4>2. /\ Queued(id) => Queued(id)'
            /\ Visible(id) => Visible(id)'
            /\ Foreign(id) => Foreign(id)'
        BY <2>10, <2>11, <3>2
      <4> QED BY <4>1, <4>2
    <3> QED BY <3>1, <3>2
  <2>14. Order'
    BY <1>2, <2>12, <2>13 DEF Order
  <2> QED BY <2>7, <2>8, <2>14 DEF News
<1> QED BY <1>4, <1>5 DEF Fires

(* Decoding shows the newest frame of every id it may decode.              *)
LEMMA NewsDecode == ASSUME News, Decode PROVE News'
<1>1. /\ UNCHANGED <<sig, pc, script, chip, live, sent, fires>> /\ queue' = <<>>
      /\ sent \in [Ids -> Nat] /\ shown \in [sig -> Nat] /\ Planned
  BY DEF Decode, News, Typed
<1> DEFINE From(p) == {g \in Freshest : g.message \in live.decoders
                                            /\ p \in Range(g.message)}
<1>2. shown' = [p \in sig |-> IF From(p) = {} THEN shown[p] ELSE (CHOOSE g \in From(p) : TRUE).n]
  BY <1>1 DEF Decode
<1>3. Messages' = Messages /\ Ids' = Ids /\ QueuedFrames' = QueuedFrames
  BY <1>1 DEF Messages, Ids, QueuedFrames
<1>4. \A p \in sig : \A g \in From(p) : g \in Range(queue) /\ g.n \in Nat
  BY Frame DEF Freshest
<1>5. shown' \in [sig -> Nat]
  <2>1. ASSUME NEW p \in sig
        PROVE  (IF From(p) = {} THEN shown[p] ELSE (CHOOSE g \in From(p) : TRUE).n) \in Nat
    <3>1. CASE From(p) = {}
      BY <1>1, <3>1
    <3>2. CASE From(p) # {}
      <4>1. (CHOOSE g \in From(p) : TRUE) \in From(p)
        BY <3>2
      <4> QED BY <1>4, <3>2, <4>1
    <3> QED BY <3>1, <3>2
  <2> QED BY <1>2, <2>1
<1>6. Planned' /\ Typed' /\ Bus'
  <2>1. queue' \in Seq(QueuedFrames')
    BY <1>1
  <2> QED BY <1>1, <1>3, <1>5, <2>1 DEF News, Planned, Typed, Bus
<1>7. Range(queue') = {}
  BY <1>1 DEF Range
<1>8. ASSUME live # NoEngine, NEW id \in Ids, sent[id] > 0
      PROVE  Visible(id)' \/ Foreign(id)'
  <2>1. CASE Queued(id)
    <3>1. PICK g \in Range(queue) : IdOf(g.message) = id /\ g.n = sent[id]
      BY <2>1 DEF Queued
    <3>2. g.message \in Messages /\ g.message \in chip.messages
      BY <1>8, <3>1, Frame DEF News, Order
    <3>3. CASE g.message \notin live.decoders
      BY <1>1, <3>1, <3>2, <3>3 DEF Foreign, IdOf
    <3>4. CASE g.message \in live.decoders
      <4>1. PICK p \in sig : p \in Range(g.message) /\ Pids[p].header = id
        BY <1>1, <3>1, <3>2, OfPlan
      <4>2. \A h \in Range(queue) : IdOf(h.message) = id => h.n <= g.n
        BY <3>1, Frame
      <4>3. g \in From(p)
        BY <3>1, <3>4, <4>1, <4>2 DEF Freshest
      <4>4. ASSUME NEW h \in From(p) PROVE h.n = sent[id]
        <5>1. h \in Range(queue) /\ p \in Range(h.message)
              /\ h.n \in Nat /\ h.message \in Messages
          BY <4>4, Frame DEF Freshest
        <5>2. IdOf(h.message) = id
          BY <1>1, <4>1, <5>1, OfPlan
        <5>3. g.n <= h.n
          BY <3>1, <4>4, <5>2 DEF Freshest
        <5>4. h.n <= sent[id]
          BY <5>1, <5>2, Frame
        <5> QED BY <1>1, <3>1, <5>1, <5>3, <5>4
      <4>5. shown'[p] = sent[id]
        <5>1. (CHOOSE h \in From(p) : TRUE) \in From(p)
          BY <4>3
        <5> QED BY <1>2, <4>3, <4>4, <5>1
      <4> QED BY <1>1, <4>1, <4>5 DEF Visible
    <3> QED BY <3>3, <3>4
  <2>2. CASE ~Queued(id)
    <3>1. CASE Visible(id)
      <4>1. PICK p \in sig : Pids[p].header = id /\ shown[p] = sent[id]
        BY <3>1 DEF Visible
      <4>2. ASSUME NEW h \in From(p) PROVE FALSE
        <5>1. h \in Range(queue) /\ p \in Range(h.message)
              /\ h.message \in Messages
          BY <4>2, Frame DEF Freshest
        <5>2. IdOf(h.message) = id
          BY <1>1, <4>1, <5>1, OfPlan
        <5> QED BY <2>2, <5>1, <5>2, Frame
      <4>3. shown'[p] = shown[p]
        BY <1>2, <4>2
      <4> QED BY <1>1, <4>1, <4>3 DEF Visible
    <3>2. CASE Foreign(id)
      BY <1>1, <3>2 DEF Foreign, IdOf
    <3> QED BY <1>8, <2>2, <3>1, <3>2 DEF News, Order
  <2> QED BY <2>1, <2>2
<1>9. Order'
  BY <1>1, <1>3, <1>7, <1>8 DEF Order
<1> QED BY <1>6, <1>9 DEF News

LEMMA NewsNext == ASSUME StnInv, News, [Next]_vars PROVE News'
<1>1. CASE UNCHANGED vars
  BY <1>1, Quiet DEF vars, decode, News, Typed, Bus
<1>2. CASE Ended
  BY <1>2, Quiet DEF Ended, vars, decode, News, Typed, Bus
<1>3. CASE Next /\ ~Ended
  BY <1>3, NewsQuiet, NewsInstall, NewsForgets, NewsFires, NewsDecode DEF Next, StnInv
<1> QED BY <1>1, <1>2, <1>3

(* The host is shown the newest frame of every id whose frames the decoder *)
(* knows and the queue no longer holds, for any pids, memory and number of  *)
(* frames.                                                                  *)
THEOREM NewestFrames == Spec => []NewestShown
<1>1. ASSUME News PROVE NewestShown
  <2>1. DOMAIN sent = Ids
    BY <1>1 DEF News, Typed
  <2>2. queue = <<>> => \A id \in Ids : ~Queued(id)
    BY DEF Queued, Range
  <2> QED BY <1>1, <2>1, <2>2 DEF News, Order, Visible, Foreign, NewestShown
<1>2. Init => StnInv /\ News
  BY StnStart, NewsStart
<1>3. StnInv /\ News /\ [Next]_vars => (StnInv /\ News)'
  BY StnNext, NewsNext
<1> QED BY <1>1, <1>2, <1>3, PTL DEF Spec


(* monitor_active (MonitorHandshake) is set over every monitor the chip     *)
(* runs, from the verdict on STM to the break and after it, unless the      *)
(* break lost both its bytes; and it is set over a prompt only after an STM *)
(* that was lost or an abort the tap has noted as STOPPED - for any pids,    *)
(* attempts and number of losses and aborts, whenever they come.            *)
THEOREM MonitorsKnown == Spec => []MonitorKnown
<1>1. StnInv => MonitorKnown
  BY DEF StnInv, Mon, Back, Misses, Missed, Leaving, MonitorKnown
<1> QED BY <1>1, StnStart, StnNext, PTL DEF Spec

(* A teardown that meets at most one loss leaves no periodic message        *)
(* transmitting and the request path alive, wherever in the engine's life   *)
(* it began.                                                                *)
THEOREM TeardownsClean == Spec => []LeavesClean
<1>1. StnInv => LeavesClean
  BY DEF StnInv, Mon, Back, Teardown, Misses, Missed, Leaving, LeavesClean
<1> QED BY <1>1, StnStart, StnNext, PTL DEF Spec

-----------------------------------------------------------------------------
(***************************************************************************)
(* The DVI link: what its handler makes of the adapter is so, as long as   *)
(* it heard every exchange rightly.                                        *)
(***************************************************************************)
Decoders == [slot : Nat, msg : Nat]
OpsOf(t) ==
  CASE t = "worker" -> {"flow"}
    [] t = "collector" -> {"api"}
    [] t = "engine" -> {"load", "enable", "disable"}
    [] t = "host" -> {"pass", "park", "listen", "stamps", "unstamps", "normal",
                      "unpass", "unpark"}
Ops == {None, "poll"} \cup UNION {OpsOf(t) : t \in Callers}
Asks == [op : Ops, n : Nat, msg : Nat, ecu : Targets \cup {None}]
Requests == [by : Callers, ask : Asks, pids : Polls \cup {<<>>}]
Exchanges == [ask : Asks, fate : {None, "open", "done", "refused"},
              end : {None, "ok", "error", "timeout"}]
Budgets == [ops : SUBSET {"poll", "slots", "capture"}, polls : SUBSET Polls,
            sends : 0 .. MaxSends, trouble : Nat]
Engines == [pc : {"idle", "load", "enable", "disable"}, todo : Seq(Decoders),
            loaded : Seq(Decoders)]
Periodics == [live : BOOLEAN, open : BOOLEAN, decoders : Seq(Decoders)]
Filters == 1 .. MaxFilters
Hosts == [pc : {"idle", "pass", "listen", "stamps", "stop"}, todo : Seq(Asks),
          filters : SUBSET Filters, listen : BOOLEAN]
Captures == [filters : SUBSET Filters, listen : BOOLEAN, parked : BOOLEAN, tap : BOOLEAN]
Tools == [msg : [Slots -> Nat], on : SUBSET Nat, flow : Targets \cup {None},
          filters : SUBSET Nat, parked : BOOLEAN, listen : BOOLEAN]

LinkTyped ==
  /\ target \in Targets /\ dynFlow \in Targets \cup {None}
  /\ writing \in [pc : {"idle", "flow", "write"}, wire : Wires \cup {NoWire},
                  ecu : Targets \cup {None}]
  /\ exchange \in [Callers -> Exchanges] /\ inbox \in Seq(Requests)
  /\ tool \in Tools /\ periodic \in Periodics /\ engine \in Engines
  /\ host \in Hosts /\ capture \in Captures /\ budget \in Budgets

(* A request in the inbox is one its caller waits for, and what a caller   *)
(* heard of its request is what became of it.                              *)
IsAsk(i) == inbox[i].ask.op # "poll"
Mail ==
  /\ \A i \in DOMAIN inbox : IsAsk(i) =>
       /\ exchange[inbox[i].by].ask = inbox[i].ask
       /\ exchange[inbox[i].by].fate = "open" /\ exchange[inbox[i].by].end = None
  /\ \A i, j \in DOMAIN inbox :
       i # j /\ IsAsk(i) /\ IsAsk(j) => inbox[i].by # inbox[j].by

Tidy ==
  \A t \in Callers :
    /\ exchange[t].ask = NoAsk => exchange[t] = NoExchange
    /\ exchange[t].ask # NoAsk => exchange[t].ask.op \in OpsOf(t) /\ exchange[t].fate # None
    /\ exchange[t].end # None =>
         /\ exchange[t].fate \in {"done", "refused"}
         /\ exchange[t].end = "ok" <=> exchange[t].fate = "done"
         /\ exchange[t].fate = "refused" => exchange[t].ask.op \notin Undo

Done(t) == exchange[t].fate = "done"

(* The FLOW filter, and the request for it of the header under way.        *)
Flow ==
  /\ exchange["worker"].ask # NoAsk =>
       writing.pc = "flow" /\ exchange["worker"].ask.ecu = writing.ecu
  /\ tool.flow = IF Done("worker") THEN writing.ecu ELSE dynFlow

(* The slots: those installed, the one being enabled, those to disable.    *)
SlotsOf(q) == {q[i].slot : i \in DOMAIN q}
First == IF Done("engine") THEN {Head(engine.todo).slot} ELSE {}
Engine ==
  /\ exchange["engine"].ask # NoAsk =>
       /\ engine.todo # <<>> /\ exchange["engine"].ask.op = engine.pc
       /\ engine.pc # "load" => exchange["engine"].ask.n = Head(engine.todo).slot
  /\ ~periodic.live => periodic.decoders = <<>>
  /\ engine.pc = "idle" => /\ engine.todo = <<>>
                           /\ tool.on \subseteq SlotsOf(periodic.decoders)
  /\ engine.pc = "load" => tool.on = {} /\ ~periodic.live
  /\ engine.pc = "enable" =>
       /\ SlotsOf(engine.todo) \cup SlotsOf(engine.loaded) \subseteq SlotsOf(periodic.decoders)
       /\ tool.on \subseteq SlotsOf(engine.loaded) \cup First
  /\ engine.pc = "disable" => tool.on \subseteq SlotsOf(engine.todo) \ First

(* The bus: what a capture has set up so far, what it put on record, and   *)
(* what a stop has still to undo.                                          *)
OpsIn(q, ops) == \A i \in DOMAIN q : q[i].op \in ops
Setup ==
  /\ host.pc \in {"pass", "listen"} => ~capture.tap
  /\ host.pc = "pass" =>
       /\ OpsIn(host.todo, {"pass"}) /\ \A i \in DOMAIN host.todo : host.todo[i].n \in Filters
       /\ tool.filters \subseteq
            host.filters \cup (IF Done("host") THEN {Head(host.todo).n} ELSE {})
       /\ ~tool.parked /\ ~tool.listen
  /\ host.pc = "listen" =>
       /\ tool.filters \subseteq host.filters
       /\ tool.parked => host.filters # {}
       /\ host.todo \in {<<>>, <<Plainly("listen")>>, <<Plainly("park"), Plainly("listen")>>}
       /\ host.todo = <<Plainly("park"), Plainly("listen")>> => host.filters # {}
       /\ tool.listen => \/ host.todo = <<>> /\ host.listen
                         \/ host.todo = <<Plainly("listen")>> /\ Done("host")

Recorded ==
  /\ host.pc = "idle" => host.todo = <<>>
  /\ host.pc = "stamps" => OpsIn(host.todo, {"stamps"}) /\ capture.tap
  /\ host.pc \in {"idle", "stamps"} =>
       /\ tool.filters \subseteq capture.filters
       /\ tool.parked => capture.parked
       /\ tool.listen => capture.listen
       /\ ~capture.tap => capture = NoCapture

Undoes(op, n) ==
  \E i \in DOMAIN host.todo :
    /\ host.todo[i].op = op /\ host.todo[i].n = n
    /\ i = 1 => ~Done("host")
Undoing ==
  host.pc = "stop" =>
    /\ OpsIn(host.todo, {"unstamps", "normal", "unpass", "unpark"})
    /\ capture = NoCapture
    /\ tool.listen => Undoes("normal", 0)
    /\ tool.parked => Undoes("unpark", 0)
    /\ \A n \in tool.filters : Undoes("unpass", n)

Host ==
  /\ exchange["host"].ask # NoAsk =>
       host.todo # <<>> /\ exchange["host"].ask = Head(host.todo)
  /\ Setup /\ Recorded /\ Undoing

Known == LinkTyped /\ Mail /\ Tidy /\ Flow /\ Engine /\ Host

LEMMA Named ==
  /\ \A t \in Callers : OpsOf(t) \subseteq Ops /\ None \notin OpsOf(t) /\ "poll" \notin OpsOf(t)
  /\ NoAsk \in Asks /\ NoAsk.op = None
  /\ \A op \in Ops, n \in Nat, msg \in Nat, ecu \in Targets \cup {None} :
       Ask(op, n, msg, ecu) \in Asks
<1>1. \A t \in Callers : OpsOf(t) \subseteq Ops
  BY DEF Ops
<1>2. \A t \in Callers : None \notin OpsOf(t) /\ "poll" \notin OpsOf(t)
  BY DEF OpsOf, Callers, None
<1>3. None \in Ops
  BY DEF Ops
<1> QED BY <1>1, <1>2, <1>3 DEF NoAsk, Ask, Asks

LEMMA Inboxed ==
  ASSUME inbox \in Seq(Requests)
  PROVE  /\ Len(inbox) \in Nat /\ DOMAIN inbox = 1 .. Len(inbox)
         /\ \A i \in DOMAIN inbox : inbox[i] \in Requests /\ inbox[i].by \in Callers
<1>1. \A i \in DOMAIN inbox : inbox[i] \in Requests
  OBVIOUS
<1> QED BY <1>1 DEF Requests

(* What a step of one exchange does to the others, and to the inbox.       *)
SameFor(t) == exchange'[t].ask = exchange[t].ask /\ Done(t)' = Done(t)
Posted == /\ exchange' \in [Callers -> Exchanges] /\ inbox' \in Seq(Requests)
          /\ Mail' /\ Tidy'

LEMMA Begun ==
  ASSUME Known, NEW t \in Callers, NEW ask \in Asks, ask.op \in OpsOf(t), Begin(t, ask)
  PROVE  /\ Posted /\ untold' = untold /\ ask # NoAsk /\ exchange[t].ask = NoAsk
         /\ exchange'[t].ask = ask /\ exchange'[t].fate = "open"
         /\ \A u \in Callers : u # t => SameFor(u)
<1> DEFINE r == [by |-> t, ask |-> ask, pids |-> <<>>]
           x == [ask |-> ask, fate |-> "open", end |-> None]
<1>1. /\ exchange[t].ask = NoAsk /\ exchange[t] = NoExchange /\ ask # NoAsk /\ ask.op # "poll"
      /\ inbox \in Seq(Requests) /\ exchange \in [Callers -> Exchanges]
      /\ inbox' = Append(inbox, r) /\ exchange' = [exchange EXCEPT ![t] = x]
      /\ untold' = untold
  BY Named DEF Known, Tidy, LinkTyped, Begin, Free
<1>2. r \in Requests /\ x \in Exchanges /\ x.fate # None /\ r.by = t /\ r.ask = ask
      /\ x.ask = ask /\ x.fate = "open" /\ x.end = None
  BY DEF Requests, Exchanges, None
<1> HIDE DEF r, x
<1>3. /\ exchange' \in [Callers -> Exchanges] /\ inbox' \in Seq(Requests) /\ exchange'[t] = x
      /\ \A u \in Callers : u # t => exchange'[u] = exchange[u]
  BY <1>1, <1>2
<1>4. /\ DOMAIN inbox' = DOMAIN inbox \cup {Len(inbox) + 1} /\ inbox'[Len(inbox) + 1] = r
      /\ \A i \in DOMAIN inbox : inbox'[i] = inbox[i] /\ inbox[i].by \in Callers
                                 /\ i # Len(inbox) + 1
  BY <1>1, <1>2, Inboxed
<1>5. \A i \in DOMAIN inbox : IsAsk(i) => inbox[i].by # t
  BY <1>1 DEF Known, Mail, NoExchange, None
<1>6. Mail'
  BY <1>2, <1>3, <1>4, <1>5 DEF Known, Mail, IsAsk
<1>7. Tidy'
  BY <1>1, <1>2, <1>3 DEF Known, Tidy
<1> QED BY <1>1, <1>2, <1>3, <1>6, <1>7 DEF Posted, SameFor, Done

LEMMA Finished ==
  ASSUME Known, NEW t \in Callers, exchange[t].end # None, Finish(t), inbox' = inbox
  PROVE  /\ Posted
         /\ exchange[t].ask # NoAsk /\ exchange[t].ask.op \in OpsOf(t)
         /\ exchange[t].fate \in {"done", "refused"}
         /\ exchange[t].end = "ok" <=> Done(t)
         /\ ~Done(t) => exchange[t].ask.op \notin Undo
         /\ exchange'[t].ask = NoAsk /\ ~Done(t)'
         /\ \A u \in Callers : u # t => SameFor(u)
<1>1. /\ NoExchange \in Exchanges /\ NoExchange.ask = NoAsk /\ NoExchange.fate = None
      /\ NoExchange.end = None
  BY Named DEF NoExchange, Exchanges
<1>2. /\ exchange' \in [Callers -> Exchanges] /\ exchange'[t] = NoExchange
      /\ \A u \in Callers : u # t => exchange'[u] = exchange[u]
  BY <1>1 DEF Known, LinkTyped, Finish
<1>3. \A i \in DOMAIN inbox : IsAsk(i) => inbox[i].by # t
  BY DEF Known, Mail
<1>4. \A i \in DOMAIN inbox : inbox[i].by \in Callers
  BY Inboxed DEF Known, LinkTyped
<1>5. Mail'
  BY <1>2, <1>3, <1>4 DEF Known, Mail, IsAsk
<1>6. Tidy'
  BY <1>1, <1>2 DEF Known, Tidy
<1>7. exchange[t].ask # NoAsk
  BY <1>1 DEF Known, Tidy
<1> QED BY <1>1, <1>2, <1>5, <1>6, <1>7 DEF Known, LinkTyped, Tidy, Posted, SameFor, Done, None

LEMMA Ending ==
  ASSUME Known, ~untold', NEW t \in Callers, NEW end \in {"ok", "error", "timeout"},
         Waiting(t), Ends(t, end), inbox' = inbox
  PROVE  Posted /\ ~untold /\ \A u \in Callers : SameFor(u)
<1>1. /\ exchange[t].ask # NoAsk /\ exchange[t].end = None /\ ~untold
      /\ end = "ok" <=> exchange[t].fate = "done"
      /\ end # "ok" => exchange[t].fate # "open" /\ exchange[t].ask.op \notin Undo
      /\ exchange \in [Callers -> Exchanges] /\ exchange' = [exchange EXCEPT ![t].end = end]
  BY DEF Known, LinkTyped, Waiting, Ends
<1>2. /\ exchange' \in [Callers -> Exchanges] /\ exchange'[t].end = end
      /\ \A u \in Callers : SameFor(u) /\ (u # t => exchange'[u] = exchange[u])
  BY <1>1 DEF Exchanges, SameFor, Done
<1>3. exchange[t].fate # "open"
  BY <1>1
<1>4. \A i \in DOMAIN inbox : inbox[i].by \in Callers /\ (IsAsk(i) => inbox[i].by # t)
  BY <1>3, Inboxed DEF Known, Mail, LinkTyped
<1>5. Mail'
  BY <1>2, <1>4 DEF Known, Mail, IsAsk
<1>6. exchange[t].fate \in {"done", "refused"} /\ exchange[t].ask.op \in OpsOf(t)
  <2>1. exchange[t].fate \in {None, "open", "done", "refused"}
    BY <1>1 DEF Exchanges
  <2> QED BY <1>1, <2>1 DEF Known, Tidy
<1>7. Tidy'
  <2>1. SUFFICES ASSUME NEW u \in Callers
                 PROVE  /\ exchange'[u].ask = NoAsk => exchange'[u] = NoExchange
                        /\ exchange'[u].ask # NoAsk => exchange'[u].ask.op \in OpsOf(u)
                                                       /\ exchange'[u].fate # None
                        /\ exchange'[u].end # None =>
                             /\ exchange'[u].fate \in {"done", "refused"}
                             /\ exchange'[u].end = "ok" <=> exchange'[u].fate = "done"
                             /\ exchange'[u].fate = "refused" => exchange'[u].ask.op \notin Undo
    BY DEF Tidy
  <2>2. CASE u = t
    BY <1>1, <1>2, <1>6, <2>2 DEF SameFor, None
  <2>3. CASE u # t
    BY <1>2, <2>3 DEF Known, Tidy
  <2> QED BY <2>2, <2>3
<1> QED BY <1>1, <1>2, <1>5, <1>7, Inboxed DEF Known, LinkTyped, Posted

LEMMA Passed ==
  ASSUME Known, exchange' = exchange,
         \/ inbox' = inbox
         \/ inbox # <<>> /\ inbox' = Tail(inbox)
         \/ \E r \in Requests : r.ask.op = "poll" /\ inbox' = Append(inbox, r)
  PROVE  Posted
<1>1. Tidy' /\ exchange' \in [Callers -> Exchanges] /\ inbox \in Seq(Requests)
  BY DEF Known, Tidy, LinkTyped
<1>2. CASE inbox' = inbox
  BY <1>1, <1>2 DEF Known, Mail, IsAsk, Posted
<1>3. CASE inbox # <<>> /\ inbox' = Tail(inbox)
  <2>1. /\ inbox' \in Seq(Requests)
        /\ \A i \in DOMAIN inbox' : i \in Int /\ i + 1 \in DOMAIN inbox /\ inbox'[i] = inbox[i + 1]
    BY <1>1, <1>3
  <2>2. Mail'
    BY <2>1 DEF Known, Mail, IsAsk
  <2> QED BY <1>1, <2>1, <2>2 DEF Posted
<1>4. CASE \E r \in Requests : r.ask.op = "poll" /\ inbox' = Append(inbox, r)
  <2>1. PICK r \in Requests : r.ask.op = "poll" /\ inbox' = Append(inbox, r)
    BY <1>4
  <2>2. /\ inbox' \in Seq(Requests)
        /\ \A i \in DOMAIN inbox' : \/ i \in DOMAIN inbox /\ inbox'[i] = inbox[i]
                                    \/ inbox'[i] = r
    BY <1>1, <2>1
  <2>3. Mail'
    BY <2>1, <2>2 DEF Known, Mail, IsAsk
  <2> QED BY <1>1, <2>2, <2>3 DEF Posted
<1> QED BY <1>2, <1>3, <1>4

LEMMA Answered ==
  ASSUME Known, Asked, inbox' = Tail(inbox), NEW fate \in {"done", "refused"}, Fated(fate)
  PROVE  LET t == Head(inbox).by
         IN /\ Posted /\ t \in Callers
            /\ exchange[t].ask = Head(inbox).ask /\ exchange[t].ask # NoAsk
            /\ ~Done(t) /\ exchange[t].ask.op \in OpsOf(t)
            /\ exchange'[t].ask = exchange[t].ask /\ exchange'[t].fate = fate
            /\ \A u \in Callers : u # t => SameFor(u)
<1> DEFINE t == Head(inbox).by
<1>0. /\ inbox \in Seq(Requests) /\ inbox # <<>> /\ Head(inbox).ask.op # "poll"
  BY DEF Known, LinkTyped, Asked
<1>1. /\ inbox \in Seq(Requests) /\ inbox # <<>> /\ Head(inbox) = inbox[1] /\ 1 \in DOMAIN inbox
      /\ IsAsk(1) /\ inbox[1].by = t /\ t \in Callers
  <2>1. Head(inbox) = inbox[1] /\ 1 \in DOMAIN inbox
    BY <1>0
  <2> QED BY <1>0, <2>1, Inboxed DEF IsAsk
<1>2. /\ exchange[t].ask = Head(inbox).ask /\ exchange[t].fate = "open" /\ exchange[t].end = None
      /\ exchange \in [Callers -> Exchanges]
  BY <1>1 DEF Known, Mail, LinkTyped
<1>3. exchange[t].ask # NoAsk /\ exchange[t].ask.op \in OpsOf(t)
  BY <1>1, <1>2 DEF Known, Tidy, NoExchange, None
<1>4. exchange' = [exchange EXCEPT ![t].fate = fate]
  BY <1>2 DEF Fated
<1> HIDE DEF t
<1>5. /\ exchange' \in [Callers -> Exchanges] /\ exchange'[t].ask = exchange[t].ask
      /\ exchange'[t].fate = fate /\ exchange'[t].end = None
      /\ \A u \in Callers : u # t => exchange'[u] = exchange[u]
  BY <1>1, <1>2, <1>4 DEF Exchanges
<1>6. /\ inbox' \in Seq(Requests)
      /\ \A i \in DOMAIN inbox' : /\ i \in Int /\ i + 1 \in DOMAIN inbox /\ i + 1 # 1
                                  /\ inbox'[i] = inbox[i + 1] /\ inbox[i + 1].by \in Callers
  BY <1>1, Inboxed
<1>7. \A i \in DOMAIN inbox' : IsAsk(i + 1) => inbox[i + 1].by # t
  BY <1>1, <1>6 DEF Known, Mail
<1>8. Mail'
  BY <1>5, <1>6, <1>7 DEF Known, Mail, IsAsk
<1>9. Tidy'
  BY <1>1, <1>2, <1>3, <1>5 DEF Known, Tidy, None
<1> QED BY <1>1, <1>2, <1>3, <1>5, <1>6, <1>8, <1>9 DEF t, Posted, SameFor, Done

(* A part of the state that a step leaves alone.                           *)
LEMMA FlowSame ==
  ASSUME Known, SameFor("worker"), tool'.flow = tool.flow, dynFlow' = dynFlow,
         writing' = writing \/ exchange["worker"].ask = NoAsk
  PROVE  Flow'
<1>1. exchange["worker"].ask = NoAsk => ~Done("worker")
  BY DEF Known, Tidy, Callers, Done, NoExchange, None
<1> QED BY <1>1 DEF Known, Flow, Done, SameFor

LEMMA EngineSame ==
  ASSUME Known, SameFor("engine"), UNCHANGED <<engine, periodic>>, tool'.on = tool.on
  PROVE  Engine'
<1>1. First' = First
  BY DEF SameFor, Done, First
<1>2. /\ SlotsOf(periodic.decoders)' = SlotsOf(periodic.decoders)
      /\ SlotsOf(engine.todo)' = SlotsOf(engine.todo)
      /\ SlotsOf(engine.loaded)' = SlotsOf(engine.loaded)
  BY DEF SlotsOf
<1> QED BY <1>1, <1>2 DEF Known, Engine, SameFor

LEMMA HostSame ==
  ASSUME Known, SameFor("host"), UNCHANGED <<host, capture>>, tool'.filters = tool.filters,
         tool'.parked = tool.parked, tool'.listen = tool.listen
  PROVE  Host'
<1>1. Done("host")' = Done("host")
  BY DEF SameFor, Done
<1>2. \A op, n : Undoes(op, n)' = Undoes(op, n)
  BY <1>1 DEF Undoes
<1>3. Setup'
  BY <1>1 DEF Known, Host, Setup, OpsIn
<1>4. Recorded'
  BY DEF Known, Host, Recorded, OpsIn
<1>5. Undoing'
  BY <1>2 DEF Known, Host, Undoing, OpsIn
<1> QED BY <1>3, <1>4, <1>5 DEF Known, Host, SameFor

LEMMA Troubled == ASSUME Known, Trouble \/ UNCHANGED budget PROVE budget' \in Budgets
<1>1. CASE Trouble
  <2>1. /\ budget \in Budgets /\ budget.trouble - 1 \in Nat
        /\ budget' = [budget EXCEPT !.trouble = budget.trouble - 1]
    BY <1>1 DEF Known, LinkTyped, Trouble, Budgets
  <2> DEFINE n == budget.trouble - 1
  <2> HIDE DEF n
  <2>2. n \in Nat /\ budget' = [budget EXCEPT !.trouble = n]
    BY <2>1 DEF n
  <2> QED BY <2>1, <2>2 DEF Budgets
<1> QED BY <1>1 DEF Known, LinkTyped

LEMMA Aside ==
  ASSUME Known, Posted, Trouble \/ UNCHANGED budget,
         SameFor("worker"), SameFor("engine"), SameFor("host"),
         UNCHANGED <<tool, engine, periodic, host, capture, dynFlow, writing, target>>
  PROVE  Known'
<1>1. LinkTyped'
  BY Troubled DEF Known, LinkTyped, Posted
<1> QED BY <1>1, FlowSame, EngineSame, HostSame DEF Known, Posted

LEMMA Quietly ==
  ASSUME Known, Posted, Trouble \/ UNCHANGED budget,
         UNCHANGED <<exchange, tool, engine, periodic, host, capture, dynFlow, writing, target>>
  PROVE  Known'
<1>1. \A t : SameFor(t)
  BY DEF SameFor, Done
<1> QED BY <1>1, Aside

LEMMA EncodingKnown == ASSUME Known, Encoding PROVE Known'
<1> USE DEF requestVars, setupVars, slotVars, captureVars, toolVars
<1>1. ASSUME NEW e \in Headers, SendHeader(e) PROVE Known'
  <2>1. /\ target' = e /\ e \in Targets
        /\ UNCHANGED <<writing, exchange, inbox, slotVars, dynFlow, captureVars, tool, budget>>
    BY <1>1, LinkAssumption DEF SendHeader
  <2>2. Posted /\ \A t : SameFor(t)
    BY <2>1, Passed DEF SameFor, Done
  <2>3. LinkTyped'
    BY <2>1, <2>2 DEF Known, LinkTyped, Posted
  <2> QED BY <2>1, <2>2, <2>3, FlowSame, EngineSame, HostSame DEF Known, Posted
<1>2. ASSUME NEW e \in Headers, SendHeaderWithFlow(e) PROVE Known'
  <2> DEFINE ask == Ask("flow", 0, 0, e)
  <2>1. /\ e \in Targets /\ target' = e /\ Begin("worker", ask) /\ writing.pc = "idle"
        /\ writing' = [pc |-> "flow", wire |-> Header(e), ecu |-> e]
        /\ UNCHANGED <<slotVars, dynFlow, captureVars, tool, budget>>
    BY <1>2, LinkAssumption DEF SendHeaderWithFlow, Dispatches
  <2>2. ask.op = "flow" /\ ask.ecu = e /\ "flow" \in OpsOf("worker") /\ "worker" \in Callers
        /\ "engine" \in Callers /\ "host" \in Callers
    BY DEF Ask, OpsOf, Callers
  <2>3. ask \in Asks
    BY <2>1, <2>2, Named
  <2>4. /\ Posted /\ SameFor("engine") /\ SameFor("host") /\ exchange["worker"].ask = NoAsk
        /\ exchange'["worker"].ask = ask /\ exchange'["worker"].fate = "open"
    <3> HIDE DEF ask
    <3> QED BY <2>1, <2>2, <2>3, Begun
  <2>5. LinkTyped'
    BY <2>1, <2>4 DEF Known, LinkTyped, Posted, Wires, Header
  <2>6. Flow'
    <3>1. ~Done("worker")
      BY <2>2, <2>4 DEF Known, Tidy, Done, NoExchange, None
    <3>2. tool.flow = dynFlow
      BY <3>1 DEF Known, Flow
    <3> QED BY <2>1, <2>2, <2>4, <3>2 DEF Flow, Done
  <2> QED BY <2>1, <2>4, <2>5, <2>6, EngineSame, HostSame DEF Known, Posted
<1>3. ASSUME NEW p \in budget.polls, SendPoll(p) PROVE Known'
  <2>1. /\ writing.pc = "idle" /\ writing' = [pc |-> "write", wire |-> Poll(p), ecu |-> target]
        /\ UNCHANGED <<target, setupVars, slotVars, dynFlow, captureVars, toolVars, budget>>
    BY <1>3 DEF SendPoll, Dispatches
  <2>2. Posted /\ \A t : SameFor(t)
    BY <2>1, Passed DEF SameFor, Done
  <2>3. p \in Polls
    BY DEF Known, LinkTyped, Budgets
  <2>4. LinkTyped'
    BY <2>1, <2>2, <2>3 DEF Known, LinkTyped, Posted, Wires
  <2>5. exchange["worker"].ask = NoAsk
    BY <2>1 DEF Known, Flow
  <2> QED BY <2>1, <2>2, <2>4, <2>5, FlowSame, EngineSame, HostSame DEF Known, Posted
<1>4. CASE FlowEnds
  <2>1. /\ "worker" \in Callers /\ "engine" \in Callers /\ "host" \in Callers
    BY DEF Callers
  <2>2. /\ writing.pc = "flow" /\ exchange["worker"].end # None /\ Finish("worker")
        /\ dynFlow' = IF exchange["worker"].end = "ok" THEN writing.ecu ELSE dynFlow
        /\ writing' = NotWriting /\ inbox' = inbox
        /\ UNCHANGED <<target, slotVars, captureVars, tool, budget>>
    BY <1>4 DEF FlowEnds
  <2>3. /\ Posted /\ SameFor("engine") /\ SameFor("host")
        /\ exchange["worker"].end = "ok" <=> Done("worker")
        /\ exchange'["worker"].ask = NoAsk /\ ~Done("worker")'
    BY <2>1, <2>2, Finished
  <2>4. LinkTyped'
    BY <2>2, <2>3 DEF Known, LinkTyped, Posted, NotWriting
  <2>5. Flow'
    BY <2>2, <2>3 DEF Known, Flow
  <2> QED BY <2>2, <2>3, <2>4, <2>5, EngineSame, HostSame DEF Known, Posted
<1>5. CASE SendWrites
  <2> DEFINE r == [by |-> "worker", pids |-> writing.wire.pids,
                    ask |-> Ask("poll", 0, 0, writing.ecu)]
  <2>1. /\ writing.pc = "write" /\ writing' = NotWriting /\ exchange' = exchange
        /\ inbox' = Append(inbox, r) \/ inbox' = inbox
        /\ Trouble \/ UNCHANGED budget
        /\ UNCHANGED <<target, slotVars, dynFlow, captureVars, tool>>
    BY <1>5 DEF SendWrites
  <2>2. r \in Requests /\ r.ask.op = "poll"
    <3>1. writing.ecu \in Targets \cup {None} /\ writing.wire \in Wires \cup {NoWire}
      BY DEF Known, LinkTyped
    <3>2. writing.wire.pids \in Polls \cup {<<>>}
      BY <3>1 DEF Wires, NoWire, Poll, Header
    <3>3. Ask("poll", 0, 0, writing.ecu) \in Asks /\ Ask("poll", 0, 0, writing.ecu).op = "poll"
      BY <3>1, Named DEF Ask, Ops
    <3> QED BY <3>2, <3>3 DEF Requests, Callers
  <2>3. Posted /\ \A t : SameFor(t)
    BY <2>1, <2>2, Passed DEF SameFor, Done
  <2>4. LinkTyped'
    BY <2>1, <2>3, Troubled DEF Known, LinkTyped, Posted, NotWriting
  <2>5. exchange["worker"].ask = NoAsk
    BY <2>1 DEF Known, Flow
  <2> QED BY <2>1, <2>3, <2>4, <2>5, FlowSame, EngineSame, HostSame DEF Known, Posted
<1>6. CASE GivesUp
  <2>1. /\ UNCHANGED <<writing, target, exchange, inbox, slotVars, dynFlow, captureVars, tool>>
        /\ Trouble
    BY <1>6 DEF GivesUp
  <2>2. Posted
    BY <2>1, Passed
  <2> QED BY <2>1, <2>2, Quietly
<1> QED BY <1>1, <1>2, <1>3, <1>4, <1>5, <1>6 DEF Encoding

LEMMA CollectingKnown == ASSUME Known, Collecting PROVE Known'
<1> USE DEF requestVars, setupVars, slotVars, captureVars, toolVars
<1>0. /\ "worker" \in Callers /\ "engine" \in Callers /\ "host" \in Callers
      /\ "collector" \in Callers
  BY DEF Callers
<1>1. PICK g \in Gens : \/ CollectorLeaves(g) \/ WindowElapses(g) \/ Resync(g)
                        \/ ResyncEnds(g) \/ CollectorFinishes(g)
  BY DEF Collecting
<1>2. CASE CollectorLeaves(g) \/ WindowElapses(g) \/ CollectorFinishes(g)
  <2>1. UNCHANGED <<exchange, inbox, tool, engine, periodic, host, capture, dynFlow, writing,
                    target, budget>>
    BY <1>2 DEF CollectorLeaves, WindowElapses, CollectorFinishes
  <2>2. Posted
    BY <2>1, Passed
  <2> QED BY <2>1, <2>2, Quietly
<1>3. CASE Resync(g)
  <2> DEFINE ask == Ask("api", 0, 0, None)
  <2>1. /\ Begin("collector", ask) \/ UNCHANGED <<setupVars, inbox>>
        /\ UNCHANGED <<tool, engine, periodic, host, capture, dynFlow, writing, target, budget>>
    BY <1>3 DEF Resync
  <2>2. ask.op = "api" /\ "api" \in OpsOf("collector") /\ ask \in Asks
    <3>1. ask.op = "api" /\ "api" \in OpsOf("collector")
      BY DEF Ask, OpsOf
    <3> QED BY <1>0, <3>1, Named
  <2> HIDE DEF ask
  <2>3. CASE Begin("collector", ask)
    BY <1>0, <2>1, <2>2, <2>3, Begun, Aside
  <2>4. CASE UNCHANGED <<setupVars, inbox>>
    BY <2>1, <2>4, Passed, Quietly
  <2> QED BY <2>1, <2>3, <2>4
<1>4. CASE ResyncEnds(g)
  <2>1. /\ exchange["collector"].end # None /\ Finish("collector") /\ inbox' = inbox
        /\ UNCHANGED <<tool, engine, periodic, host, capture, dynFlow, writing, target, budget>>
    BY <1>4 DEF ResyncEnds
  <2>2. Posted /\ SameFor("worker") /\ SameFor("engine") /\ SameFor("host")
    BY <1>0, <2>1, Finished
  <2> QED BY <2>1, <2>2, Aside
<1> QED BY <1>1, <1>2, <1>3, <1>4

LEMMA FramingKnown == ASSUME Known, Framing \/ \E r \in Runners : Delivers(r) PROVE Known'
<1> USE DEF requestVars, setupVars, slotVars, captureVars, toolVars
<1>1. UNCHANGED <<exchange, inbox, tool, engine, periodic, host, capture, dynFlow, writing,
                  target, budget>>
  <2>1. ASSUME NEW f \in Set(air),
               OnSlotReply(f) \/ OnLagged(f) \/ OnReply(f)
                 \/ OnTxError(f) \/ OnError(f) \/ OnNote(f)
        PROVE  UNCHANGED <<exchange, inbox, tool, engine, periodic, host, capture, dynFlow, writing,
                           target, budget>>
    BY <2>1 DEF OnSlotReply, OnLagged, OnReply, OnTxError, OnError, OnNote
  <2>2. OnFrameFinishes \/ (\E r \in Runners : Delivers(r)) =>
          UNCHANGED <<exchange, inbox, tool, engine, periodic, host, capture, dynFlow, writing,
                      target, budget>>
    BY DEF OnFrameFinishes, Delivers
  <2> QED BY <2>1, <2>2 DEF Framing
<1>2. Posted
  BY <1>1, Passed
<1> QED BY <1>1, <1>2, Quietly

LEMMA ExchangingKnown == ASSUME Known, ~untold', Exchanging PROVE Known'
<1> USE DEF requestVars, setupVars, slotVars, captureVars, toolVars
<1>1. PICK t \in Callers : Take(t) \/ TimesOut(t)
  BY DEF Exchanging
<1>2. /\ inbox' = inbox
      /\ Trouble \/ UNCHANGED budget
      /\ UNCHANGED <<tool, engine, periodic, host, capture, dynFlow, writing, target>>
      /\ \/ UNCHANGED exchange
         \/ Waiting(t) /\ \E end \in {"ok", "error", "timeout"} : Ends(t, end)
  BY <1>1 DEF Take, TimesOut
<1>3. Posted /\ SameFor("worker") /\ SameFor("engine") /\ SameFor("host")
  <2>1. CASE UNCHANGED exchange
    BY <1>2, <2>1, Passed DEF SameFor, Done
  <2>2. CASE Waiting(t) /\ \E end \in {"ok", "error", "timeout"} : Ends(t, end)
    BY <1>2, <2>2, Ending DEF Callers
  <2> QED BY <1>2, <2>1, <2>2
<1> QED BY <1>2, <1>3, Aside

LEMMA Sequenced == ASSUME NEW S, NEW n \in Nat, NEW f \in [1 .. n -> S] PROVE f \in Seq(S)
  OBVIOUS

LEMMA SlotsIn ==
  /\ SlotsOf(<<>>) = {}
  /\ \A q \in Seq(Decoders), d \in Decoders :
       Append(q, d) \in Seq(Decoders) /\ SlotsOf(Append(q, d)) = SlotsOf(q) \cup {d.slot}
  /\ \A q \in Seq(Decoders) : q # <<>> =>
       /\ Head(q) \in Decoders /\ Tail(q) \in Seq(Decoders)
       /\ SlotsOf(q) = {Head(q).slot} \cup SlotsOf(Tail(q))
<1>1. SlotsOf(<<>>) = {}
  BY DEF SlotsOf
<1>2. ASSUME NEW q \in Seq(Decoders), NEW d \in Decoders
      PROVE  Append(q, d) \in Seq(Decoders) /\ SlotsOf(Append(q, d)) = SlotsOf(q) \cup {d.slot}
  <2>1. /\ Append(q, d) \in Seq(Decoders) /\ DOMAIN Append(q, d) = DOMAIN q \cup {Len(q) + 1}
        /\ Append(q, d)[Len(q) + 1] = d
        /\ \A i \in DOMAIN q : Append(q, d)[i] = q[i]
    OBVIOUS
  <2> QED BY <2>1 DEF SlotsOf
<1>3. ASSUME NEW q \in Seq(Decoders), q # <<>>
      PROVE  /\ Head(q) \in Decoders /\ Tail(q) \in Seq(Decoders)
             /\ SlotsOf(q) = {Head(q).slot} \cup SlotsOf(Tail(q))
  <2>1. /\ Head(q) \in Decoders /\ Tail(q) \in Seq(Decoders) /\ Head(q) = q[1] /\ 1 \in DOMAIN q
        /\ \A i \in DOMAIN Tail(q) : i + 1 \in DOMAIN q /\ Tail(q)[i] = q[i + 1]
        /\ \A i \in DOMAIN q : i # 1 => i - 1 \in DOMAIN Tail(q) /\ Tail(q)[i - 1] = q[i]
    BY <1>3
  <2>2. ASSUME NEW i \in DOMAIN q PROVE q[i].slot \in {Head(q).slot} \cup SlotsOf(Tail(q))
    <3>1. CASE i = 1
      BY <2>1, <3>1
    <3>2. CASE i # 1
      <4>1. i - 1 \in DOMAIN Tail(q) /\ Tail(q)[i - 1].slot = q[i].slot
        BY <2>1, <3>2
      <4> QED BY <4>1 DEF SlotsOf
    <3> QED BY <3>1, <3>2
  <2>3. {Head(q).slot} \cup SlotsOf(Tail(q)) \subseteq SlotsOf(q)
    BY <2>1 DEF SlotsOf
  <2>4. SlotsOf(q) \subseteq {Head(q).slot} \cup SlotsOf(Tail(q))
    BY <2>2 DEF SlotsOf
  <2> QED BY <2>1, <2>3, <2>4
<1> QED BY <1>1, <1>2, <1>3

LEMMA EngineFree ==
  ASSUME Known
  PROVE  /\ exchange["engine"].ask = NoAsk => ~Done("engine") /\ First = {}
         /\ engine.pc = "idle" => exchange["engine"].ask = NoAsk
         /\ engine.todo = <<>> => exchange["engine"].ask = NoAsk
<1>1. exchange["engine"].ask = NoAsk => ~Done("engine") /\ First = {}
  BY DEF Known, Tidy, Callers, Done, First, NoExchange, None
<1> QED BY <1>1 DEF Known, Engine

LEMMA EngineTurns ==
  ASSUME Known, Posted, SameFor("worker"), SameFor("host"), Engine',
         engine' \in Engines,
         periodic' \in Periodics,
         UNCHANGED <<tool, host, capture, dynFlow, writing, target, budget>>
  PROVE  Known'
<1>1. LinkTyped'
  BY DEF Known, LinkTyped, Posted
<1> QED BY <1>1, FlowSame, HostSame DEF Known, Posted

LEMMA AsksKnown == ASSUME Known, EngineAsks PROVE Known'
<1> USE DEF Engines, Periodics, requestVars, setupVars, slotVars, captureVars, toolVars
<1> DEFINE d == Head(engine.todo)
           ask == CASE engine.pc = "load" -> Ask("load", Len(engine.loaded) + 1, d.msg, None)
                    [] engine.pc = "enable" -> Ask("enable", d.slot, 0, None)
                    [] OTHER -> Ask("disable", d.slot, 0, None)
<1>1. /\ engine.todo # <<>> /\ Begin("engine", ask)
      /\ UNCHANGED <<slotVars, target, writing, dynFlow, captureVars, tool, budget>>
  BY DEF EngineAsks, EngineUnchanged
<1>2. /\ d \in Decoders /\ Len(engine.loaded) + 1 \in Nat
      /\ engine.pc \in {"load", "enable", "disable"}
      /\ "engine" \in Callers /\ "worker" \in Callers /\ "host" \in Callers
  <2>1. engine.todo \in Seq(Decoders) /\ engine.loaded \in Seq(Decoders)
        /\ engine.pc \in {"idle", "load", "enable", "disable"}
    BY DEF Known, LinkTyped
  <2>2. engine.pc # "idle"
    BY <1>1 DEF Known, Engine
  <2>3. Len(engine.loaded) + 1 \in Nat
    BY <2>1
  <2> QED BY <1>1, <2>1, <2>2, <2>3, SlotsIn DEF Callers
<1>3. /\ ask.op = engine.pc /\ (engine.pc # "load" => ask.n = d.slot)
      /\ engine.pc \in OpsOf("engine") /\ ask \in Asks
  <2>1. d.msg \in Nat /\ d.slot \in Nat
    BY <1>2 DEF Decoders
  <2>2. engine.pc \in OpsOf("engine") /\ engine.pc \in Ops
    BY <1>2, Named DEF OpsOf
  <2>3. ask.op = engine.pc /\ (engine.pc # "load" => ask.n = d.slot)
    BY <1>2 DEF Ask
  <2>4. ask \in Asks
    BY <1>2, <2>1, <2>2, Named
  <2> QED BY <2>2, <2>3, <2>4
<1> HIDE DEF ask
<1>4. /\ Posted /\ SameFor("worker") /\ SameFor("host") /\ exchange["engine"].ask = NoAsk
      /\ exchange'["engine"].ask = ask /\ exchange'["engine"].fate = "open"
  BY <1>1, <1>2, <1>3, Begun
<1>5. First = {} /\ First' = {}
  BY <1>4, EngineFree DEF First, Done
<1>6. Engine'
  <2>1. SlotsOf(periodic.decoders)' = SlotsOf(periodic.decoders)
        /\ SlotsOf(engine.todo)' = SlotsOf(engine.todo)
        /\ SlotsOf(engine.loaded)' = SlotsOf(engine.loaded)
    BY <1>1
  <2> QED BY <1>1, <1>3, <1>4, <1>5, <2>1 DEF Known, Engine
<1>7. /\ engine' \in Engines
      /\ periodic' \in Periodics
  BY <1>1 DEF Known, LinkTyped
<1> QED BY <1>1, <1>4, <1>6, <1>7, EngineTurns

LEMMA HearsKnown == ASSUME Known, EngineHears PROVE Known'
<1> USE DEF Engines, Periodics, requestVars, setupVars, slotVars, captureVars, toolVars
<1> DEFINE d == Head(engine.todo)
           ask == exchange["engine"].ask
<1>1. /\ exchange["engine"].end # None /\ Finish("engine") /\ inbox' = inbox
      /\ engine' = [engine EXCEPT !.todo = Tail(@),
           !.loaded = IF exchange["engine"].end # "ok" THEN @ ELSE Append(@, Decoder(ask.n, d.msg))]
      /\ UNCHANGED <<periodic, target, writing, dynFlow, captureVars, tool, budget>>
  BY DEF EngineHears, EngineUnchanged
<1>2. /\ Posted /\ SameFor("worker") /\ SameFor("host") /\ ask # NoAsk
      /\ exchange["engine"].end = "ok" <=> Done("engine")
      /\ ~Done("engine") => ask.op \notin Undo
      /\ exchange'["engine"].ask = NoAsk /\ ~Done("engine")'
  <2>1. "engine" \in Callers /\ "worker" \in Callers /\ "host" \in Callers
    BY DEF Callers
  <2> QED BY <1>1, <2>1, Finished
<1>3. /\ engine \in Engines
      /\ engine.todo # <<>> /\ ask.op = engine.pc /\ ask.n \in Nat
      /\ engine.pc # "load" => ask.n = d.slot
  <2>1. ask \in Asks
    BY DEF Known, LinkTyped, Exchanges, Callers
  <2> QED BY <1>2, <2>1 DEF Known, LinkTyped, Engine, Asks
<1>4. /\ d \in Decoders /\ d.msg \in Nat /\ Tail(engine.todo) \in Seq(Decoders)
      /\ SlotsOf(engine.todo) = {d.slot} \cup SlotsOf(Tail(engine.todo))
  <2>1. engine.todo \in Seq(Decoders)
    BY <1>3
  <2> QED BY <1>3, <2>1, SlotsIn DEF Decoders
<1>5. Decoder(ask.n, d.msg) \in Decoders /\ Decoder(ask.n, d.msg).slot = ask.n
  BY <1>3, <1>4 DEF Decoder, Decoders
<1> DEFINE more == Append(engine.loaded, Decoder(ask.n, d.msg))
<1>6. more \in Seq(Decoders) /\ SlotsOf(more) = SlotsOf(engine.loaded) \cup {ask.n}
  <2>1. engine.loaded \in Seq(Decoders)
    BY <1>3
  <2> QED BY <1>5, <2>1, SlotsIn
<1> HIDE DEF more
<1>7. /\ engine' \in Engines
      /\ engine'.pc = engine.pc /\ engine'.todo = Tail(engine.todo)
      /\ engine'.loaded = IF Done("engine") THEN more ELSE engine.loaded
  <2>1. engine' = [engine EXCEPT !.todo = Tail(engine.todo),
                    !.loaded = IF Done("engine") THEN more ELSE engine.loaded]
    BY <1>1, <1>2 DEF more
  <2> QED BY <1>3, <1>4, <1>6, <2>1
<1>8. First' = {} /\ First = IF Done("engine") THEN {d.slot} ELSE {}
  BY <1>2 DEF First
<1>9. Engine'
  <2>1. /\ SlotsOf(periodic.decoders)' = SlotsOf(periodic.decoders)
        /\ SlotsOf(engine.todo)' = SlotsOf(Tail(engine.todo))
        /\ SlotsOf(engine.loaded)' = IF Done("engine") THEN SlotsOf(more)
                                      ELSE SlotsOf(engine.loaded)
    BY <1>1, <1>7
  <2>2. engine.pc = "disable" => Done("engine")
    BY <1>2, <1>3 DEF Undo
  <2>3. engine.pc # "idle" /\ periodic' = periodic /\ tool' = tool
    BY <1>1, <1>3 DEF Known, Engine
  <2>4. engine.pc = "enable" =>
          /\ SlotsOf(engine.todo)' \cup SlotsOf(engine.loaded)' \subseteq SlotsOf(periodic.decoders)
          /\ tool.on \subseteq SlotsOf(engine.loaded)'
    BY <1>3, <1>4, <1>6, <1>8, <2>1 DEF Known, Engine
  <2>5. engine.pc = "disable" => tool.on \subseteq SlotsOf(engine.todo)'
    BY <1>3, <1>4, <1>8, <2>1, <2>2 DEF Known, Engine
  <2> QED BY <1>2, <1>7, <1>8, <2>1, <2>3, <2>4, <2>5 DEF Known, Engine
<1>10. periodic' \in Periodics
  BY <1>1 DEF Known, LinkTyped
<1> QED BY <1>1, <1>2, <1>7, <1>9, <1>10, EngineTurns

LEMMA SlotsTurn ==
  ASSUME Known, StartBegins \/ StartRegisters \/ StartEnds \/ Arm \/ Break \/ TeardownBegins
                \/ TeardownEnds
  PROVE  Known'
<1> USE DEF Engines, Periodics, requestVars, setupVars, slotVars, captureVars, toolVars
<1>1. /\ UNCHANGED <<exchange, inbox, target, writing, dynFlow, captureVars, tool, budget>>
  BY DEF StartBegins, StartRegisters, StartEnds, Arm, Break, TeardownBegins, TeardownEnds,
         EngineUnchanged
<1>2. Posted /\ \A t : SameFor(t)
  BY <1>1, Passed DEF SameFor, Done
<1>3. /\ EngineIdle \in Engines
      /\ NoPeriodic \in Periodics
      /\ EngineIdle.pc = "idle" /\ EngineIdle.todo = <<>>
      /\ ~NoPeriodic.live /\ NoPeriodic.decoders = <<>>
  BY DEF EngineIdle, NoPeriodic
<1>4. /\ engine \in Engines
      /\ periodic \in Periodics
      /\ exchange["engine"].ask = NoAsk /\ ~Done("engine") /\ First = {}
      /\ exchange'["engine"].ask = NoAsk /\ ~Done("engine")' /\ First' = {}
  <2>1. engine.todo = <<>> \/ engine.pc = "idle"
    BY DEF StartBegins, StartRegisters, StartEnds, Arm, Break, TeardownBegins, TeardownEnds
  <2>2. exchange["engine"].ask = NoAsk /\ ~Done("engine") /\ First = {}
    BY <2>1, EngineFree
  <2> QED BY <1>1, <2>2 DEF Known, LinkTyped, First, Done
<1>5. CASE StartBegins
  <2> DEFINE todo == [m \in Slots |-> Decoder(m, m)]
  <2>1. /\ engine.pc = "idle" /\ ~periodic.live /\ periodic' = periodic
        /\ engine' = [pc |-> "load", todo |-> todo, loaded |-> <<>>]
    BY <1>5 DEF StartBegins
  <2>2. todo \in Seq(Decoders)
    <3>1. \A m \in 1 .. Len(SlotPlan) : Decoder(m, m) \in Decoders
      BY LinkAssumption DEF Decoder, Decoders
    <3> QED BY <3>1, LinkAssumption, Sequenced DEF Slots
  <2> HIDE DEF todo
  <2>3. tool.on = {}
    BY <2>1, SlotsIn DEF Known, Engine
  <2>4. Engine'
    BY <1>1, <1>4, <2>1, <2>3 DEF Known, Engine
  <2>5. /\ engine' \in Engines
        /\ periodic' \in Periodics
    BY <1>4, <2>1, <2>2
  <2> QED BY <1>1, <1>2, <2>4, <2>5, EngineTurns
<1>6. CASE StartRegisters
  <2>1. CASE engine.loaded = <<>>
    <3>1. engine.pc = "load" /\ engine' = EngineIdle /\ periodic' = periodic
      BY <1>6, <2>1 DEF StartRegisters
    <3>2. Engine'
      <4>1. tool.on = {} /\ tool' = tool
        BY <1>1, <3>1 DEF Known, Engine
      <4> QED BY <1>3, <1>4, <3>1, <4>1 DEF Known, Engine
    <3> QED BY <1>1, <1>2, <1>3, <1>4, <3>1, <3>2, EngineTurns
  <2>2. CASE engine.loaded # <<>>
    <3>1. /\ engine.pc = "load"
          /\ engine' = [pc |-> "enable", todo |-> engine.loaded, loaded |-> <<>>]
          /\ periodic' = [live |-> TRUE, open |-> FALSE, decoders |-> engine.loaded]
      BY <1>6, <2>2 DEF StartRegisters
    <3>2. Engine'
      <4>1. tool.on = {} /\ tool' = tool
        BY <1>1, <3>1 DEF Known, Engine
      <4>2. /\ SlotsOf(periodic.decoders)' = SlotsOf(engine.loaded)
            /\ SlotsOf(engine.todo)' = SlotsOf(engine.loaded)
            /\ SlotsOf(engine.loaded)' = {}
        BY <3>1, SlotsIn
      <4> QED BY <1>4, <3>1, <4>1, <4>2 DEF Known, Engine
    <3>3. /\ engine' \in Engines
          /\ periodic' \in Periodics
      BY <1>4, <3>1
    <3> QED BY <1>1, <1>2, <3>2, <3>3, EngineTurns
  <2> QED BY <2>1, <2>2
<1>7. CASE StartEnds
  <2>1. /\ engine.pc = "enable" /\ engine' = EngineIdle /\ tool.on \subseteq SlotsOf(engine.loaded)
        /\ periodic' = IF engine.loaded = <<>> THEN NoPeriodic
                       ELSE [live |-> TRUE, open |-> FALSE, decoders |-> engine.loaded]
    BY <1>4, <1>7 DEF StartEnds, Known, Engine
  <2>2. /\ periodic' \in Periodics
        /\ periodic'.decoders = engine.loaded /\ (~periodic'.live => periodic'.decoders = <<>>)
    BY <1>3, <1>4, <2>1
  <2>3. SlotsOf(periodic.decoders)' = SlotsOf(engine.loaded)
    BY <2>2
  <2>4. Engine'
    BY <1>1, <1>3, <1>4, <2>1, <2>2, <2>3 DEF Engine
  <2> QED BY <1>1, <1>2, <1>3, <2>1, <2>2, <2>4, EngineTurns
<1>8. CASE Arm \/ Break
  <2>1. /\ engine.pc = "idle" /\ engine' = engine
        /\ \E open \in BOOLEAN : periodic' = [periodic EXCEPT !.open = open]
    BY <1>1, <1>8 DEF Arm, Break
  <2>2. /\ periodic' \in Periodics
        /\ periodic'.decoders = periodic.decoders /\ periodic'.live = periodic.live
    BY <1>4, <2>1
  <2>3. SlotsOf(periodic.decoders)' = SlotsOf(periodic.decoders)
    BY <2>2
  <2>4. Engine'
    BY <1>1, <1>4, <2>1, <2>2, <2>3 DEF Known, Engine
  <2> QED BY <1>1, <1>2, <1>4, <2>1, <2>2, <2>4, EngineTurns
<1>9. CASE TeardownBegins
  <2>1. /\ engine.pc = "idle" /\ periodic' = NoPeriodic
        /\ engine' = [pc |-> "disable", todo |-> periodic.decoders, loaded |-> <<>>]
    BY <1>9 DEF TeardownBegins
  <2>2. /\ SlotsOf(engine.todo)' = SlotsOf(periodic.decoders)
        /\ tool.on \subseteq SlotsOf(periodic.decoders)
    BY <2>1 DEF Known, Engine
  <2>3. Engine'
    BY <1>1, <1>3, <1>4, <2>1, <2>2 DEF Engine
  <2>4. engine' \in Engines
    BY <1>4, <2>1
  <2> QED BY <1>1, <1>2, <1>3, <2>1, <2>3, <2>4, EngineTurns
<1>10. CASE TeardownEnds
  <2>1. /\ engine.pc = "disable" /\ engine.todo = <<>> /\ engine' = EngineIdle
        /\ periodic' = periodic
    BY <1>10 DEF TeardownEnds
  <2>2. tool.on = {}
    BY <2>1, SlotsIn DEF Known, Engine
  <2>3. Engine'
    BY <1>1, <1>3, <1>4, <2>1, <2>2 DEF Known, Engine
  <2> QED BY <1>1, <1>2, <1>3, <1>4, <2>1, <2>3, EngineTurns
<1> QED BY <1>5, <1>6, <1>7, <1>8, <1>9, <1>10

LEMMA StreamingKnown == ASSUME Known, ~untold', Streaming PROVE Known'
<1>1. ~AbandonSlots
  BY DEF AbandonSlots
<1> QED BY <1>1, AsksKnown, HearsKnown, SlotsTurn DEF Streaming

LEMMA HostKept ==
  ASSUME Known, UNCHANGED <<host, capture>>, Done("host")' = Done("host"),
         tool'.filters = tool.filters, tool'.parked = tool.parked, tool'.listen = tool.listen
  PROVE  Setup' /\ Recorded' /\ Undoing'
<1>1. \A op, n : Undoes(op, n)' = Undoes(op, n)
  BY DEF Undoes
<1>2. Setup'
  BY DEF Known, Host, Setup, OpsIn
<1>3. Recorded'
  BY DEF Known, Host, Recorded, OpsIn
<1>4. Undoing'
  BY <1>1 DEF Known, Host, Undoing, OpsIn
<1> QED BY <1>2, <1>3, <1>4

LEMMA HostTurns ==
  ASSUME Known, Posted, SameFor("worker"), SameFor("engine"), Host',
         host' \in Hosts, capture' \in Captures,
         UNCHANGED <<tool, engine, periodic, dynFlow, writing, target, budget>>
  PROVE  Known'
<1>1. LinkTyped'
  BY DEF Known, LinkTyped, Posted
<1> QED BY <1>1, FlowSame, EngineSame DEF Known, Posted

LEMMA HostFree ==
  ASSUME Known
  PROVE  /\ exchange["host"].ask = NoAsk => ~Done("host")
         /\ host.pc = "idle" => host.todo = <<>>
         /\ host.todo = <<>> => exchange["host"].ask = NoAsk
<1>1. exchange["host"].ask = NoAsk => ~Done("host")
  BY DEF Known, Tidy, Callers, Done, NoExchange, None
<1> QED BY <1>1 DEF Known, Host, Recorded

LEMMA Plain ==
  \A op \in Ops : Plainly(op) \in Asks /\ Plainly(op).op = op /\ Plainly(op).n = 0
<1>1. \A op \in Ops : Ask(op, 0, 0, None) \in Asks
  BY Named
<1> QED BY <1>1 DEF Plainly, Ask

(* The requests that take the pass filters back, in the order of their     *)
(* numbers.                                                                *)
LEMMA Unfilters ==
  ASSUME NEW filters \in SUBSET Filters
  PROVE  /\ Unfilter(filters) \in Seq(Asks) /\ OpsIn(Unfilter(filters), {"unpass"})
         /\ \A f \in filters : \E i \in DOMAIN Unfilter(filters) :
              Unfilter(filters)[i].op = "unpass" /\ Unfilter(filters)[i].n = f
<1> DEFINE rank == [f \in filters |-> Cardinality({g \in filters : g < f})]
           m == Cardinality(filters)
<1>1. IsFiniteSet(filters) /\ m \in Nat /\ filters \subseteq Nat
  <2>1. MaxFilters \in Int /\ 1 \in Int /\ filters \subseteq Nat
    BY LinkAssumption DEF Filters
  <2>2. IsFiniteSet(Filters)
    BY <2>1, FS_Interval DEF Filters
  <2>3. IsFiniteSet(filters)
    BY <2>2, FS_Subset
  <2> QED BY <2>1, <2>3, FS_CardinalityType
<1>2. \A f \in filters : rank[f] \in Nat /\ rank[f] < m
  <2>1. TAKE f \in filters
  <2>2. /\ {g \in filters : g < f} \in SUBSET filters /\ f \notin {g \in filters : g < f}
    BY <1>1
  <2>3. /\ IsFiniteSet({g \in filters : g < f}) /\ Cardinality({g \in filters : g < f}) <= m
        /\ (m = Cardinality({g \in filters : g < f}) => filters = {g \in filters : g < f})
    BY <1>1, <2>2, FS_Subset
  <2>4. Cardinality({g \in filters : g < f}) \in Nat
    BY <2>3, FS_CardinalityType
  <2> QED BY <1>1, <2>2, <2>3, <2>4
<1>3. \A f, h \in filters : f < h => rank[f] < rank[h]
  <2>1. SUFFICES ASSUME NEW f \in filters, NEW h \in filters, f < h PROVE rank[f] < rank[h]
    OBVIOUS
  <2> DEFINE F == {g \in filters : g < f}
             H == {g \in filters : g < h}
  <2>2. F \in SUBSET H /\ H \in SUBSET filters /\ f \in H /\ f \notin F
    <3>1. \A g \in filters : g \in Nat
      BY <1>1
    <3>2. \A g \in filters : g < f => g < h
      BY <2>1, <3>1
    <3> QED BY <2>1, <3>1, <3>2
  <2>3. /\ IsFiniteSet(H) /\ Cardinality(F) <= Cardinality(H)
        /\ (Cardinality(H) = Cardinality(F) => H = F)
    BY <1>1, <2>2, FS_Subset
  <2>4. Cardinality(F) # Cardinality(H)
    BY <2>2, <2>3
  <2>5. rank[f] = Cardinality(F) /\ rank[h] = Cardinality(H) /\ rank[f] \in Nat /\ rank[h] \in Nat
    BY <1>2, <2>1
  <2> HIDE DEF F, H, rank
  <2> QED BY <2>3, <2>4, <2>5
<1> HIDE DEF rank
<1>4. \A f, h \in filters : rank[f] = rank[h] => f = h
  <2>1. \A f, h \in filters : f < h \/ h < f \/ f = h
    BY <1>1
  <2> QED BY <1>2, <1>3, <2>1
<1>5. \A j \in 0 .. m - 1 : \E f \in filters : rank[f] = j
  <2>1. rank \in [filters -> 0 .. m - 1]
    BY <1>1, <1>2 DEF rank
  <2>2. rank \in Injection(filters, 0 .. m - 1)
    BY <1>4, <2>1 DEF Injection, IsInjective
  <2>3. IsFiniteSet(0 .. m - 1) /\ Cardinality(0 .. m - 1) = m
    <3>1. 0 \in Int /\ m - 1 \in Int /\ (IF 0 > m - 1 THEN 0 ELSE m - 1 - 0 + 1) = m
      BY <1>1
    <3> QED BY <3>1, FS_Interval
  <2>4. rank \in Surjection(filters, 0 .. m - 1)
    BY <2>2, <2>3, FS_Injection
  <2> QED BY <2>4 DEF Surjection
<1> DEFINE nth(n) == CHOOSE f \in filters : Cardinality({g \in filters : g < f}) = n - 1
<1>6. \A n \in 1 .. m : nth(n) \in filters /\ rank[nth(n)] = n - 1
  <2>1. TAKE n \in 1 .. m
  <2>2. n - 1 \in 0 .. m - 1
    BY <1>1
  <2>3. \E f \in filters : Cardinality({g \in filters : g < f}) = n - 1
    BY <1>5, <2>2 DEF rank
  <2> QED BY <2>3 DEF rank
<1>7. Unfilter(filters) = [n \in 1 .. m |-> Ask("unpass", nth(n), 0, None)]
  BY DEF Unfilter
<1> HIDE DEF nth, m
<1>8. \A n \in 1 .. m : /\ Ask("unpass", nth(n), 0, None) \in Asks
                        /\ Ask("unpass", nth(n), 0, None).op = "unpass"
                        /\ Ask("unpass", nth(n), 0, None).n = nth(n)
  <2>1. "unpass" \in Ops
    BY DEF Ops, OpsOf, Callers
  <2>2. \A n \in 1 .. m : nth(n) \in Nat
    BY <1>1, <1>6
  <2> QED BY <2>1, <2>2, Named DEF Ask
<1>9. Unfilter(filters) \in Seq(Asks) /\ DOMAIN Unfilter(filters) = 1 .. m
  BY <1>1, <1>7, <1>8, Sequenced
<1>10. \A f \in filters : \E n \in 1 .. m : nth(n) = f
  <2>1. TAKE f \in filters
  <2> DEFINE n == rank[f] + 1
  <2>2. n \in 1 .. m /\ n - 1 = rank[f]
    BY <1>1, <1>2
  <2> HIDE DEF n
  <2>3. nth(n) \in filters /\ rank[nth(n)] = rank[f]
    BY <1>6, <2>2
  <2>4. nth(n) = f
    BY <1>4, <2>3
  <2> QED BY <2>2, <2>4
<1> QED BY <1>7, <1>8, <1>9, <1>10 DEF OpsIn

LEMMA TodoIn ==
  ASSUME NEW q \in Seq(Asks), q # <<>>
  PROVE  /\ Head(q) \in Asks /\ Head(q) = q[1] /\ 1 \in DOMAIN q /\ Tail(q) \in Seq(Asks)
         /\ \A i \in DOMAIN Tail(q) : i \in Nat /\ i + 1 \in DOMAIN q /\ Tail(q)[i] = q[i + 1]
         /\ \A i \in DOMAIN q : i # 1 => i - 1 \in DOMAIN Tail(q) /\ Tail(q)[i - 1] = q[i]
         /\ \A ops : OpsIn(q, ops) => OpsIn(Tail(q), ops) /\ Head(q).op \in ops
<1>1. /\ Head(q) \in Asks /\ Head(q) = q[1] /\ 1 \in DOMAIN q /\ Tail(q) \in Seq(Asks)
      /\ \A i \in DOMAIN Tail(q) : i \in Nat /\ i + 1 \in DOMAIN q /\ Tail(q)[i] = q[i + 1]
      /\ \A i \in DOMAIN q : i # 1 => i - 1 \in DOMAIN Tail(q) /\ Tail(q)[i - 1] = q[i]
  OBVIOUS
<1> QED BY <1>1 DEF OpsIn

LEMMA HostAsksKnown == ASSUME Known, HostAsks PROVE Known'
<1> USE DEF requestVars, setupVars, slotVars, captureVars, toolVars
<1> DEFINE ask == Head(host.todo)
<1>1. /\ host.todo # <<>> /\ Begin("host", ask)
      /\ UNCHANGED <<slotVars, target, writing, dynFlow, captureVars, tool, budget>>
  BY DEF HostAsks, HostUnchanged
<1>2. /\ host.todo \in Seq(Asks) /\ host.pc \in {"idle", "pass", "listen", "stamps", "stop"}
      /\ host.pc # "idle"
  BY <1>1, HostFree DEF Known, LinkTyped, Hosts
<1>3. ask.op \in OpsOf("host")
  <2>1. OpsOf("host") = {"pass", "park", "listen", "stamps", "unstamps", "normal",
                        "unpass", "unpark"}
    BY DEF OpsOf
  <2>2. CASE host.pc = "listen"
    <3>1. host.todo = <<Plainly("listen")>> \/ host.todo = <<Plainly("park"), Plainly("listen")>>
      BY <1>1, <2>2 DEF Known, Host, Setup
    <3>2. ask = Plainly("listen") \/ ask = Plainly("park")
      BY <3>1
    <3> QED BY <2>1, <3>2 DEF Plainly, Ask
  <2>3. CASE host.pc # "listen"
    BY <1>1, <1>2, <2>1, <2>3, TodoIn DEF Known, Host, Setup, Recorded, Undoing
  <2> QED BY <2>2, <2>3
<1>4. "host" \in Callers /\ "worker" \in Callers /\ "engine" \in Callers /\ ask \in Asks
  BY <1>1, <1>2, TodoIn DEF Callers
<1> HIDE DEF ask
<1>5. /\ Posted /\ SameFor("worker") /\ SameFor("engine") /\ exchange["host"].ask = NoAsk
      /\ exchange'["host"].ask = ask /\ exchange'["host"].fate = "open"
  BY <1>1, <1>3, <1>4, Begun
<1>6. Done("host")' = Done("host")
  <2>1. ~Done("host") /\ ~Done("host")'
    BY <1>5, HostFree DEF Done
  <2> QED BY <2>1 DEF Done
<1>7. Host'
  BY <1>1, <1>5, <1>6, HostKept DEF Host, ask
<1>8. host' \in Hosts /\ capture' \in Captures
  BY <1>1 DEF Known, LinkTyped
<1> QED BY <1>1, <1>5, <1>7, <1>8, HostTurns

LEMMA HostHearsKnown == ASSUME Known, HostHears PROVE Known'
<1> USE DEF requestVars, setupVars, slotVars, captureVars, toolVars
<1> DEFINE ask == exchange["host"].ask
           todo == host.todo
<1>1. /\ exchange["host"].end # None /\ Finish("host") /\ inbox' = inbox
      /\ host' = [host EXCEPT !.todo = Tail(@),
           !.filters = IF ask.op = "pass" /\ exchange["host"].end = "ok" THEN @ \cup {ask.n} ELSE @,
           !.listen = IF ask.op = "listen" THEN exchange["host"].end = "ok" ELSE @]
      /\ UNCHANGED <<slotVars, target, writing, dynFlow, capture, tool, budget>>
  BY DEF HostHears, HostUnchanged
<1>2. /\ Posted /\ SameFor("worker") /\ SameFor("engine") /\ ask # NoAsk
      /\ exchange["host"].end = "ok" <=> Done("host")
      /\ ~Done("host") => ask.op \notin Undo
      /\ exchange'["host"].ask = NoAsk /\ ~Done("host")'
  <2>1. "host" \in Callers /\ "worker" \in Callers /\ "engine" \in Callers
    BY DEF Callers
  <2> QED BY <1>1, <2>1, Finished
<1>3. /\ host \in Hosts /\ todo \in Seq(Asks) /\ todo # <<>> /\ ask = Head(todo)
      /\ host.filters \subseteq Filters
  BY <1>2 DEF Known, LinkTyped, Host, Hosts
<1>4. ask.op = "pass" => ask.n \in Filters
  <2>1. CASE host.pc = "pass"
    BY <1>3, <2>1, TodoIn DEF Known, Host, Setup
  <2>2. CASE host.pc = "listen"
    <3>1. todo = <<Plainly("listen")>> \/ todo = <<Plainly("park"), Plainly("listen")>>
      BY <1>3, <2>2 DEF Known, Host, Setup
    <3>2. ask = Plainly("listen") \/ ask = Plainly("park")
      BY <1>3, <3>1
    <3> QED BY <3>2 DEF Plainly, Ask
  <2>3. CASE host.pc \in {"idle", "stamps", "stop"}
    BY <1>3, <2>3, TodoIn DEF Known, Host, Recorded, Undoing
  <2> QED BY <1>3, <2>1, <2>2, <2>3 DEF Hosts
<1>5. /\ host' \in Hosts /\ host'.pc = host.pc /\ host'.todo = Tail(todo)
      /\ host'.filters = IF ask.op = "pass" /\ Done("host") THEN host.filters \cup {ask.n}
                         ELSE host.filters
      /\ host'.listen = IF ask.op = "listen" THEN Done("host") ELSE host.listen
  <2> DEFINE filters == IF ask.op = "pass" /\ Done("host") THEN host.filters \cup {ask.n}
                        ELSE host.filters
             listen == IF ask.op = "listen" THEN Done("host") ELSE host.listen
  <2>1. host' = [host EXCEPT !.todo = Tail(todo), !.filters = filters, !.listen = listen]
    <3>1. (exchange["host"].end = "ok") = Done("host")
      BY <1>2 DEF Done
    <3> QED BY <1>1, <3>1
  <2>2. filters \subseteq Filters /\ listen \in BOOLEAN /\ Tail(todo) \in Seq(Asks)
    BY <1>3, <1>4, TodoIn DEF Done, Hosts
  <2> HIDE DEF filters, listen
  <2>3. host' \in Hosts /\ host'.pc = host.pc /\ host'.todo = Tail(todo)
        /\ host'.filters = filters /\ host'.listen = listen
    BY <1>3, <2>1, <2>2 DEF Hosts
  <2> QED BY <2>3 DEF filters, listen
<1>6. capture' \in Captures /\ capture' = capture /\ tool' = tool
  BY <1>1 DEF Known, LinkTyped
<1>7. Setup'
  <2>1. CASE host.pc = "pass"
    <3>1. /\ OpsIn(todo, {"pass"}) /\ \A i \in DOMAIN todo : todo[i].n \in Filters
          /\ tool.filters \subseteq host.filters \cup (IF Done("host") THEN {ask.n} ELSE {})
          /\ ~tool.parked /\ ~tool.listen /\ ~capture.tap
      BY <1>3, <2>1 DEF Known, Host, Setup
    <3>2. ask.op = "pass" /\ OpsIn(Tail(todo), {"pass"})
          /\ \A i \in DOMAIN Tail(todo) : Tail(todo)[i].n \in Filters
      BY <1>3, <3>1, TodoIn
    <3>3. tool.filters \subseteq host'.filters
      BY <1>5, <3>1, <3>2
    <3> QED BY <1>5, <1>6, <2>1, <3>1, <3>2, <3>3 DEF Setup
  <2>2. CASE host.pc = "listen"
    <3>1. todo = <<Plainly("listen")>> \/ todo = <<Plainly("park"), Plainly("listen")>>
      BY <1>3, <2>2 DEF Known, Host, Setup
    <3>2. /\ tool.filters \subseteq host.filters /\ (tool.parked => host.filters # {})
          /\ ~capture.tap
          /\ tool.listen => \/ todo = <<>> /\ host.listen
                            \/ todo = <<Plainly("listen")>> /\ Done("host")
      BY <2>2 DEF Known, Host, Setup
    <3>3. Plainly("listen").op = "listen" /\ Plainly("park").op = "park"
      BY DEF Plainly, Ask
    <3>4. CASE todo = <<Plainly("listen")>>
      <4>1. ask.op = "listen" /\ Tail(todo) = <<>>
        BY <1>3, <3>3, <3>4
      <4>2. tool.listen => host'.listen
        BY <1>3, <1>5, <3>2, <4>1
      <4> QED BY <1>5, <1>6, <2>2, <3>2, <4>1, <4>2 DEF Setup
    <3>5. CASE todo = <<Plainly("park"), Plainly("listen")>>
      <4>1. ask.op = "park" /\ Tail(todo) = <<Plainly("listen")>> /\ ~tool.listen
        BY <1>3, <3>2, <3>3, <3>5
      <4> QED BY <1>5, <1>6, <2>2, <3>2, <4>1 DEF Setup
    <3> QED BY <3>1, <3>4, <3>5
  <2>3. CASE host.pc \notin {"pass", "listen"}
    BY <1>5, <2>3 DEF Setup
  <2> QED BY <2>1, <2>2, <2>3
<1>8. Recorded'
  <2>1. host.pc = "idle" => FALSE
    BY <1>3, HostFree
  <2>2. host.pc = "stamps" => /\ OpsIn(todo, {"stamps"}) /\ OpsIn(Tail(todo), {"stamps"})
                               /\ capture.tap
    BY <1>3, TodoIn DEF Known, Host, Recorded
  <2> QED BY <1>5, <1>6, <2>1, <2>2 DEF Known, Host, Recorded
<1>9. Undoing'
  <2>1. SUFFICES ASSUME host.pc = "stop" PROVE Undoing'
    BY <1>5 DEF Undoing
  <2>2. ASSUME NEW op \in Undo, NEW n, Undoes(op, n) PROVE Undoes(op, n)'
    <3>1. PICK i \in DOMAIN todo : todo[i].op = op /\ todo[i].n = n /\ (i = 1 => ~Done("host"))
      BY <2>2 DEF Undoes
    <3>2. i # 1
      BY <1>2, <1>3, <2>2, <3>1, TodoIn
    <3>3. i - 1 \in DOMAIN host'.todo /\ host'.todo[i - 1] = todo[i]
      BY <1>3, <1>5, <3>2, TodoIn
    <3> QED BY <1>2, <3>1, <3>3 DEF Undoes
  <2>3. OpsIn(Tail(todo), {"unstamps", "normal", "unpass", "unpark"})
    BY <1>3, <2>1, TodoIn DEF Known, Host, Undoing
  <2>4. "normal" \in Undo /\ "unpass" \in Undo /\ "unpark" \in Undo
    BY DEF Undo
  <2> QED BY <1>5, <1>6, <2>1, <2>2, <2>3, <2>4 DEF Known, Host, Undoing
<1>10. Host'
  BY <1>2, <1>7, <1>8, <1>9 DEF Host
<1> QED BY <1>1, <1>2, <1>5, <1>6, <1>10, HostTurns

(* What a stop has to undo, in whatever of it the capture needed.          *)
LEMMA Undoings ==
  ASSUME NEW a \in Seq(Asks), NEW b \in Seq(Asks), NEW ops, OpsIn(a, ops), OpsIn(b, ops)
  PROVE  /\ a \o b \in Seq(Asks) /\ OpsIn(a \o b, ops)
         /\ \A i \in DOMAIN a : i \in DOMAIN (a \o b) /\ (a \o b)[i] = a[i]
         /\ \A i \in DOMAIN b : \E j \in DOMAIN (a \o b) : (a \o b)[j] = b[i]
<1>1. /\ a \o b \in Seq(Asks) /\ DOMAIN a = 1 .. Len(a) /\ DOMAIN b = 1 .. Len(b)
      /\ DOMAIN (a \o b) = 1 .. Len(a) + Len(b) /\ Len(a) \in Nat /\ Len(b) \in Nat
      /\ \A i \in 1 .. Len(a) + Len(b) :
           (a \o b)[i] = IF i <= Len(a) THEN a[i] ELSE b[i - Len(a)]
  OBVIOUS
<1>2. \A i \in DOMAIN a : i \in DOMAIN (a \o b) /\ (a \o b)[i] = a[i]
  BY <1>1
<1>3. ASSUME NEW i \in DOMAIN b PROVE \E j \in DOMAIN (a \o b) : (a \o b)[j] = b[i]
  <2>1. i + Len(a) \in DOMAIN (a \o b) /\ (a \o b)[i + Len(a)] = b[i]
    BY <1>1
  <2> QED BY <2>1
<1>4. \A i \in 1 .. Len(a) + Len(b) : i \in DOMAIN a \/ i - Len(a) \in DOMAIN b
  BY <1>1
<1>5. OpsIn(a \o b, ops)
  BY <1>1, <1>4 DEF OpsIn
<1> QED BY <1>1, <1>2, <1>3, <1>5

LEMMA HostStarts ==
  ASSUME Known, (\E k \in 0 .. MaxFilters : CaptureBegins(k)) \/ CaptureFilters \/ CaptureRecords
                \/ StopBegins \/ HostEnds
  PROVE  Known'
<1> USE DEF requestVars, setupVars, slotVars, captureVars, toolVars
<1>1. UNCHANGED <<exchange, inbox, target, writing, dynFlow, slotVars, tool, budget>>
  BY DEF CaptureBegins, CaptureFilters, CaptureRecords, StopBegins, HostEnds, HostUnchanged
<1>2. Posted /\ \A t : SameFor(t)
  BY <1>1, Passed DEF SameFor, Done
<1>3. /\ host \in Hosts /\ capture \in Captures /\ tool' = tool /\ tool \in Tools
      /\ host.filters \subseteq Filters /\ host.todo = <<>>
      /\ exchange["host"].ask = NoAsk /\ ~Done("host")
      /\ exchange'["host"].ask = NoAsk /\ ~Done("host")'
  <2>1. host.todo = <<>>
    BY HostFree DEF CaptureBegins, CaptureFilters, CaptureRecords, StopBegins, HostEnds
  <2>2. exchange["host"].ask = NoAsk /\ ~Done("host")
    BY <2>1, HostFree
  <2> QED BY <1>1, <2>1, <2>2 DEF Known, LinkTyped, Hosts, Done
<1>4. \A op \in {"pass", "park", "listen", "stamps", "unstamps", "normal", "unpark"} :
        op \in Ops /\ Plainly(op) \in Asks /\ Plainly(op).op = op /\ Plainly(op).n = 0
  <2>1. \A op \in {"pass", "park", "listen", "stamps", "unstamps", "normal", "unpark"} : op \in Ops
    BY DEF Ops, OpsOf, Callers
  <2> QED BY <2>1, Plain
<1>5. HostIdle = [pc |-> "idle", todo |-> <<>>, filters |-> {}, listen |-> FALSE]
  BY DEF HostIdle
<1>6. ASSUME Setup', Recorded', Undoing', host' \in Hosts, capture' \in Captures PROVE Known'
  <2>1. Host'
    BY <1>3, <1>6 DEF Host
  <2> QED BY <1>1, <1>2, <1>6, <2>1, HostTurns
<1>7. ASSUME NEW k \in 0 .. MaxFilters, CaptureBegins(k) PROVE Known'
  <2> DEFINE todo == [n \in 1 .. k |-> Ask("pass", n, 0, None)]
  <2>1. /\ host.pc = "idle" /\ ~capture.tap /\ capture' = capture
        /\ host' = [pc |-> "pass", todo |-> todo, filters |-> {}, listen |-> FALSE]
    BY <1>5, <1>7 DEF CaptureBegins
  <2>2. k \in Nat /\ \A n \in 1 .. k : n \in Nat /\ n \in Filters
    BY LinkAssumption DEF Filters
  <2>3. \A n \in 1 .. k : /\ Ask("pass", n, 0, None) \in Asks /\ Ask("pass", n, 0, None).n = n
                          /\ Ask("pass", n, 0, None).op = "pass"
    BY <1>4, <2>2, Named DEF Ask
  <2>4. /\ todo \in Seq(Asks) /\ DOMAIN todo = 1 .. k
        /\ \A n \in 1 .. k : todo[n].op = "pass" /\ todo[n].n \in Filters
    BY <2>2, <2>3, Sequenced
  <2> HIDE DEF todo
  <2>5. tool.filters = {} /\ ~tool.parked /\ ~tool.listen
    BY <2>1 DEF Known, Host, Recorded, NoCapture
  <2>6. Setup'
    BY <1>3, <2>1, <2>4, <2>5 DEF Setup, OpsIn
  <2>7. Recorded' /\ Undoing'
    BY <2>1 DEF Recorded, Undoing
  <2>8. host' \in Hosts /\ capture' \in Captures
    BY <1>3, <2>1, <2>4 DEF Hosts
  <2> QED BY <1>6, <2>6, <2>7, <2>8
<1>8. CASE CaptureFilters
  <2>1. /\ host.pc = "pass" /\ capture' = capture
        /\ host' = [host EXCEPT !.pc = "listen",
             !.todo = (IF host.filters = {} THEN <<>> ELSE <<Plainly("park")>>)
                        \o <<Plainly("listen")>>]
    BY <1>8 DEF CaptureFilters
  <2>2. /\ (IF host.filters = {} THEN <<>> ELSE <<Plainly("park")>>) \o <<Plainly("listen")>>
             = IF host.filters = {} THEN <<Plainly("listen")>>
               ELSE <<Plainly("park"), Plainly("listen")>>
    <3> DEFINE x == Plainly("park")
               y == Plainly("listen")
    <3>1. x \in Asks /\ y \in Asks
      BY <1>4
    <3> HIDE DEF x, y
    <3>2. <<>> \o <<y>> = <<y>>
      BY <3>1
    <3>3. <<x>> \o <<y>> = <<x, y>>
      <4> DEFINE p == <<x>> \o <<y>>
                 q == <<x, y>>
      <4>1. /\ p \in Seq(Asks) /\ Len(p) = 2 /\ p[1] = x /\ p[2] = y
            /\ q \in Seq(Asks) /\ Len(q) = 2 /\ q[1] = x /\ q[2] = y
        BY <3>1
      <4> HIDE DEF p, q
      <4>2. \A i \in 1 .. Len(p) : p[i] = q[i]
        <5>1. \A i \in 1 .. 2 : i = 1 \/ i = 2
          OBVIOUS
        <5> QED BY <4>1, <5>1
      <4>3. p = q
        BY <4>1, <4>2, SeqEqual
      <4> QED BY <4>3 DEF p, q
    <3> QED BY <3>2, <3>3 DEF x, y
  <2>3. <<Plainly("listen")>> \in Seq(Asks) /\ <<Plainly("park"), Plainly("listen")>> \in Seq(Asks)
        /\ <<Plainly("listen")>> # <<Plainly("park"), Plainly("listen")>>
    BY <1>4
  <2>4. /\ host' \in Hosts /\ host'.pc = "listen" /\ host'.filters = host.filters
        /\ host'.todo = IF host.filters = {} THEN <<Plainly("listen")>>
                        ELSE <<Plainly("park"), Plainly("listen")>>
    BY <1>3, <2>1, <2>2, <2>3 DEF Hosts
  <2>5. tool.filters \subseteq host.filters /\ ~tool.parked /\ ~tool.listen /\ ~capture.tap
    BY <1>3, <2>1 DEF Known, Host, Setup
  <2>6. Setup'
    BY <1>3, <2>1, <2>3, <2>4, <2>5 DEF Setup
  <2>7. Recorded' /\ Undoing'
    BY <2>4 DEF Recorded, Undoing
  <2> QED BY <1>3, <1>6, <2>1, <2>4, <2>6, <2>7
<1>9. CASE CaptureRecords
  <2>1. /\ host.pc = "listen"
        /\ capture' = [filters |-> host.filters, listen |-> host.listen,
                       parked |-> host.filters # {}, tap |-> TRUE]
        /\ host' = [pc |-> "stamps", todo |-> <<Plainly("stamps")>>,
                     filters |-> {}, listen |-> FALSE]
    BY <1>5, <1>9 DEF CaptureRecords
  <2>2. /\ tool.filters \subseteq host.filters /\ (tool.parked => host.filters # {})
        /\ tool.listen => host.listen
    BY <1>3, <2>1 DEF Known, Host, Setup
  <2>3. host' \in Hosts /\ capture' \in Captures
    BY <1>3, <1>4, <2>1 DEF Hosts, Captures
  <2>4. Recorded'
    <3>1. OpsIn(<<Plainly("stamps")>>, {"stamps"})
      BY <1>4 DEF OpsIn
    <3> QED BY <1>3, <2>1, <2>2, <3>1 DEF Recorded
  <2>5. Setup' /\ Undoing'
    BY <2>1 DEF Setup, Undoing
  <2> QED BY <1>6, <2>3, <2>4, <2>5
<1>10. CASE StopBegins
  <2> DEFINE ops == {"unstamps", "normal", "unpass", "unpark"}
             a == <<Plainly("unstamps")>>
             b == IF capture.listen THEN <<Plainly("normal")>> ELSE <<>>
             c == Unfilter(capture.filters)
             d == IF capture.parked THEN <<Plainly("unpark")>> ELSE <<>>
             todo == a \o b \o c \o d
  <2>1. /\ host.pc = "idle" /\ capture.tap /\ capture' = NoCapture
        /\ host' = [pc |-> "stop", todo |-> todo, filters |-> {}, listen |-> FALSE]
    BY <1>5, <1>10 DEF StopBegins
  <2>2. /\ a \in Seq(Asks) /\ b \in Seq(Asks) /\ d \in Seq(Asks)
        /\ OpsIn(a, ops) /\ OpsIn(b, ops) /\ OpsIn(d, ops)
        /\ capture.listen => 1 \in DOMAIN b /\ b[1] = Plainly("normal")
        /\ capture.parked => 1 \in DOMAIN d /\ d[1] = Plainly("unpark")
    BY <1>4 DEF OpsIn
  <2>3. /\ c \in Seq(Asks) /\ OpsIn(c, ops)
        /\ \A f \in capture.filters : \E i \in DOMAIN c : c[i].op = "unpass" /\ c[i].n = f
    <3>1. capture.filters \in SUBSET Filters
      BY <1>3 DEF Captures
    <3> QED BY <3>1, Unfilters DEF OpsIn
  <2> HIDE DEF a, b, c, d, ops
  <2>4. /\ a \o b \in Seq(Asks) /\ OpsIn(a \o b, ops)
        /\ \A i \in DOMAIN b : \E j \in DOMAIN (a \o b) : (a \o b)[j] = b[i]
    BY <2>2, Undoings
  <2> DEFINE ab == a \o b
  <2> HIDE DEF ab
  <2>5. /\ ab \o c \in Seq(Asks) /\ OpsIn(ab \o c, ops)
        /\ \A i \in DOMAIN ab : i \in DOMAIN (ab \o c) /\ (ab \o c)[i] = ab[i]
        /\ \A i \in DOMAIN c : \E j \in DOMAIN (ab \o c) : (ab \o c)[j] = c[i]
    BY <2>3, <2>4, Undoings DEF ab
  <2> DEFINE abc == ab \o c
  <2> HIDE DEF abc
  <2>6. /\ abc \o d \in Seq(Asks) /\ OpsIn(abc \o d, ops)
        /\ \A i \in DOMAIN abc : i \in DOMAIN (abc \o d) /\ (abc \o d)[i] = abc[i]
        /\ \A i \in DOMAIN d : \E j \in DOMAIN (abc \o d) : (abc \o d)[j] = d[i]
    BY <2>2, <2>5, Undoings DEF abc
  <2>7. todo = abc \o d
    BY DEF abc, ab
  <2> HIDE DEF todo
  <2>8. /\ todo \in Seq(Asks) /\ OpsIn(todo, ops)
        /\ \A i \in DOMAIN b : \E j \in DOMAIN todo : todo[j] = b[i]
        /\ \A i \in DOMAIN c : \E j \in DOMAIN todo : todo[j] = c[i]
        /\ \A i \in DOMAIN d : \E j \in DOMAIN todo : todo[j] = d[i]
    <3>1. \A i \in DOMAIN abc : i \in DOMAIN todo /\ todo[i] = abc[i]
      BY <2>6, <2>7
    <3>2. \A i \in DOMAIN ab : i \in DOMAIN abc /\ abc[i] = ab[i]
      BY <2>5 DEF abc
    <3>3. \A i \in DOMAIN b : \E j \in DOMAIN ab : ab[j] = b[i]
      BY <2>4 DEF ab
    <3>4. \A i \in DOMAIN c : \E j \in DOMAIN abc : abc[j] = c[i]
      BY <2>5 DEF abc
    <3> QED BY <2>6, <2>7, <3>1, <3>2, <3>3, <3>4
  <2>9. /\ tool.filters \subseteq capture.filters /\ (tool.parked => capture.parked)
        /\ (tool.listen => capture.listen)
    BY <2>1 DEF Known, Host, Recorded
  <2>10. /\ tool.listen => Undoes("normal", 0)'
         /\ tool.parked => Undoes("unpark", 0)'
         /\ \A n \in tool.filters : Undoes("unpass", n)'
    <3>1. tool.listen => \E j \in DOMAIN todo : todo[j].op = "normal" /\ todo[j].n = 0
      BY <1>4, <2>2, <2>8, <2>9
    <3>2. tool.parked => \E j \in DOMAIN todo : todo[j].op = "unpark" /\ todo[j].n = 0
      BY <1>4, <2>2, <2>8, <2>9
    <3>3. \A n \in tool.filters : \E j \in DOMAIN todo : todo[j].op = "unpass" /\ todo[j].n = n
      BY <2>3, <2>8, <2>9
    <3> QED BY <1>3, <2>1, <3>1, <3>2, <3>3 DEF Undoes
  <2>11. Undoing'
    BY <1>3, <2>1, <2>8, <2>10 DEF Undoing, ops
  <2>12. Setup' /\ Recorded'
    BY <2>1 DEF Setup, Recorded
  <2>13. host' \in Hosts /\ capture' \in Captures
    BY <2>1, <2>8 DEF Hosts, Captures, NoCapture
  <2> QED BY <1>6, <2>11, <2>12, <2>13
<1>11. CASE HostEnds
  <2>1. host.pc \in {"stamps", "stop"} /\ host' = HostIdle /\ capture' = capture
    BY <1>11 DEF HostEnds
  <2>2. host.pc = "stop" => /\ capture = NoCapture /\ ~tool.listen /\ ~tool.parked
                            /\ tool.filters = {}
    BY <1>3 DEF Known, Host, Undoing, Undoes
  <2>3. Recorded'
    BY <1>3, <1>5, <2>1, <2>2 DEF Known, Host, Recorded, NoCapture
  <2>4. Setup' /\ Undoing'
    BY <1>5, <2>1 DEF Setup, Undoing
  <2>5. host' \in Hosts /\ capture' \in Captures
    BY <1>3, <1>5, <2>1 DEF Hosts
  <2> QED BY <1>6, <2>3, <2>4, <2>5
<1> QED BY <1>7, <1>8, <1>9, <1>10, <1>11

LEMMA CapturingKnown == ASSUME Known, Capturing PROVE Known'
BY HostAsksKnown, HostHearsKnown, HostStarts DEF Capturing

LEMMA Effects ==
  ASSUME tool \in Tools, NEW ask \in Asks
  PROVE  LET new == Effect(ask) IN
         /\ new \in Tools
         /\ new.flow = IF ask.op = "flow" THEN ask.ecu ELSE tool.flow
         /\ new.on = IF ask.op = "enable" THEN tool.on \cup {ask.n}
                     ELSE IF ask.op = "disable" THEN tool.on \ {ask.n} ELSE tool.on
         /\ new.filters = IF ask.op = "pass" THEN tool.filters \cup {ask.n}
                          ELSE IF ask.op = "unpass" THEN tool.filters \ {ask.n} ELSE tool.filters
         /\ new.parked = IF ask.op = "park" THEN TRUE
                         ELSE IF ask.op = "unpark" THEN FALSE ELSE tool.parked
         /\ new.listen = IF ask.op = "listen" THEN TRUE
                         ELSE IF ask.op = "normal" THEN FALSE ELSE tool.listen
<1>1. ask.n \in Nat /\ ask.msg \in Nat /\ ask.ecu \in Targets \cup {None}
  BY DEF Asks
<1> QED BY <1>1 DEF Effect, Tools

LEMMA ObeyedFlow ==
  ASSUME Known, NEW ask, exchange["worker"].ask = ask, exchange'["worker"].ask = ask, ask # NoAsk,
         Done("worker")', tool'.flow = ask.ecu, UNCHANGED <<writing, dynFlow>>
  PROVE  Flow'
BY DEF Known, Flow

LEMMA ObeyedSlots ==
  ASSUME Known, NEW ask, exchange["engine"].ask = ask, exchange'["engine"].ask = ask, ask # NoAsk,
         ~Done("engine"), Done("engine")', UNCHANGED <<engine, periodic>>,
         tool'.on = IF ask.op = "enable" THEN tool.on \cup {ask.n}
                    ELSE IF ask.op = "disable" THEN tool.on \ {ask.n} ELSE tool.on
  PROVE  Engine'
<1>1. First = {} /\ First' = {Head(engine.todo).slot}
  BY DEF First
<1>2. /\ ask.op = engine.pc /\ engine.todo # <<>>
      /\ (engine.pc # "load" => ask.n = Head(engine.todo).slot)
  BY DEF Known, Engine
<1>3. /\ SlotsOf(periodic.decoders)' = SlotsOf(periodic.decoders)
      /\ SlotsOf(engine.todo)' = SlotsOf(engine.todo)
      /\ SlotsOf(engine.loaded)' = SlotsOf(engine.loaded)
  OBVIOUS
<1>4. engine.pc # "idle" /\ (engine.pc = "load" => tool'.on = {})
  BY <1>2 DEF Known, Engine
<1>5. engine.pc = "enable" => tool'.on \subseteq SlotsOf(engine.loaded) \cup First'
  BY <1>1, <1>2 DEF Known, Engine
<1>6. engine.pc = "disable" => tool'.on \subseteq SlotsOf(engine.todo) \ First'
  BY <1>1, <1>2 DEF Known, Engine
<1> QED BY <1>2, <1>3, <1>4, <1>5, <1>6 DEF Known, Engine

LEMMA ObeyedHost ==
  ASSUME Known, NEW ask, exchange["host"].ask = ask, exchange'["host"].ask = ask, ask # NoAsk,
         ~Done("host"), Done("host")', UNCHANGED <<host, capture>>,
         tool'.filters = IF ask.op = "pass" THEN tool.filters \cup {ask.n}
                         ELSE IF ask.op = "unpass" THEN tool.filters \ {ask.n} ELSE tool.filters,
         tool'.parked = IF ask.op = "park" THEN TRUE
                        ELSE IF ask.op = "unpark" THEN FALSE ELSE tool.parked,
         tool'.listen = IF ask.op = "listen" THEN TRUE
                        ELSE IF ask.op = "normal" THEN FALSE ELSE tool.listen
  PROVE  Host'
<1> DEFINE todo == host.todo
<1>1. /\ todo # <<>> /\ ask = Head(todo) /\ todo \in Seq(Asks)
      /\ host.pc \in {"pass", "listen", "stamps", "stop"}
  <2>1. todo # <<>> /\ ask = Head(todo)
    BY DEF Known, Host
  <2> QED BY <2>1, HostFree DEF Known, LinkTyped, Hosts
<1>2. CASE host.pc = "pass"
  <2>1. ask.op = "pass"
    BY <1>1, <1>2, TodoIn DEF Known, Host, Setup
  <2>2. Setup'
    BY <1>1, <1>2, <2>1 DEF Known, Host, Setup, OpsIn
  <2>3. Recorded' /\ Undoing'
    BY <1>2 DEF Recorded, Undoing
  <2> QED BY <1>1, <2>2, <2>3 DEF Host
<1>3. CASE host.pc = "listen"
  <2>1. todo = <<Plainly("listen")>> \/ todo = <<Plainly("park"), Plainly("listen")>>
    BY <1>1, <1>3 DEF Known, Host, Setup
  <2>2. Plainly("listen").op = "listen" /\ Plainly("park").op = "park"
    BY DEF Plainly, Ask
  <2>3. /\ tool.filters \subseteq host.filters /\ (tool.parked => host.filters # {}) /\ ~capture.tap
        /\ (todo = <<Plainly("park"), Plainly("listen")>> => host.filters # {})
        /\ ~tool.listen
    BY <1>1, <1>3 DEF Known, Host, Setup
  <2>4. CASE todo = <<Plainly("listen")>>
    <3>1. ask.op = "listen"
      BY <1>1, <2>2, <2>4
    <3> QED BY <1>1, <1>3, <2>3, <2>4, <3>1 DEF Host, Setup, Recorded, Undoing
  <2>5. CASE todo = <<Plainly("park"), Plainly("listen")>>
    <3>1. ask.op = "park"
      BY <1>1, <2>2, <2>5
    <3> QED BY <1>1, <1>3, <2>3, <2>5, <3>1 DEF Host, Setup, Recorded, Undoing
  <2> QED BY <2>1, <2>4, <2>5
<1>4. CASE host.pc = "stamps"
  <2>1. ask.op = "stamps" /\ OpsIn(todo, {"stamps"})
    BY <1>1, <1>4, TodoIn DEF Known, Host, Recorded
  <2>2. Recorded'
    BY <1>4, <2>1 DEF Known, Host, Recorded
  <2>3. Setup' /\ Undoing'
    BY <1>4 DEF Setup, Undoing
  <2> QED BY <1>1, <2>2, <2>3 DEF Host
<1>5. CASE host.pc = "stop"
  <2>1. /\ OpsIn(todo, {"unstamps", "normal", "unpass", "unpark"})
        /\ ask.op \in {"unstamps", "normal", "unpass", "unpark"}
    BY <1>1, <1>5, TodoIn DEF Known, Host, Undoing
  <2>2. ASSUME NEW op, NEW n, Undoes(op, n), ~(ask.op = op /\ ask.n = n) PROVE Undoes(op, n)'
    <3>1. PICK i \in DOMAIN todo : todo[i].op = op /\ todo[i].n = n
      BY <2>2 DEF Undoes
    <3>2. i # 1
      BY <1>1, <2>2, <3>1, TodoIn
    <3> QED BY <3>1, <3>2 DEF Undoes
  <2>3. tool'.listen => ask.op # "normal" /\ tool.listen
    BY <2>1
  <2>4. tool'.parked => ask.op # "unpark" /\ tool.parked
    BY <2>1
  <2>5. \A n \in tool'.filters : ~(ask.op = "unpass" /\ ask.n = n) /\ n \in tool.filters
    BY <2>1
  <2>6. Undoing'
    BY <1>5, <2>1, <2>2, <2>3, <2>4, <2>5 DEF Known, Host, Undoing, OpsIn
  <2>7. Setup' /\ Recorded'
    BY <1>5 DEF Setup, Recorded
  <2> QED BY <1>1, <2>6, <2>7 DEF Host
<1> QED BY <1>1, <1>2, <1>3, <1>4, <1>5

LEMMA ToolingKnown == ASSUME Known, Tooling PROVE Known'
<1> USE DEF requestVars, setupVars, slotVars, captureVars, toolVars
<1>1. CASE \/ \E e \in Ecus : ToolReplies(e) \/ ToolFails(e)
           \/ ToolStrays \/ \E s \in Slots : SlotFires(s)
  <2>1. /\ UNCHANGED <<exchange, tool, engine, periodic, host, capture, dynFlow, writing, target>>
        /\ Trouble \/ UNCHANGED budget
        /\ inbox' = inbox \/ (inbox # <<>> /\ inbox' = Tail(inbox))
    BY <1>1 DEF ToolReplies, ToolFails, ToolStrays, SlotFires, Answering, ToolUnchanged
  <2>2. Posted
    BY <2>1, Passed
  <2> QED BY <2>1, <2>2, Quietly
<1> DEFINE ask == Head(inbox).ask
           t == Head(inbox).by
<1>2. CASE ToolRefuses
  <2>1. /\ Asked /\ inbox' = Tail(inbox) /\ Fated("refused")
        /\ Trouble \/ UNCHANGED budget
        /\ UNCHANGED <<tool, engine, periodic, host, capture, dynFlow, writing, target>>
    BY <1>2 DEF ToolRefuses, ToolUnchanged
  <2>2. /\ Posted /\ t \in Callers /\ ~Done(t) /\ exchange'[t].ask = exchange[t].ask
        /\ exchange'[t].fate = "refused" /\ \A u \in Callers : u # t => SameFor(u)
    BY <2>1, Answered
  <2> HIDE DEF t
  <2>3. \A u \in Callers : SameFor(u)
    BY <2>2 DEF SameFor, Done
  <2> QED BY <2>1, <2>2, <2>3, Aside DEF Callers
<1>3. CASE ToolObeys \/ ReplyLost
  <2>1. /\ Asked /\ inbox' = Tail(inbox) /\ Fated("done") /\ tool' = Effect(ask)
        /\ Trouble \/ UNCHANGED budget
        /\ UNCHANGED <<engine, periodic, host, capture, dynFlow, writing, target>>
    BY <1>3 DEF ToolObeys, ReplyLost, ToolUnchanged
  <2>2. /\ Posted /\ t \in Callers /\ ~Done(t) /\ exchange[t].ask = ask /\ exchange'[t].ask = ask
        /\ ask # NoAsk /\ ask.op \in OpsOf(t)
        /\ exchange'[t].fate = "done" /\ \A u \in Callers : u # t => SameFor(u)
    BY <2>1, Answered
  <2> HIDE DEF t, ask
  <2>3. ask \in Asks /\ tool \in Tools
    <3>1. exchange[t] \in Exchanges
      BY <2>2 DEF Known, LinkTyped
    <3> QED BY <2>2, <3>1 DEF Known, LinkTyped, Exchanges
  <2>4. /\ tool' \in Tools
        /\ tool'.flow = IF ask.op = "flow" THEN ask.ecu ELSE tool.flow
        /\ tool'.on = IF ask.op = "enable" THEN tool.on \cup {ask.n}
                      ELSE IF ask.op = "disable" THEN tool.on \ {ask.n} ELSE tool.on
        /\ tool'.filters = IF ask.op = "pass" THEN tool.filters \cup {ask.n}
                           ELSE IF ask.op = "unpass" THEN tool.filters \ {ask.n} ELSE tool.filters
        /\ tool'.parked = IF ask.op = "park" THEN TRUE
                          ELSE IF ask.op = "unpark" THEN FALSE ELSE tool.parked
        /\ tool'.listen = IF ask.op = "listen" THEN TRUE
                          ELSE IF ask.op = "normal" THEN FALSE ELSE tool.listen
    BY <2>1, <2>3, Effects
  <2>5. LinkTyped'
    BY <2>1, <2>2, <2>4, Troubled DEF Known, LinkTyped, Posted
  <2>6. /\ OpsOf("worker") = {"flow"} /\ OpsOf("collector") = {"api"}
        /\ OpsOf("engine") = {"load", "enable", "disable"}
        /\ OpsOf("host") = {"pass", "park", "listen", "stamps", "unstamps", "normal",
                            "unpass", "unpark"}
        /\ Callers = {"worker", "collector", "engine", "host"}
    BY DEF OpsOf, Callers
  <2>7. \A u \in Callers : u = t => ~Done(u) /\ Done(u)'
    BY <2>2 DEF Done
  <2>8. CASE t = "worker"
    <3>1. /\ SameFor("engine") /\ SameFor("host") /\ ask.op = "flow"
          /\ tool'.on = tool.on /\ tool'.filters = tool.filters /\ tool'.parked = tool.parked
          /\ tool'.listen = tool.listen /\ tool'.flow = ask.ecu
      BY <2>2, <2>4, <2>6, <2>8
    <3>2. Flow'
      BY <2>1, <2>2, <2>7, <2>8, <3>1, ObeyedFlow
    <3> QED BY <2>1, <2>2, <2>5, <3>1, <3>2, EngineSame, HostSame DEF Known, Posted
  <2>9. CASE t = "engine"
    <3>1. /\ SameFor("worker") /\ SameFor("host") /\ tool'.flow = tool.flow
          /\ tool'.filters = tool.filters /\ tool'.parked = tool.parked
          /\ tool'.listen = tool.listen
      BY <2>2, <2>4, <2>6, <2>9
    <3>2. Engine'
      BY <2>1, <2>2, <2>4, <2>7, <2>9, ObeyedSlots
    <3> QED BY <2>1, <2>2, <2>5, <3>1, <3>2, FlowSame, HostSame DEF Known, Posted
  <2>10. CASE t = "host"
    <3>1. /\ SameFor("worker") /\ SameFor("engine") /\ tool'.flow = tool.flow /\ tool'.on = tool.on
      BY <2>2, <2>4, <2>6, <2>10
    <3>2. Host'
      BY <2>1, <2>2, <2>4, <2>7, <2>10, ObeyedHost
    <3> QED BY <2>1, <2>2, <2>5, <3>1, <3>2, FlowSame, EngineSame DEF Known, Posted
  <2>11. CASE t = "collector"
    <3>1. /\ SameFor("worker") /\ SameFor("engine") /\ SameFor("host") /\ tool'.flow = tool.flow
          /\ tool'.on = tool.on
          /\ tool'.filters = tool.filters /\ tool'.parked = tool.parked
          /\ tool'.listen = tool.listen
      BY <2>2, <2>4, <2>6, <2>11
    <3> QED BY <2>1, <2>2, <2>5, <3>1, FlowSame, EngineSame, HostSame DEF Known, Posted
  <2> QED BY <2>2, <2>6, <2>8, <2>9, <2>10, <2>11
<1> QED BY <1>1, <1>2, <1>3 DEF Tooling

(* The handler's word is not taken back.                                   *)
LEMMA ToldBefore == [LinkNext]_linkVars /\ ~untold' => ~untold
<1> SUFFICES ASSUME [LinkNext]_linkVars, ~untold' PROVE ~untold
  OBVIOUS
<1> USE DEF linkVars, setupVars
<1>1. CASE Encoding \/ Collecting
  BY <1>1 DEF Encoding, SendHeader, SendHeaderWithFlow, SendPoll, FlowEnds, SendWrites, GivesUp,
     Begin, Collecting, CollectorLeaves, WindowElapses, Resync, ResyncEnds, CollectorFinishes
<1>2. CASE Framing \/ \E r \in Runners : Delivers(r)
  BY <1>2 DEF Framing, OnSlotReply, OnLagged, OnReply, OnTxError, OnError, OnNote,
     OnFrameFinishes, Delivers
<1>3. CASE Exchanging
  BY <1>3 DEF Exchanging, Take, TimesOut, Ends
<1>4. CASE Streaming
  BY <1>4 DEF Streaming, StartBegins, EngineAsks, EngineHears, StartRegisters, StartEnds, Arm,
     Break, TeardownBegins, TeardownEnds, AbandonSlots, Begin
<1>5. CASE Capturing
  BY <1>5 DEF Capturing, CaptureBegins, HostAsks, HostHears, CaptureFilters, CaptureRecords,
     StopBegins, HostEnds, Begin
<1>6. CASE Tooling
  BY <1>6 DEF Tooling, ToolReplies, ToolFails, ToolObeys, ToolRefuses, ReplyLost, ToolStrays,
     SlotFires
<1> QED BY <1>1, <1>2, <1>3, <1>4, <1>5, <1>6 DEF LinkNext

LEMMA KnownInit == LinkInit => Known
<1> SUFFICES ASSUME LinkInit PROVE Known
  OBVIOUS
<1>1. /\ target = Functional /\ dynFlow = None /\ writing = NotWriting /\ inbox = <<>>
      /\ exchange = [t \in Callers |-> NoExchange]
      /\ tool = [msg |-> [s \in Slots |-> 0], on |-> {}, flow |-> None, filters |-> {},
                 parked |-> FALSE, listen |-> FALSE]
      /\ periodic = [live |-> FALSE, open |-> FALSE, decoders |-> <<>>]
      /\ engine = [pc |-> "idle", todo |-> <<>>, loaded |-> <<>>]
      /\ host = [pc |-> "idle", todo |-> <<>>, filters |-> {}, listen |-> FALSE]
      /\ capture = NoCapture /\ budget \in Scenarios
  BY DEF LinkInit, NoExchange, NoCapture
<1>2. NoExchange \in Exchanges /\ NoExchange.ask = NoAsk /\ NoExchange.end = None
      /\ NoExchange.fate = None
  BY Named DEF NoExchange, Exchanges
<1>3. \A t \in Callers : exchange[t] = NoExchange /\ ~Done(t)
  BY <1>1, <1>2 DEF Done, None
<1>4. LinkTyped
  <2>1. budget \in Budgets
    BY <1>1, LinkAssumption DEF Budgets
  <2>2. tool \in Tools /\ periodic \in Periodics /\ engine \in Engines /\ host \in Hosts
        /\ capture \in Captures
    BY <1>1 DEF Tools, Periodics, Engines, Hosts, Captures, NoCapture
  <2>3. writing \in [pc : {"idle", "flow", "write"}, wire : Wires \cup {NoWire},
                     ecu : Targets \cup {None}]
    BY <1>1 DEF NotWriting
  <2> QED BY <1>1, <1>2, <2>1, <2>2, <2>3 DEF LinkTyped, Targets
<1>5. Mail /\ Tidy
  BY <1>1, <1>2, <1>3 DEF Mail, Tidy
<1>6. "worker" \in Callers /\ "engine" \in Callers /\ "host" \in Callers
  BY DEF Callers
<1>7. Flow
  BY <1>1, <1>2, <1>3, <1>6 DEF Flow
<1>8. Engine
  BY <1>1, <1>2, <1>3, <1>6 DEF Engine
<1>9. Host
  BY <1>1, <1>2, <1>3, <1>6 DEF Host, Setup, Recorded, Undoing, NoCapture
<1> QED BY <1>4, <1>5, <1>7, <1>8, <1>9 DEF Known

LEMMA KnownNext == (~untold => Known) /\ [LinkNext]_linkVars => (~untold' => Known')
<1> SUFFICES ASSUME ~untold => Known, [LinkNext]_linkVars, ~untold' PROVE Known'
  OBVIOUS
<1>1. ~untold
  BY ToldBefore
<1>2. CASE UNCHANGED linkVars
  <2>1. /\ UNCHANGED <<exchange, inbox, tool, engine, periodic, host, capture, dynFlow, writing,
                       target, budget>>
    BY <1>2 DEF linkVars, requestVars, setupVars, slotVars, captureVars, toolVars
  <2>2. Posted
    BY <1>1, <2>1, Passed
  <2> QED BY <1>1, <2>1, <2>2, Quietly
<1>3. CASE LinkNext
  BY <1>1, <1>3, EncodingKnown, CollectingKnown, FramingKnown, ExchangingKnown, StreamingKnown,
     CapturingKnown, ToolingKnown DEF LinkNext
<1> QED BY <1>2, <1>3

(* As long as the handler has heard every exchange rightly, the FLOW       *)
(* filter, the slots and the bus of the adapter are what it makes of them, *)
(* through header switches, slots, captures and teardowns in any order.    *)
THEOREM AdapterIsKnown == LinkSpec => []AdapterKnown
<1>1. LinkInit => (~untold => Known)
  BY KnownInit
<1>2. (~untold => Known) => AdapterKnown
  <2> SUFFICES ASSUME Known PROVE FlowTracked /\ SlotsAccounted /\ CaptureUnwinds
    BY DEF AdapterKnown
  <2>1. FlowTracked
    <3>1. SUFFICES ASSUME writing.pc # "flow" PROVE dynFlow = tool.flow
      BY DEF FlowTracked
    <3>2. exchange["worker"].ask = NoAsk
      BY <3>1 DEF Known, Flow
    <3>3. ~Done("worker")
      BY <3>2 DEF Known, Tidy, Callers, Done, NoExchange, None
    <3> QED BY <3>3 DEF Known, Flow
  <2>2. SlotsAccounted
    <3>1. engine.pc \in {"idle", "load", "enable", "disable"}
      BY DEF Known, LinkTyped, Engines
    <3>2. engine.pc # "disable" => tool.on \subseteq SlotsOf(periodic.decoders)
      <4>1. CASE engine.pc = "enable"
        <5>1. Done("engine") => engine.todo # <<>>
          BY EngineFree
        <5>2. First \subseteq SlotsOf(engine.todo)
          BY <5>1, SlotsIn DEF First, Known, LinkTyped, Engines
        <5> QED BY <4>1, <5>2 DEF Known, Engine
      <4>2. CASE engine.pc \in {"idle", "load"}
        BY <4>2 DEF Known, Engine
      <4> QED BY <3>1, <4>1, <4>2
    <3>3. engine.pc = "disable" => tool.on \subseteq SlotsOf(engine.todo)
      BY DEF Known, Engine
    <3> QED BY <3>2, <3>3 DEF SlotsAccounted, SlotsOf
  <2>3. CaptureUnwinds
    BY DEF CaptureUnwinds, Known, Host, Recorded, NoCapture
  <2> QED BY <2>1, <2>2, <2>3
<1> QED BY <1>1, <1>2, KnownNext, PTL DEF LinkSpec

-----------------------------------------------------------------------------
(* What the request out has collected opens with its pid, if it asks one.  *)
Opening(f) == f.part \in {"whole", "first"}
Gathered ==
  Len(outstanding.wire.pids) = 1 =>
    \A i \in DOMAIN outstanding.frames :
      Opening(outstanding.frames[i]) =>
        Head(outstanding.frames[i].pids) = Head(outstanding.wire.pids)
RequestTyped ==
  /\ DOMAIN outstanding = {"wire", "expected", "frames", "pending", "strays", "gen"}
  /\ \E S : outstanding.frames \in Seq(S)
Echo == EchoAnswers /\ DOMAIN job = Runners /\ RequestTyped /\ Gathered

LEMMA EchoSame ==
  ASSUME Echo, UNCHANGED <<job, outstanding>> PROVE Echo'
  BY DEF Echo, EchoAnswers, RequestTyped, Gathered, Opening

LEMMA EchoPolls ==
  ASSUME Echo, NEW pids, SendPoll(pids) PROVE Echo'
<1>1. outstanding' = Request(pids) /\ job' = job
  BY DEF SendPoll
<1>2. outstanding'.frames = <<>>
  BY <1>1 DEF Request
<1>3. <<>> \in Seq({})
  OBVIOUS
<1>4. DOMAIN outstanding' = {"wire", "expected", "frames", "pending", "strays", "gen"}
  BY <1>1 DEF Request
<1>5. RequestTyped' /\ Gathered'
  BY <1>2, <1>3, <1>4 DEF RequestTyped, Gathered
<1> QED BY <1>1, <1>5 DEF Echo, EchoAnswers

(* A job that answers no command, or with payloads of its own wire.        *)
Opened(j) == Len(j.wire.pids) = 1 => \A p \in j.pids : Head(p) = Head(j.wire.pids)

LEMMA NoJobOpened ==
  /\ Opened(NoJob)
  /\ \A how, g : Opened([NoJob EXCEPT !.how = how, !.gen = g])
  BY DEF Opened, NoJob, NoWire

LEMMA EchoJob ==
  ASSUME Echo, NEW r \in Runners, NEW j, Opened(j), job' = [job EXCEPT ![r] = j]
  PROVE  EchoAnswers' /\ DOMAIN job' = Runners
  BY DEF Echo, EchoAnswers, Opened

LEMMA EchoFinishes ==
  ASSUME Echo, NEW r \in Runners, NEW g, NEW how, FinishTakes(r, g, how) PROVE Echo'
<1>1. CASE outstanding.gen = g /\ g # 0
  <2>1. job' = [job EXCEPT ![r] = Answer(how)] /\ outstanding' = NoRequest
    BY <1>1 DEF FinishTakes
  <2>2. \A p \in Answer(how).pids : p \in Payloads(outstanding.frames)
    BY DEF Answer
  <2>3. \A p \in Payloads(outstanding.frames) : \E i \in DOMAIN outstanding.frames :
          Opening(outstanding.frames[i]) /\ p = outstanding.frames[i].pids
    BY DEF Payloads, Opening
  <2>4. Answer(how).wire = outstanding.wire
    BY DEF Answer
  <2>5. Opened(Answer(how))
    BY <2>2, <2>3, <2>4 DEF Opened, Echo, Gathered
  <2>6. RequestTyped' /\ Gathered'
    <3>1. outstanding'.frames = <<>> /\ <<>> \in Seq({})
      BY <2>1 DEF NoRequest
    <3>2. DOMAIN outstanding' = {"wire", "expected", "frames", "pending", "strays", "gen"}
      BY <2>1 DEF NoRequest
    <3> QED BY <3>1, <3>2 DEF RequestTyped, Gathered
  <2> QED BY <2>1, <2>5, <2>6, EchoJob DEF Echo
<1>2. CASE ~(outstanding.gen = g /\ g # 0)
  <2>1. job' = [job EXCEPT ![r] = NoJob] /\ outstanding' = outstanding
    BY <1>2 DEF FinishTakes
  <2>2. RequestTyped' /\ Gathered'
    BY <2>1 DEF Echo, RequestTyped, Gathered, Opening
  <2> QED BY <2>1, <2>2, EchoJob, NoJobOpened DEF Echo
<1> QED BY <1>1, <1>2

LEMMA EchoFrames ==
  ASSUME Echo, NEW f, OnReply(f) PROVE Echo'
<1>0. OnFrameThread \in Runners
  BY DEF Runners
<1>1. CASE ~Counts(f)
  BY <1>1, EchoSame DEF OnReply
<1>2. CASE Counts(f)
  <2> DEFINE frames == Append(outstanding.frames, f)
             mine == outstanding.expected = f.ecu
             taken == [NoJob EXCEPT !.how = "take", !.gen = outstanding.gen]
             told == outstanding.pending \/ (mine /\ f.part = "pending")
  <2>1. outstanding' = [outstanding EXCEPT !.frames = frames, !.pending = told]
    BY <1>2 DEF OnReply
  <2>2. job' = job \/ job' = [job EXCEPT ![OnFrameThread] = taken]
    BY <1>2 DEF OnReply
  <2>3. EchoAnswers' /\ DOMAIN job' = Runners
    <3>1. Opened(taken)
      BY NoJobOpened
    <3> HIDE DEF taken
    <3> QED BY <1>0, <2>2, <3>1, EchoJob DEF Echo, EchoAnswers
  <2>4. PICK S : outstanding.frames \in Seq(S)
    BY DEF Echo, RequestTyped
  <2>5. /\ frames \in Seq(S \cup {f}) /\ DOMAIN frames = 1 .. (Len(outstanding.frames) + 1)
        /\ \A i \in DOMAIN frames :
             \/ i \in DOMAIN outstanding.frames /\ frames[i] = outstanding.frames[i]
             \/ frames[i] = f
    <3>1. outstanding.frames \in Seq(S \cup {f})
      BY <2>4
    <3> QED BY <3>1
  <2> HIDE DEF told, frames
  <2>6. /\ outstanding'.frames = frames /\ outstanding'.wire = outstanding.wire
        /\ DOMAIN outstanding' = {"wire", "expected", "frames", "pending", "strays", "gen"}
    BY <2>1 DEF Echo, RequestTyped
  <2>7. RequestTyped'
    BY <2>5, <2>6 DEF RequestTyped
  <2>8. Len(outstanding.wire.pids) = 1 /\ Opening(f) => Head(f.pids) = Head(outstanding.wire.pids)
    BY <1>2 DEF OnReply, Lagged, Opening
  <2>9. Gathered'
    BY <2>5, <2>6, <2>8 DEF Echo, Gathered
  <2> QED BY <2>3, <2>7, <2>9 DEF Echo
<1> QED BY <1>1, <1>2

LEMMA EchoArrivals ==
  ASSUME Echo, NEW f, OnSlotReply(f) \/ OnLagged(f) \/ OnTxError(f) \/ OnError(f) \/ OnNote(f)
  PROVE  Echo'
<1>0. OnFrameThread \in Runners
  BY DEF Runners
<1>1. CASE OnSlotReply(f) \/ OnNote(f)
  BY <1>1, EchoSame DEF OnSlotReply, OnNote, requestVars
<1>2. CASE OnLagged(f)
  <2> DEFINE j == [wire |-> Poll(<<Head(f.pids)>>), how |-> "data", pids |-> {f.pids}, gen |-> 0]
  <2>1. outstanding' = outstanding /\ (job' = job \/ job' = [job EXCEPT ![OnFrameThread] = j])
    BY <1>2 DEF OnLagged
  <2>2. Opened(j)
    BY DEF Opened, Poll
  <2> HIDE DEF j
  <2>3. EchoAnswers' /\ DOMAIN job' = Runners
    BY <1>0, <2>1, <2>2, EchoJob DEF Echo, EchoAnswers
  <2> QED BY <2>1, <2>3 DEF Echo, RequestTyped, Gathered, Opening
<1>3. CASE OnTxError(f)
  <2> DEFINE failed == [NoJob EXCEPT !.how = "fail", !.gen = outstanding.gen]
  <2>1. outstanding' = outstanding
        /\ (job' = job \/ job' = [job EXCEPT ![OnFrameThread] = failed])
    BY <1>3 DEF OnTxError
  <2>2. EchoAnswers' /\ DOMAIN job' = Runners
    <3>1. Opened(failed)
      BY NoJobOpened
    <3> HIDE DEF failed
    <3> QED BY <1>0, <2>1, <3>1, EchoJob DEF Echo, EchoAnswers
  <2> QED BY <2>1, <2>2 DEF Echo, RequestTyped, Gathered, Opening
<1>4. CASE OnError(f)
  <2>1. /\ job' = job
        /\ \/ outstanding' = [outstanding EXCEPT !.strays = @ + 1]
           \/ outstanding' = outstanding
    BY <1>4 DEF OnError
  <2>2. /\ outstanding'.frames = outstanding.frames /\ outstanding'.wire = outstanding.wire
        /\ DOMAIN outstanding' = DOMAIN outstanding
    BY <2>1 DEF Echo, RequestTyped
  <2> QED BY <2>1, <2>2 DEF Echo, EchoAnswers, RequestTyped, Gathered, Opening
<1> QED BY <1>1, <1>2, <1>3, <1>4

LEMMA EchoEncoding ==
  ASSUME Echo, Encoding PROVE Echo'
<1>1. ASSUME NEW e \in Headers, SendHeader(e) \/ SendHeaderWithFlow(e) PROVE Echo'
  BY <1>1, EchoSame DEF SendHeader, SendHeaderWithFlow
<1>2. ASSUME NEW p \in budget.polls, SendPoll(p) PROVE Echo'
  BY <1>2, EchoPolls
<1>3. CASE FlowEnds \/ SendWrites \/ GivesUp
  BY <1>3, EchoSame DEF FlowEnds, SendWrites, GivesUp
<1> QED BY <1>1, <1>2, <1>3 DEF Encoding

LEMMA EchoCollecting ==
  ASSUME Echo, Collecting PROVE Echo'
<1>1. PICK g \in Gens : \/ CollectorLeaves(g) \/ WindowElapses(g) \/ Resync(g)
                        \/ ResyncEnds(g) \/ CollectorFinishes(g)
  BY DEF Collecting
<1>2. CASE CollectorLeaves(g) \/ WindowElapses(g) \/ Resync(g) \/ ResyncEnds(g)
  BY <1>2, EchoSame DEF CollectorLeaves, WindowElapses, Resync, ResyncEnds
<1>3. CASE CollectorFinishes(g)
  BY <1>3, EchoFinishes DEF CollectorFinishes, Runners
<1> QED BY <1>1, <1>2, <1>3

LEMMA EchoOthers ==
  ASSUME Echo, Exchanging \/ Streaming \/ Capturing \/ Tooling PROVE Echo'
<1>1. CASE Exchanging
  BY <1>1, EchoSame DEF Exchanging, Take, TimesOut, requestVars
<1>2. CASE Streaming
  BY <1>2, EchoSame DEF Streaming, StartBegins, EngineAsks, EngineHears, StartRegisters,
     StartEnds, Arm, Break, TeardownBegins, TeardownEnds, AbandonSlots, EngineUnchanged,
     requestVars
<1>3. CASE Capturing
  BY <1>3, EchoSame DEF Capturing, CaptureBegins, HostAsks, HostHears, CaptureFilters,
     CaptureRecords, StopBegins, HostEnds, HostUnchanged, requestVars
<1>4. CASE Tooling
  BY <1>4, EchoSame DEF Tooling, ToolReplies, ToolFails, ToolObeys, ToolRefuses, ReplyLost,
     ToolStrays, SlotFires, ToolUnchanged, requestVars
<1> QED BY <1>1, <1>2, <1>3, <1>4

LEMMA EchoInit == LinkInit => Echo
<1> SUFFICES ASSUME LinkInit PROVE Echo
  OBVIOUS
<1>1. job = [r \in Runners |-> NoJob] /\ outstanding = NoRequest
  BY DEF LinkInit
<1>2. EchoAnswers
  BY <1>1, NoJobOpened DEF EchoAnswers, Opened
<1>3. outstanding.frames = <<>> /\ <<>> \in Seq({})
  BY <1>1 DEF NoRequest
<1>4. DOMAIN outstanding = {"wire", "expected", "frames", "pending", "strays", "gen"}
  BY <1>1 DEF NoRequest
<1> QED BY <1>1, <1>2, <1>3, <1>4 DEF Echo, RequestTyped, Gathered

LEMMA EchoNext == Echo /\ [LinkNext]_linkVars => Echo'
<1> SUFFICES ASSUME Echo, [LinkNext]_linkVars PROVE Echo'
  OBVIOUS
<1>1. CASE UNCHANGED linkVars
  BY <1>1, EchoSame DEF linkVars, requestVars
<1>2. CASE Framing
  <2>1. ASSUME NEW f \in Set(air), OnReply(f) PROVE Echo'
    BY <2>1, EchoFrames
  <2>2. CASE OnFrameFinishes
    BY <2>2, EchoFinishes DEF OnFrameFinishes, Runners
  <2>3. ASSUME NEW f \in Set(air), \/ OnSlotReply(f) \/ OnLagged(f) \/ OnTxError(f)
                                   \/ OnError(f) \/ OnNote(f)
        PROVE Echo'
    BY <2>3, EchoArrivals
  <2> QED BY <1>2, <2>1, <2>2, <2>3 DEF Framing
<1>3. ASSUME NEW r \in Runners, Delivers(r) PROVE Echo'
  <2>1. job' = [job EXCEPT ![r] = NoJob] /\ outstanding' = outstanding
    BY <1>3 DEF Delivers
  <2>2. EchoAnswers' /\ DOMAIN job' = Runners
    BY <2>1, EchoJob, NoJobOpened
  <2> QED BY <2>1, <2>2 DEF Echo, RequestTyped, Gathered, Opening
<1> QED BY <1>1, <1>2, <1>3, EchoEncoding, EchoCollecting, EchoOthers DEF LinkNext

(* A poll of one pid is only ever answered with payloads that open with    *)
(* that pid, also when a module answers after the polls that followed: the *)
(* echo guard of on_rx, and the side delivery of lagged replies.           *)
THEOREM EchoesAnswer == LinkSpec => []EchoAnswers
<1>1. Echo => EchoAnswers
  BY DEF Echo
<1> QED BY <1>1, EchoInit, EchoNext, PTL DEF LinkSpec
=============================================================================
