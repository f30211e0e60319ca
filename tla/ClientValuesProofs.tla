-------------------------- MODULE ClientValuesProofs --------------------------
(***************************************************************************)
(* Proofs about ClientValues, for values nested to any depth, any Data of  *)
(* the client and anything the worker can say.                             *)
(***************************************************************************)
EXTENDS ClientValues, TLAPS, FiniteSetTheorems, SequenceTheorems, WellFoundedInduction

-----------------------------------------------------------------------------
(* Induction over the layers of the values.                                *)

LEMMA Induct ==
  ASSUME NEW N \in Nat, NEW Q, 0 \in Q, \A n \in 1..N : n - 1 \in Q => n \in Q
  PROVE  \A n \in 0..N : n \in Q
<1> DEFINE B == {n \in 0..N : n \notin Q}
<1> SUFFICES ASSUME B # {} PROVE FALSE
  OBVIOUS
<1>1. B \subseteq Nat
  OBVIOUS
<1>2. PICK m \in B : \A b \in B : ~ (<<b, m>> \in OpToRel(<, Nat))
  <2> HIDE DEF B
  <2> QED
    BY <1>1, NatLessThanWellFounded, WFMin
<1>3. \A b \in B : ~ (b < m)
  BY <1>1, <1>2 DEF OpToRel
<1>4. m \in 1..N /\ m - 1 \in 0..N
  OBVIOUS
<1>5. m - 1 \in Q
  BY <1>3, <1>4
<1> QED
  BY <1>4, <1>5

LEMMA LayersFacts ==
  /\ Len(Layers) \in Nat /\ Below(0) = {}
  /\ \A n \in 1..Len(Layers) : \A v \in Below(n) :
       IsValue(v) /\ Inside(v) \subseteq Below(n - 1)
  /\ \A n \in 1..Len(Layers) : Below(n - 1) \subseteq Below(n)
<1>1. Len(Layers) \in Nat
  BY LayersAssumption DEF LayersAssumption
<1>2. Below(0) = {}
  BY DEF Below
<1>3. \A n \in 1..Len(Layers) : \A k \in 1..n : Below(k - 1) \subseteq Below(n - 1)
  BY <1>1 DEF Below
<1>4. ASSUME NEW n \in 1..Len(Layers), NEW v \in Below(n)
      PROVE  IsValue(v) /\ Inside(v) \subseteq Below(n - 1)
  <2>1. PICK k \in 1..n : v \in Layers[k]
    BY DEF Below
  <2>2. k \in 1..Len(Layers)
    BY <1>1
  <2>3. IsValue(v) /\ Inside(v) \subseteq Below(k - 1)
    BY <2>1, <2>2, LayersAssumption DEF LayersAssumption
  <2> QED
    BY <1>3, <2>3
<1>5. \A n \in 1..Len(Layers) : Below(n - 1) \subseteq Below(n)
  BY <1>1 DEF Below
<1> QED
  BY <1>1, <1>2, <1>4, <1>5

LEMMA ValueFacts ==
  ASSUME NEW v \in Values
  PROVE  IsValue(v) /\ Inside(v) \subseteq Values
<1> DEFINE N == Len(Layers)
<1>1. N \in 1..N /\ v \in Below(N)
  BY LayersFacts DEF Values, Below
<1> QED
  BY <1>1, LayersFacts DEF Values

\* What holds of a value if it holds of what is inside it holds of every value.
LEMMA ValueInduction ==
  ASSUME NEW P, \A v \in Values : Inside(v) \subseteq P => v \in P
  PROVE  Values \subseteq P
<1> DEFINE N == Len(Layers)
           Q == {n \in 0..N : Below(n) \subseteq P}
<1>1. N \in Nat /\ 0 \in Q
  BY LayersFacts
<1>2. ASSUME NEW n \in 1..N, n - 1 \in Q
      PROVE  n \in Q
  <2>1. \A k \in 1..N : Below(k) \subseteq Values
    BY <1>1 DEF Values, Below
  <2>2. \A v \in Below(n) : Inside(v) \subseteq P /\ v \in Values
    BY <1>2, <2>1, LayersFacts
  <2> QED
    BY <1>1, <2>2
<1>3. N \in 0..N
  BY <1>1
<1> HIDE DEF Q
<1>4. N \in Q
  BY <1>1, <1>2, <1>3, Induct
<1> QED
  BY <1>4 DEF Q, Values

LEMMA EachSame ==
  ASSUME NEW entries, NEW f, NEW g, \A x \in InEntries(entries) : f[x] = g[x]
  PROVE  Each(entries, f) = Each(entries, g)
<1>1. \A i \in DOMAIN entries : \A j \in DOMAIN entries[i] :
        f[entries[i][j]] = g[entries[i][j]]
  BY DEF InEntries, ToSet
<1> QED
  BY <1>1 DEF Each

-----------------------------------------------------------------------------
(* The recursive functions are what their definitions say.                 *)

LEMMA SerializableIs ==
  \A v \in Values : Serializable[v] = (/\ Unboxed(v).is \in DOMAIN ValueTypes
                                       /\ \A x \in Inside(v) : Serializable[x])
<1> DEFINE N == Len(Layers)
           F(f, v) == Unboxed(v).is \in DOMAIN ValueTypes /\ \A x \in Inside(v) : f[x]
           Solves(g, n) == g = [v \in Below(n) |-> F(g, v)]
           Q == {n \in 0..N : \E g : Solves(g, n)}
<1>1. N \in Nat
  BY LayersFacts
<1>2. 0 \in Q
  <2> DEFINE none == [v \in {} |-> 0]
  <2>1. Solves(none, 0)
    BY LayersFacts
  <2> HIDE DEF none, Solves
  <2> QED
    BY <1>1, <2>1
<1>3. ASSUME NEW n \in 1..N, n - 1 \in Q
      PROVE  n \in Q
  <2>1. PICK g : Solves(g, n - 1)
    BY <1>3
  <2> DEFINE h == [v \in Below(n) |-> F(g, v)]
  <2>2. \A x \in Below(n - 1) : h[x] = g[x]
    BY <1>1, <2>1, LayersFacts
  <2> HIDE DEF h
  <2>3. \A v \in Below(n) : F(h, v) = F(g, v)
    BY <1>1, <2>2, LayersFacts
  <2> HIDE DEF F
  <2>4. Solves(h, n)
    BY <2>3 DEF h
  <2> QED
    BY <1>1, <2>4
<1>4. N \in Q
  <2>1. N \in 0..N
    BY <1>1
  <2> HIDE DEF Q
  <2> QED
    BY <1>1, <1>2, <1>3, <2>1, Induct
<1>5. PICK g : g = [v \in Values |-> F(g, v)]
  BY <1>4 DEF Q, Values
<1>6. Serializable = CHOOSE f : f = [v \in Values |-> F(f, v)]
  BY DEF Serializable
<1> HIDE DEF F
<1>7. Serializable = [v \in Values |-> F(Serializable, v)]
  BY <1>5, <1>6
<1>8. \A v \in Values : Serializable[v] = F(Serializable, v)
  BY <1>7
<1> QED
  BY <1>8 DEF F

LEMMA WithinIs ==
  \A v \in Values : Within[v] = {v} \cup UNION {Within[x] : x \in Inside(v)}
<1> DEFINE N == Len(Layers)
           F(f, v) == {v} \cup UNION {f[x] : x \in Inside(v)}
           Solves(g, n) == g = [v \in Below(n) |-> F(g, v)]
           Q == {n \in 0..N : \E g : Solves(g, n)}
<1>1. N \in Nat
  BY LayersFacts
<1>2. 0 \in Q
  <2> DEFINE none == [v \in {} |-> 0]
  <2>1. Solves(none, 0)
    BY LayersFacts
  <2> HIDE DEF none, Solves
  <2> QED
    BY <1>1, <2>1
<1>3. ASSUME NEW n \in 1..N, n - 1 \in Q
      PROVE  n \in Q
  <2>1. PICK g : Solves(g, n - 1)
    BY <1>3
  <2> DEFINE h == [v \in Below(n) |-> F(g, v)]
  <2>2. \A x \in Below(n - 1) : h[x] = g[x]
    BY <1>1, <2>1, LayersFacts
  <2> HIDE DEF h
  <2>3. ASSUME NEW v \in Below(n)
        PROVE  F(h, v) = F(g, v)
    <3>1. \A x \in Inside(v) : h[x] = g[x]
      BY <1>1, <2>2, LayersFacts
    <3> QED
      BY <3>1
  <2> HIDE DEF F
  <2>4. Solves(h, n)
    BY <2>3 DEF h
  <2> QED
    BY <1>1, <2>4
<1>4. N \in Q
  <2>1. N \in 0..N
    BY <1>1
  <2> HIDE DEF Q
  <2> QED
    BY <1>1, <1>2, <1>3, <2>1, Induct
<1>5. PICK g : g = [v \in Values |-> F(g, v)]
  BY <1>4 DEF Q, Values
<1>6. Within = CHOOSE f : f = [v \in Values |-> F(f, v)]
  BY DEF Within
<1> HIDE DEF F
<1>7. Within = [v \in Values |-> F(Within, v)]
  BY <1>5, <1>6
<1>8. \A v \in Values : Within[v] = F(Within, v)
  BY <1>7
<1> QED
  BY <1>8 DEF F

LEMMA ReferencesInIs ==
  \A v \in Values : 
    ReferencesIn[v] = IF v.is = "Data" THEN <<v>>
                      ELSE FlattenSeq(FlattenSeq(Each(Entries(v), ReferencesIn)))
<1> DEFINE N == Len(Layers)
           F(f, v) == IF v.is = "Data" THEN <<v>>
                      ELSE FlattenSeq(FlattenSeq(Each(Entries(v), f)))
           Solves(g, n) == g = [v \in Below(n) |-> F(g, v)]
           Q == {n \in 0..N : \E g : Solves(g, n)}
<1>1. N \in Nat
  BY LayersFacts
<1>2. 0 \in Q
  <2> DEFINE none == [v \in {} |-> 0]
  <2>1. Solves(none, 0)
    BY LayersFacts
  <2> HIDE DEF none, Solves
  <2> QED
    BY <1>1, <2>1
<1>3. ASSUME NEW n \in 1..N, n - 1 \in Q
      PROVE  n \in Q
  <2>1. PICK g : Solves(g, n - 1)
    BY <1>3
  <2> DEFINE h == [v \in Below(n) |-> F(g, v)]
  <2>2. \A x \in Below(n - 1) : h[x] = g[x]
    BY <1>1, <2>1, LayersFacts
  <2> HIDE DEF h
  <2>3. ASSUME NEW v \in Below(n)
        PROVE  F(h, v) = F(g, v)
    <3>1. \A x \in InEntries(Entries(v)) : h[x] = g[x]
      BY <1>1, <2>2, LayersFacts DEF Inside
    <3>2. Each(Entries(v), h) = Each(Entries(v), g)
      BY <3>1, EachSame
    <3> QED
      BY <3>2
  <2> HIDE DEF F
  <2>4. Solves(h, n)
    BY <2>3 DEF h
  <2> QED
    BY <1>1, <2>4
<1>4. N \in Q
  <2>1. N \in 0..N
    BY <1>1
  <2> HIDE DEF Q
  <2> QED
    BY <1>1, <1>2, <1>3, <2>1, Induct
<1>5. PICK g : g = [v \in Values |-> F(g, v)]
  BY <1>4 DEF Q, Values
<1>6. ReferencesIn = CHOOSE f : f = [v \in Values |-> F(f, v)]
  BY DEF ReferencesIn
<1> HIDE DEF F
<1>7. ReferencesIn = [v \in Values |-> F(ReferencesIn, v)]
  BY <1>5, <1>6
<1>8. \A v \in Values : ReferencesIn[v] = F(ReferencesIn, v)
  BY <1>7
<1> QED
  BY <1>8 DEF F

LEMMA SerializeValueIs ==
  \A v \in Values : 
    SerializeValue[v] = ValueTable(v, Each(Entries(v), SerializeValue))
<1> DEFINE N == Len(Layers)
           F(f, v) == ValueTable(v, Each(Entries(v), f))
           Solves(g, n) == g = [v \in Below(n) |-> F(g, v)]
           Q == {n \in 0..N : \E g : Solves(g, n)}
<1>1. N \in Nat
  BY LayersFacts
<1>2. 0 \in Q
  <2> DEFINE none == [v \in {} |-> 0]
  <2>1. Solves(none, 0)
    BY LayersFacts
  <2> HIDE DEF none, Solves
  <2> QED
    BY <1>1, <2>1
<1>3. ASSUME NEW n \in 1..N, n - 1 \in Q
      PROVE  n \in Q
  <2>1. PICK g : Solves(g, n - 1)
    BY <1>3
  <2> DEFINE h == [v \in Below(n) |-> F(g, v)]
  <2>2. \A x \in Below(n - 1) : h[x] = g[x]
    BY <1>1, <2>1, LayersFacts
  <2> HIDE DEF h
  <2>3. ASSUME NEW v \in Below(n)
        PROVE  F(h, v) = F(g, v)
    <3>1. \A x \in InEntries(Entries(v)) : h[x] = g[x]
      BY <1>1, <2>2, LayersFacts DEF Inside
    <3>2. Each(Entries(v), h) = Each(Entries(v), g)
      BY <3>1, EachSame
    <3> QED
      BY <3>2
  <2> HIDE DEF F
  <2>4. Solves(h, n)
    BY <2>3 DEF h
  <2> QED
    BY <1>1, <2>4
<1>4. N \in Q
  <2>1. N \in 0..N
    BY <1>1
  <2> HIDE DEF Q
  <2> QED
    BY <1>1, <1>2, <1>3, <2>1, Induct
<1>5. PICK g : g = [v \in Values |-> F(g, v)]
  BY <1>4 DEF Q, Values
<1>6. SerializeValue = CHOOSE f : f = [v \in Values |-> F(f, v)]
  BY DEF SerializeValue
<1> HIDE DEF F
<1>7. SerializeValue = [v \in Values |-> F(SerializeValue, v)]
  BY <1>5, <1>6
<1>8. \A v \in Values : SerializeValue[v] = F(SerializeValue, v)
  BY <1>7
<1> QED
  BY <1>8 DEF F

-----------------------------------------------------------------------------
(* Lists, and what is picked from them.                                    *)

\* The sets that say what is before an element grow from each to the next.
IsChain(upto) ==
    \A x, y \in DOMAIN upto :
      /\ x \in upto[x] /\ upto[x] \subseteq DOMAIN upto
      /\ x # y => \/ upto[x] \subseteq upto[y] /\ y \notin upto[x]
                  \/ upto[y] \subseteq upto[x] /\ x \notin upto[y]

LEMMA ListingFacts ==
  ASSUME NEW upto, IsFiniteSet(DOMAIN upto), IsChain(upto)
  PROVE  LET S == DOMAIN upto
             n == Cardinality(S)
             at == Listing(upto)
         IN  /\ n \in Nat /\ at \in [1..n -> S]
             /\ \A x \in S : \E k \in 1..n : at[k] = x
             /\ \A k, l \in 1..n : at[k] = at[l] => k = l
             /\ \A k, l \in 1..n : at[k] \in upto[at[l]] <=> k <= l
<1> DEFINE S == DOMAIN upto
           n == Cardinality(S)
           at == Listing(upto)
           rank == [x \in S |-> Cardinality(upto[x])]
<1>1. n \in Nat /\ IsFiniteSet(1..n) /\ Cardinality(1..n) = n
  <2>1. n \in Nat
    BY FS_CardinalityType
  <2> HIDE DEF n
  <2>2. 1 \in Int /\ n \in Int
    BY <2>1
  <2>3. IsFiniteSet(1..n) /\ Cardinality(1..n) = IF 1 > n THEN 0 ELSE n - 1 + 1
    BY <2>2, FS_Interval
  <2> QED
    BY <2>1, <2>3
<1>2. \A x \in S : /\ IsFiniteSet(upto[x]) /\ Cardinality(upto[x]) \in 1..n
  <2> SUFFICES ASSUME NEW x \in S
               PROVE  IsFiniteSet(upto[x]) /\ Cardinality(upto[x]) \in 1..n
    OBVIOUS
  <2>1. upto[x] \in SUBSET S /\ x \in upto[x]
    BY DEF IsChain
  <2>2. IsFiniteSet(upto[x]) /\ Cardinality(upto[x]) <= n
    BY <2>1, FS_Subset
  <2>3. Cardinality(upto[x]) \in Nat /\ Cardinality(upto[x]) # 0
    BY <2>1, <2>2, FS_CardinalityType, FS_EmptySet
  <2> HIDE DEF n
  <2> QED
    BY <1>1, <2>2, <2>3
<1>3. ASSUME NEW x \in S, NEW y \in S, upto[x] \subseteq upto[y], y \notin upto[x]
      PROVE  Cardinality(upto[x]) < Cardinality(upto[y])
  <2>1. upto[x] \in SUBSET upto[y] /\ upto[x] # upto[y]
    BY <1>3 DEF IsChain
  <2>2. /\ Cardinality(upto[x]) <= Cardinality(upto[y])
        /\ Cardinality(upto[x]) # Cardinality(upto[y])
    BY <1>2, <2>1, FS_Subset
  <2> QED
    BY <1>2, <2>2
<1>4. \A x, y \in S : x # y => rank[x] # rank[y]
  <2> SUFFICES ASSUME NEW x \in S, NEW y \in S, x # y
               PROVE  Cardinality(upto[x]) # Cardinality(upto[y])
    OBVIOUS
  <2>1. \/ Cardinality(upto[x]) < Cardinality(upto[y])
        \/ Cardinality(upto[y]) < Cardinality(upto[x])
    BY <1>3 DEF IsChain
  <2> QED
    BY <1>2, <2>1
<1>5. rank \in Injection(S, 1..n)
  BY <1>2, <1>4 DEF Injection, IsInjective
<1>6. rank \in Surjection(S, 1..n)
  <2> HIDE DEF rank, n, S
  <2>1. IsFiniteSet(S) /\ Cardinality(S) = Cardinality(1..n)
    BY <1>1 DEF S, n
  <2> QED
    BY <1>1, <1>5, <2>1, FS_Injection
<1>7. \A k \in 1..n : \E x \in S : Cardinality(upto[x]) = k
  BY <1>6 DEF Surjection
<1>8. \A k \in 1..n : at[k] \in S /\ Cardinality(upto[at[k]]) = k
  <2> SUFFICES ASSUME NEW k \in 1..n
               PROVE  at[k] \in S /\ Cardinality(upto[at[k]]) = k
    OBVIOUS
  <2>1. at[k] = CHOOSE x \in S : Cardinality(upto[x]) = k
    BY DEF Listing
  <2> HIDE DEF at
  <2> QED
    BY <1>7, <2>1
<1>9. at \in [1..n -> S]
  <2>1. at = [k \in 1..n |-> CHOOSE x \in S : Cardinality(upto[x]) = k]
    BY DEF Listing
  <2>2. at = [k \in 1..n |-> at[k]]
    BY <2>1
  <2> HIDE DEF at
  <2> QED
    BY <1>8, <2>2
<1> HIDE DEF at, n
<1>10. \A x \in S : \E k \in 1..n : at[k] = x
  BY <1>2, <1>4, <1>8
<1>11. \A k, l \in 1..n : at[k] = at[l] => k = l
  BY <1>8
<1>12. ASSUME NEW k \in 1..n, NEW l \in 1..n
       PROVE  at[k] \in upto[at[l]] <=> k <= l
  <2>1. CASE at[k] = at[l]
    BY <1>1, <1>8, <1>11, <2>1 DEF IsChain
  <2>2. CASE upto[at[k]] \subseteq upto[at[l]] /\ at[l] \notin upto[at[k]]
    <3>1. k < l
      BY <1>3, <1>8, <2>2
    <3>2. at[k] \in upto[at[l]]
      BY <1>8, <2>2 DEF IsChain
    <3> QED
      BY <1>1, <3>1, <3>2
  <2>3. CASE upto[at[l]] \subseteq upto[at[k]] /\ at[k] \notin upto[at[l]]
    <3>1. l < k
      BY <1>3, <1>8, <2>3
    <3> QED
      BY <1>1, <2>3, <3>1
  <2> QED
    BY <1>8, <2>1, <2>2, <2>3 DEF IsChain
<1> QED
  BY <1>1, <1>9, <1>10, <1>11, <1>12 DEF at, n

\* A function on the first numbers is a sequence.
LEMMA FunctionIsList ==
  ASSUME NEW n \in Nat, NEW s, s = [k \in 1..n |-> s[k]]
  PROVE  IsList(s) /\ Len(s) = n
<1>1. s \in [1..n -> ToSet(s)]
  BY DEF ToSet
<1>2. s \in Seq(ToSet(s))
  BY <1>1, SeqDef
<1> QED
  BY <1>1, <1>2, LenProperties DEF IsList

LEMMA ListFacts ==
  ASSUME NEW s, IsList(s)
  PROVE  Len(s) \in Nat /\ DOMAIN s = 1..Len(s) /\ s = [k \in 1..Len(s) |-> s[k]]
  BY LenProperties DEF IsList

LEMMA InOrderFacts ==
  ASSUME NEW I, I \subseteq Nat, IsFiniteSet(I)
  PROVE  LET n == Cardinality(I)
             at == InOrder(I)
         IN  /\ n \in Nat /\ at \in [1..n -> I] /\ DOMAIN at = 1..n
             /\ \A i \in I : \E k \in 1..n : at[k] = i
             /\ \A k, l \in 1..n : at[k] = at[l] => k = l
<1> DEFINE upto == [i \in I |-> {j \in I : j <= i}]
           n == Cardinality(I)
           at == InOrder(I)
<1>1. DOMAIN upto = I
  OBVIOUS
<1>3. IsChain(upto)
  <2>1. \A x \in I : x \in upto[x] /\ upto[x] \subseteq I
    OBVIOUS
  <2>2. ASSUME NEW x \in I, NEW y \in I, x < y
        PROVE  upto[x] \subseteq upto[y] /\ y \notin upto[x]
    <3>1. \A j \in I : j <= x => j <= y
      BY <2>2
    <3>2. ~ (y <= x)
      BY <2>2
    <3> QED
      BY <3>1, <3>2
  <2>3. \A x, y \in I : x # y => x < y \/ y < x
    OBVIOUS
  <2> HIDE DEF upto
  <2> QED
    BY <1>1, <2>1, <2>2, <2>3 DEF IsChain
<1>4. at = Listing(upto)
  BY DEF InOrder
<1> HIDE DEF at
<1>5. /\ n \in Nat /\ at \in [1..n -> I]
      /\ \A i \in I : \E k \in 1..n : at[k] = i
      /\ \A k, l \in 1..n : at[k] = at[l] => k = l
  <2> HIDE DEF upto
  <2> QED
    BY <1>1, <1>3, <1>4, ListingFacts
<1> QED
  BY <1>5 DEF at

\* Positions of a list can be put in order.
LEMMA PositionsFacts ==
  ASSUME NEW s, IsList(s), NEW I \in SUBSET (DOMAIN s)
  PROVE  I \subseteq Nat /\ IsFiniteSet(I)
<1> DEFINE m == Len(s)
<1>1. m \in Nat /\ DOMAIN s = 1..m
  BY ListFacts
<1> HIDE DEF m
<1>2. 1 \in Int /\ m \in Int
  BY <1>1
<1>3. IsFiniteSet(1..m) /\ I \in SUBSET (1..m)
  BY <1>1, <1>2, FS_Interval
<1> QED
  BY <1>1, <1>3, FS_Subset

LEMMA PickFacts ==
  ASSUME NEW s, IsList(s), NEW I \in SUBSET (DOMAIN s)
  PROVE  LET n == Cardinality(I)
             at == InOrder(I)
         IN  /\ n \in Nat /\ at \in [1..n -> I]
             /\ \A i \in I : \E k \in 1..n : at[k] = i
             /\ \A k, l \in 1..n : at[k] = at[l] => k = l
             /\ Pick(s, I) = [k \in 1..n |-> s[at[k]]]
<1> DEFINE n == Cardinality(I)
           at == InOrder(I)
<1>1. I \subseteq Nat /\ IsFiniteSet(I)
  BY PositionsFacts
<1>2. /\ n \in Nat /\ at \in [1..n -> I] /\ DOMAIN at = 1..n
      /\ \A i \in I : \E k \in 1..n : at[k] = i
      /\ \A k, l \in 1..n : at[k] = at[l] => k = l
  BY <1>1, InOrderFacts
<1>3. Pick(s, I) = [k \in 1..n |-> s[at[k]]]
  BY <1>2 DEF Pick, at
<1> QED
  BY <1>2, <1>3

\* What is picked from a sequence, and in which order.
LEMMA PickIsList ==
  ASSUME NEW s, IsList(s), NEW I \in SUBSET (DOMAIN s)
  PROVE  /\ IsList(Pick(s, I)) /\ Len(Pick(s, I)) = Cardinality(I)
         /\ ToSet(Pick(s, I)) = {s[i] : i \in I}
         /\ Pick(s, I) = <<>> <=> I = {}
<1> DEFINE n == Cardinality(I)
           at == InOrder(I)
           p == Pick(s, I)
<1>1. Len(s) \in Nat /\ DOMAIN s = 1..Len(s)
  BY ListFacts
<1>2. /\ n \in Nat /\ at \in [1..n -> I]
      /\ \A i \in I : \E k \in 1..n : at[k] = i
      /\ p = [k \in 1..n |-> s[at[k]]]
  BY PickFacts
<1> HIDE DEF n, at, p
<1>3. p = [k \in 1..n |-> p[k]]
  BY <1>2
<1>4. IsList(p) /\ Len(p) = n
  BY <1>2, <1>3, FunctionIsList
<1>5. ToSet(p) = {s[i] : i \in I}
  BY <1>2 DEF ToSet
<1>6. p = <<>> <=> I = {}
  <2>1. p \in Seq(ToSet(p))
    BY <1>4 DEF IsList
  <2>2. p = <<>> <=> Len(p) = 0
    BY <2>1, EmptySeq
  <2>3. I = {} <=> 1..n = {}
    BY <1>2
  <2>4. n = 0 <=> 1..n = {}
    BY <1>2
  <2> QED
    BY <1>4, <2>2, <2>3, <2>4
<1> QED
  BY <1>4, <1>5, <1>6 DEF n, p

LEMMA ConcatIsList ==
  ASSUME NEW a, NEW b, IsList(a), IsList(b)
  PROVE  /\ IsList(a \o b) /\ ToSet(a \o b) = ToSet(a) \cup ToSet(b)
         /\ Len(a \o b) = Len(a) + Len(b)
         /\ \A i \in 1..(Len(a) + Len(b)) :
              (a \o b)[i] = IF i <= Len(a) THEN a[i] ELSE b[i - Len(a)]
<1> DEFINE V == ToSet(a) \cup ToSet(b)
           s == a \o b
<1>1. a \in Seq(V) /\ b \in Seq(V)
  <2>1. a \in Seq(ToSet(a)) /\ b \in Seq(ToSet(b)) /\ ToSet(a) \subseteq V /\ ToSet(b) \subseteq V
    BY DEF IsList
  <2> HIDE DEF V
  <2> QED
    BY <2>1, SeqMonotonic
<1>2. /\ Len(a) \in Nat /\ DOMAIN a = 1..Len(a) /\ Len(b) \in Nat /\ DOMAIN b = 1..Len(b)
  BY ListFacts
<1> HIDE DEF V
<1>3. /\ s \in Seq(V) /\ Len(s) = Len(a) + Len(b)
      /\ \A i \in 1..(Len(a) + Len(b)) : s[i] = IF i <= Len(a) THEN a[i] ELSE b[i - Len(a)]
  BY <1>1, ConcatProperties
<1> HIDE DEF s
<1>4. DOMAIN s = 1..(Len(a) + Len(b))
  BY <1>3, LenProperties
<1>5. ASSUME NEW x \in ToSet(s) PROVE x \in ToSet(a) \cup ToSet(b)
  <2>1. PICK i \in 1..(Len(a) + Len(b)) : s[i] = x
    BY <1>4 DEF ToSet
  <2>2. CASE i <= Len(a)
    <3>1. i \in DOMAIN a /\ a[i] = x
      BY <1>2, <1>3, <2>1, <2>2
    <3> QED
      BY <3>1 DEF ToSet
  <2>3. CASE ~(i <= Len(a))
    <3>1. i - Len(a) \in DOMAIN b /\ b[i - Len(a)] = x
      BY <1>2, <1>3, <2>1, <2>3
    <3> QED
      BY <3>1 DEF ToSet
  <2> QED
    BY <2>2, <2>3
<1>6. ASSUME NEW i \in DOMAIN a PROVE a[i] \in ToSet(s)
  <2>1. i \in DOMAIN s /\ s[i] = a[i]
    BY <1>2, <1>3, <1>4
  <2> QED
    BY <2>1 DEF ToSet
<1>7. ASSUME NEW i \in DOMAIN b PROVE b[i] \in ToSet(s)
  <2>1. Len(a) + i \in DOMAIN s /\ ~(Len(a) + i <= Len(a)) /\ (Len(a) + i) - Len(a) = i
    BY <1>2, <1>4
  <2>2. s[Len(a) + i] = b[i]
    BY <1>3, <1>4, <2>1
  <2> QED
    BY <2>1, <2>2 DEF ToSet
<1>8. ToSet(s) = ToSet(a) \cup ToSet(b)
  BY <1>5, <1>6, <1>7 DEF ToSet
<1> QED
  BY <1>2, <1>3, <1>8 DEF IsList, s, V


\* Lists one after the other.
LEMMA FlattenFacts ==
  ASSUME NEW s, IsList(s), \A i \in DOMAIN s : IsList(s[i])
  PROVE  /\ IsList(FlattenSeq(s))
         /\ ToSet(FlattenSeq(s)) = UNION {ToSet(s[i]) : i \in DOMAIN s}
<1> DEFINE N == Len(s)
           F(f, i) == IF i = 1 THEN s[i] ELSE f[i - 1] \o s[i]
           Solves(g, n) == g = [i \in 1..n |-> F(g, i)]
           Q == {n \in 0..N : \E g : Solves(g, n)}
<1>1. N \in Nat /\ DOMAIN s = 1..N
  BY ListFacts
<1>2. 0 \in Q
  <2> DEFINE none == [i \in 1..0 |-> 0]
  <2>1. Solves(none, 0)
    OBVIOUS
  <2> HIDE DEF none, Solves
  <2> QED
    BY <1>1, <2>1
<1>3. ASSUME NEW n \in 1..N, n - 1 \in Q
      PROVE  n \in Q
  <2>1. PICK g : Solves(g, n - 1)
    BY <1>3
  <2> DEFINE h == [i \in 1..n |-> F(g, i)]
  <2>2. \A i \in 1..(n - 1) : h[i] = g[i]
    <3> HIDE DEF F
    <3>1. \A i \in 1..(n - 1) : i \in 1..n
      BY <1>1
    <3> QED
      BY <2>1, <3>1
  <2> HIDE DEF h
  <2>3. ASSUME NEW i \in 1..n
        PROVE  F(h, i) = F(g, i)
    <3>1. i = 1 \/ i - 1 \in 1..(n - 1)
      BY <1>1
    <3> QED
      BY <2>2, <3>1
  <2> HIDE DEF F
  <2>4. Solves(h, n)
    BY <2>3 DEF h
  <2> QED
    BY <1>1, <2>4
<1>4. N \in Q
  <2>1. N \in 0..N
    BY <1>1
  <2> HIDE DEF Q
  <2> QED
    BY <1>1, <1>2, <1>3, <2>1, Induct
<1>5. PICK g : Solves(g, N)
  BY <1>4
<1> DEFINE flat == CHOOSE f : Solves(f, N)
<1>6. FlattenSeq(s) = IF N = 0 THEN s ELSE flat[N]
  BY DEF FlattenSeq
<1>7. Solves(flat, N)
  BY <1>5
<1> HIDE DEF flat
<1>8. \A i \in 1..N : flat[i] = F(flat, i)
  BY <1>7
<1> DEFINE Upto(n) == UNION {ToSet(s[i]) : i \in 1..n}
           R == {n \in 0..N : n = 0 \/ (IsList(flat[n]) /\ ToSet(flat[n]) = Upto(n))}
<1>9. 0 \in R
  BY <1>1
<1>10. ASSUME NEW n \in 1..N, n - 1 \in R
       PROVE  n \in R
  <2>1. CASE n = 1
    <3>1. flat[n] = s[1] /\ Upto(n) = ToSet(s[1]) /\ IsList(s[1])
      BY <1>1, <1>8, <2>1
    <3> QED
      BY <2>1, <3>1
  <2>2. CASE n # 1
    <3> DEFINE a == flat[n - 1]
    <3>1. IsList(a) /\ ToSet(a) = Upto(n - 1) /\ IsList(s[n])
      BY <1>1, <1>10, <2>2
    <3>2. flat[n] = a \o s[n]
      BY <1>8, <2>2
    <3>3. Upto(n) = Upto(n - 1) \cup ToSet(s[n])
      <4>1. \A i : i \in 1..n <=> i \in 1..(n - 1) \/ i = n
        BY <1>1
      <4> QED
        BY <4>1
    <3> HIDE DEF a, Upto
    <3>4. IsList(flat[n]) /\ ToSet(flat[n]) = Upto(n)
      BY <3>1, <3>2, <3>3, ConcatIsList
    <3> QED
      BY <3>4
  <2> QED
    BY <2>1, <2>2
<1>11. N \in R
  <2>1. N \in 0..N
    BY <1>1
  <2> HIDE DEF R
  <2> QED
    BY <1>1, <1>9, <1>10, <2>1, Induct
<1>12. CASE N = 0
  <2>1. DOMAIN s = {} /\ FlattenSeq(s) = s
    BY <1>1, <1>6, <1>12
  <2> QED
    BY <2>1 DEF ToSet
<1>13. CASE N # 0
  BY <1>1, <1>6, <1>11, <1>13
<1> QED
  BY <1>12, <1>13

LEMMA EachFacts ==
  ASSUME NEW entries, IsList(entries), \A i \in DOMAIN entries : IsList(entries[i]), NEW f
  PROVE  LET e == Each(entries, f)
         IN  /\ IsList(e) /\ DOMAIN e = DOMAIN entries /\ Len(e) = Len(entries)
             /\ \A i \in DOMAIN e :
                  /\ IsList(e[i]) /\ DOMAIN e[i] = DOMAIN entries[i]
                  /\ \A j \in DOMAIN e[i] : e[i][j] = f[entries[i][j]]
             /\ UNION {ToSet(e[i]) : i \in DOMAIN e} = {f[x] : x \in InEntries(entries)}
<1> DEFINE e == Each(entries, f)
<1>1. /\ Len(entries) \in Nat /\ DOMAIN entries = 1..Len(entries)
  BY ListFacts
<1>2. e = [i \in DOMAIN entries |-> [j \in DOMAIN entries[i] |-> f[entries[i][j]]]]
  BY DEF Each
<1> HIDE DEF e
<1>3. DOMAIN e = 1..Len(entries) /\ e = [i \in 1..Len(entries) |-> e[i]]
  BY <1>1, <1>2
<1>4. IsList(e) /\ Len(e) = Len(entries)
  BY <1>1, <1>3, FunctionIsList
<1>5. ASSUME NEW i \in DOMAIN entries
      PROVE  /\ IsList(e[i]) /\ DOMAIN e[i] = DOMAIN entries[i]
             /\ \A j \in DOMAIN e[i] : e[i][j] = f[entries[i][j]]
  <2> DEFINE s == entries[i]
             r == e[i]
  <2>1. r = [j \in DOMAIN s |-> f[s[j]]]
    BY <1>2
  <2>2. Len(s) \in Nat /\ DOMAIN s = 1..Len(s)
    BY ListFacts
  <2> HIDE DEF s, r
  <2>3. r = [j \in 1..Len(s) |-> r[j]]
    BY <2>1, <2>2
  <2>4. IsList(r) /\ DOMAIN r = DOMAIN s /\ \A j \in DOMAIN r : r[j] = f[s[j]]
    BY <2>1, <2>2, <2>3, FunctionIsList
  <2> QED
    BY <2>4 DEF s, r
<1>6. UNION {ToSet(e[i]) : i \in DOMAIN e} = {f[x] : x \in InEntries(entries)}
  BY <1>1, <1>3, <1>5 DEF InEntries, ToSet
<1> QED
  BY <1>1, <1>3, <1>4, <1>5, <1>6 DEF e

-----------------------------------------------------------------------------
(* What is inside a value.                                                 *)

LEMMA EmptyList == IsList(<<>>) /\ ToSet(<<>>) = {} /\ DOMAIN <<>> = {} /\ Len(<<>>) = 0
<1>1. ToSet(<<>>) = {}
  BY DEF ToSet
<1> QED
  BY <1>1 DEF IsList

LEMMA SmallLists ==
  ASSUME NEW x, NEW y
  PROVE  IsList(<<x>>) /\ IsList(<<x, y>>) /\ ToSet(<<x>>) = {x} /\ ToSet(<<x, y>>) = {x, y}
<1>1. ToSet(<<x>>) = {x} /\ ToSet(<<x, y>>) = {x, y}
  BY DEF ToSet
<1>2. <<x>> \in Seq({x}) /\ <<x, y>> \in Seq({x, y})
  OBVIOUS
<1> QED
  BY <1>1, <1>2 DEF IsList

LEMMA EntriesFacts ==
  ASSUME NEW v \in Values
  PROVE  IsList(Entries(v)) /\ \A i \in DOMAIN Entries(v) : IsList(Entries(v)[i])
<1> DEFINE e == Entries(v)
<1>1. CASE v.is \in {"Array", "Set"}
  <2> DEFINE s == v.items
  <2>1. e = [i \in DOMAIN s |-> <<s[i]>>] /\ IsList(s)
    BY <1>1, ValueFacts DEF Entries, IsValue
  <2> HIDE DEF e, s
  <2>2. Len(s) \in Nat /\ DOMAIN s = 1..Len(s)
    BY <2>1, ListFacts
  <2>3. e = [i \in 1..Len(s) |-> e[i]] /\ \A i \in DOMAIN e : e[i] = <<s[i]>>
    BY <2>1, <2>2
  <2>4. IsList(e)
    BY <2>2, <2>3, FunctionIsList
  <2>5. \A i \in DOMAIN e : IsList(<<s[i]>>)
    BY SmallLists
  <2> QED
    BY <2>3, <2>4, <2>5 DEF e
<1>2. CASE v.is = "object"
  <2> DEFINE s == v.properties
  <2>1. e = [i \in DOMAIN s |-> <<s[i].value>>] /\ IsList(s)
    BY <1>2, ValueFacts DEF Entries, IsValue
  <2> HIDE DEF e, s
  <2>2. Len(s) \in Nat /\ DOMAIN s = 1..Len(s)
    BY <2>1, ListFacts
  <2>3. e = [i \in 1..Len(s) |-> e[i]] /\ \A i \in DOMAIN e : e[i] = <<s[i].value>>
    BY <2>1, <2>2
  <2>4. IsList(e)
    BY <2>2, <2>3, FunctionIsList
  <2>5. \A i \in DOMAIN e : IsList(<<s[i].value>>)
    BY SmallLists
  <2> QED
    BY <2>3, <2>4, <2>5 DEF e
<1>3. CASE v.is = "Map"
  <2> DEFINE s == v.items
  <2>1. e = [i \in DOMAIN s |-> <<s[i].key, s[i].value>>] /\ IsList(s)
    BY <1>3, ValueFacts DEF Entries, IsValue
  <2> HIDE DEF e, s
  <2>2. Len(s) \in Nat /\ DOMAIN s = 1..Len(s)
    BY <2>1, ListFacts
  <2>3. e = [i \in 1..Len(s) |-> e[i]] /\ \A i \in DOMAIN e : e[i] = <<s[i].key, s[i].value>>
    BY <2>1, <2>2
  <2>4. IsList(e)
    BY <2>2, <2>3, FunctionIsList
  <2>5. \A i \in DOMAIN e : IsList(<<s[i].key, s[i].value>>)
    BY SmallLists
  <2> QED
    BY <2>3, <2>4, <2>5 DEF e
<1>4. CASE v.is \notin {"Array", "Set", "object", "Map"}
  <2>1. e = <<>>
    BY <1>4 DEF Entries
  <2>2. IsList(<<>>) /\ DOMAIN <<>> = {}
    BY EmptyList
  <2> HIDE DEF e
  <2>3. IsList(e) /\ DOMAIN e = {}
    BY <2>1, <2>2
  <2> QED
    BY <2>3 DEF e
<1> QED
  BY <1>1, <1>2, <1>3, <1>4

\* The Data among the values in a value.
DataIn(v) == {w \in Within[v] : w.is = "Data"}

LEMMA WithinFacts ==
  \A v \in Values : v \in Within[v] /\ Within[v] \subseteq Values
<1> DEFINE P == {v \in Values : Within[v] \subseteq Values}
<1>1. ASSUME NEW v \in Values, Inside(v) \subseteq P
      PROVE  v \in P
  BY <1>1, WithinIs
<1> HIDE DEF P
<1>2. Values \subseteq P
  BY <1>1, ValueInduction
<1> QED
  BY <1>2, WithinIs DEF P

LEMMA SupportedFacts ==
  ASSUME NEW v \in Values
  PROVE  Unboxed(v).is \in DOMAIN ValueTypes <=> Supported(v)
<1>1. DOMAIN ValueTypes = {"undefined", "null", "boolean", "number", "string", "Date", "Data",
                           "Service", "Array", "Map", "Set", "object"}
  BY DEF ValueTypes
<1>2. IsValue(v)
  BY ValueFacts
<1>3. CASE v.is = "boxed"
  <2>1. v.primitive.is \in {"boolean", "number", "string"}
    BY <1>2, <1>3 DEF IsValue, IsPrimitive
  <2> QED
    BY <1>1, <1>3, <2>1 DEF Unboxed, Supported
<1>4. CASE v.is # "boxed"
  <2>1. v.is \in DOMAIN ValueTypes \cup {"Message", "function"}
    BY <1>1, <1>2, <1>4 DEF IsValue, IsPrimitive
  <2> QED
    BY <1>1, <1>4, <2>1 DEF Unboxed, Supported
<1> QED
  BY <1>3, <1>4

LEMMA SerializableFacts ==
  \A v \in Values : Serializable[v] <=> \A w \in Within[v] : Supported(w)
<1> DEFINE P == {v \in Values : Serializable[v] <=> \A w \in Within[v] : Supported(w)}
<1>1. ASSUME NEW v \in Values, Inside(v) \subseteq P
      PROVE  v \in P
  <2>1. Serializable[v] <=> Supported(v) /\ \A x \in Inside(v) : Serializable[x]
    BY SerializableIs, SupportedFacts
  <2>2. \A w : w \in Within[v] <=> w = v \/ \E x \in Inside(v) : w \in Within[x]
    BY WithinIs
  <2> QED
    BY <1>1, <2>1, <2>2
<1> HIDE DEF P
<1>2. Values \subseteq P
  BY <1>1, ValueInduction
<1> QED
  BY <1>2 DEF P

LEMMA ReferencesFacts ==
  \A v \in Values : IsList(ReferencesIn[v]) /\ ToSet(ReferencesIn[v]) = DataIn(v)
<1> DEFINE P == {v \in Values : IsList(ReferencesIn[v]) /\ ToSet(ReferencesIn[v]) = DataIn(v)}
<1>1. ASSUME NEW v \in Values, Inside(v) \subseteq P
      PROVE  v \in P
  <2>1. \A w : w \in Within[v] <=> w = v \/ \E x \in Inside(v) : w \in Within[x]
    BY WithinIs
  <2>2. CASE v.is = "Data"
    <3>1. Entries(v) = <<>>
      BY <2>2 DEF Entries
    <3>2. Inside(v) = {}
      BY <3>1 DEF Inside, InEntries
    <3>3. DataIn(v) = {v}
      BY <2>1, <2>2, <3>2 DEF DataIn
    <3>4. ReferencesIn[v] = <<v>> /\ ToSet(<<v>>) = {v}
      BY <2>2, ReferencesInIs DEF ToSet
    <3> QED
      BY <3>3, <3>4, SmallLists
  <2>3. CASE v.is # "Data"
    <3> DEFINE e == Each(Entries(v), ReferencesIn)
               s == FlattenSeq(e)
               r == FlattenSeq(s)
    <3>1. ReferencesIn[v] = r
      BY <2>3, ReferencesInIs
    <3>2. /\ IsList(e) /\ \A i \in DOMAIN e : IsList(e[i])
          /\ UNION {ToSet(e[i]) : i \in DOMAIN e} = {ReferencesIn[x] : x \in Inside(v)}
      BY EntriesFacts, EachFacts DEF Inside
    <3> HIDE DEF e
    <3>3. IsList(s) /\ ToSet(s) = {ReferencesIn[x] : x \in Inside(v)}
      BY <3>2, FlattenFacts
    <3> HIDE DEF s
    <3>4. \A i \in DOMAIN s : \E x \in Inside(v) : s[i] = ReferencesIn[x]
      BY <3>3 DEF ToSet
    <3>5. \A i \in DOMAIN s : IsList(s[i])
      BY <1>1, <3>4
    <3>6. IsList(r) /\ ToSet(r) = UNION {ToSet(s[i]) : i \in DOMAIN s}
      BY <3>3, <3>5, FlattenFacts
    <3>7. UNION {ToSet(s[i]) : i \in DOMAIN s} = UNION {ToSet(y) : y \in ToSet(s)}
      BY DEF ToSet
    <3>8. UNION {ToSet(y) : y \in ToSet(s)} = UNION {DataIn(x) : x \in Inside(v)}
      <4>1. \A x \in Inside(v) : ToSet(ReferencesIn[x]) = DataIn(x)
        BY <1>1
      <4> QED
        BY <3>3, <4>1
    <3>9. UNION {DataIn(x) : x \in Inside(v)} = DataIn(v)
      BY <2>1, <2>3 DEF DataIn
    <3> QED
      BY <3>1, <3>6, <3>7, <3>8, <3>9
  <2> QED
    BY <2>2, <2>3
<1> HIDE DEF P
<1>2. Values \subseteq P
  BY <1>1, ValueInduction
<1> QED
  BY <1>2 DEF P

-----------------------------------------------------------------------------
(* The Data that travel with a request.                                    *)

LEMMA Smallest ==
  ASSUME NEW S \in SUBSET Nat, S # {}
  PROVE  \E m \in S : \A k \in S : m <= k
<1>1. PICK m \in S : \A b \in S : ~ (<<b, m>> \in OpToRel(<, Nat))
  BY NatLessThanWellFounded, WFMin
<1>2. \A b \in S : ~ (b < m)
  BY <1>1 DEF OpToRel
<1> QED
  BY <1>2

\* The elements of a sequence are different.
NoneTwice(s) == \A i, j \in DOMAIN s : s[i] = s[j] => i = j

\* Two lists with nothing in common, one after the other.
LEMMA ConcatNoneTwice ==
  ASSUME NEW a, NEW b, IsList(a), IsList(b), NoneTwice(a), NoneTwice(b),
         ToSet(a) \cap ToSet(b) = {}
  PROVE  NoneTwice(a \o b)
<1> DEFINE s == a \o b
<1>1. Len(a) \in Nat /\ DOMAIN a = 1..Len(a) /\ Len(b) \in Nat /\ DOMAIN b = 1..Len(b)
  BY ListFacts
<1>2. /\ IsList(s) /\ Len(s) = Len(a) + Len(b)
      /\ \A i \in 1..(Len(a) + Len(b)) :
           s[i] = IF i <= Len(a) THEN a[i] ELSE b[i - Len(a)]
  BY ConcatIsList
<1> HIDE DEF s
<1>3. DOMAIN s = 1..(Len(a) + Len(b))
  BY <1>2, ListFacts
<1> SUFFICES ASSUME NEW i \in DOMAIN s, NEW j \in DOMAIN s, s[i] = s[j], i < j
             PROVE  FALSE
  BY <1>1, <1>3 DEF NoneTwice, s
<1>4. CASE j <= Len(a)
  <2>1. i \in DOMAIN a /\ j \in DOMAIN a /\ s[i] = a[i] /\ s[j] = a[j]
    BY <1>1, <1>2, <1>3, <1>4
  <2>2. i = j
    BY <2>1 DEF NoneTwice
  <2>3. i \in Nat /\ j \in Nat
    BY <1>1, <2>1
  <2> QED
    BY <2>2, <2>3
<1>5. CASE i <= Len(a) /\ ~ (j <= Len(a))
  <2>1. i \in DOMAIN a /\ j - Len(a) \in DOMAIN b /\ s[i] = a[i] /\ s[j] = b[j - Len(a)]
    BY <1>1, <1>2, <1>3, <1>5
  <2>2. a[i] \in ToSet(a) /\ b[j - Len(a)] \in ToSet(b)
    BY <2>1 DEF ToSet
  <2> QED
    BY <2>1, <2>2
<1>6. CASE ~ (i <= Len(a))
  <2>1. i \in 1..(Len(a) + Len(b)) /\ j \in 1..(Len(a) + Len(b)) /\ ~ (j <= Len(a))
    BY <1>1, <1>3, <1>6
  <2>2. s[i] = b[i - Len(a)] /\ s[j] = b[j - Len(a)]
    BY <1>2, <1>6, <2>1
  <2>3. i - Len(a) \in DOMAIN b /\ j - Len(a) \in DOMAIN b
    BY <1>1, <1>6, <2>1
  <2>4. i - Len(a) = j - Len(a)
    BY <2>2, <2>3 DEF NoneTwice
  <2> QED
    BY <1>1, <2>1, <2>4
<1> QED
  BY <1>1, <1>3, <1>4, <1>5, <1>6

LEMMA TryAddFacts ==
  ASSUME NEW keys, NEW more, IsList(more)
  PROVE  LET t == TryAdd(keys, more)
         IN  IsList(t) /\ NoneTwice(t) /\ ToSet(t) = ToSet(more) \ keys
<1> DEFINE I == {i \in DOMAIN more : /\ more[i] \notin keys
                                     /\ \A j \in 1..(i - 1) : more[j] # more[i]}
           n == Cardinality(I)
           at == InOrder(I)
           t == TryAdd(keys, more)
<1>1. /\ Len(more) \in Nat /\ DOMAIN more = 1..Len(more)
  BY ListFacts
<1>2. I \in SUBSET (DOMAIN more) /\ t = Pick(more, I)
  BY DEF TryAdd
<1>3. \A i, j \in I : more[i] = more[j] => i = j
  <2> SUFFICES ASSUME NEW i \in I, NEW j \in I, more[i] = more[j], i < j
               PROVE  FALSE
    BY <1>1
  <2>1. i \in 1..(j - 1)
    BY <1>1
  <2> QED
    BY <2>1
<1>4. \A x \in ToSet(more) \ keys : \E i \in I : more[i] = x
  <2> SUFFICES ASSUME NEW x \in ToSet(more) \ keys
               PROVE  \E i \in I : more[i] = x
    OBVIOUS
  <2> DEFINE S == {i \in DOMAIN more : more[i] = x}
  <2>1. S \in SUBSET Nat /\ S # {}
    BY <1>1 DEF ToSet
  <2>2. PICK m \in S : \A k \in S : m <= k
    <3> HIDE DEF S
    <3> QED
      BY <2>1, Smallest
  <2>3. \A j \in 1..(m - 1) : j \in DOMAIN more /\ ~ (m <= j)
    BY <1>1
  <2>4. m \in I
    BY <2>2, <2>3
  <2> QED
    BY <2>2, <2>4
<1>5. {more[i] : i \in I} = ToSet(more) \ keys
  BY <1>4 DEF ToSet
<1> HIDE DEF I, t
<1>6. IsList(t) /\ ToSet(t) = {more[i] : i \in I}
  BY <1>2, PickIsList
<1>7. /\ n \in Nat /\ at \in [1..n -> I]
      /\ \A k, l \in 1..n : at[k] = at[l] => k = l
      /\ t = [k \in 1..n |-> more[at[k]]]
  BY <1>2, PickFacts
<1> HIDE DEF n, at
<1>8. NoneTwice(t)
  BY <1>3, <1>7 DEF NoneTwice
<1> QED
  BY <1>5, <1>6, <1>8 DEF t

LEMMA HeapFacts ==
  ASSUME heap \in Heaps
  PROVE  /\ DOMAIN heap = {v \in Values : v.is = "Data"} /\ IsFiniteSet(DOMAIN heap)
         /\ \A d \in DOMAIN heap :
              /\ IsList(heap[d].properties)
              /\ \A i \in DOMAIN heap[d].properties : heap[d].properties[i].value \in Values
  BY HeapsAssumption DEF HeapsAssumption

\* What the values of a list refer to.
AllReferences(s) == FlattenSeq([i \in DOMAIN s |-> ReferencesIn[s[i]]])

LEMMA AllReferencesFacts ==
  ASSUME heap \in Heaps, NEW s, IsList(s), \A i \in DOMAIN s : s[i] \in Values
  PROVE  /\ IsList(AllReferences(s))
         /\ ToSet(AllReferences(s)) = (UNION {Within[s[i]] : i \in DOMAIN s}) \cap DOMAIN heap
<1> DEFINE e == [i \in DOMAIN s |-> ReferencesIn[s[i]]]
           r == FlattenSeq(e)
<1>1. /\ Len(s) \in Nat /\ DOMAIN s = 1..Len(s)
  BY ListFacts
<1>2. e = [i \in 1..Len(s) |-> e[i]] /\ DOMAIN e = DOMAIN s
  BY <1>1
<1>3. \A i \in DOMAIN s : e[i] = ReferencesIn[s[i]]
  OBVIOUS
<1> HIDE DEF e
<1>4. IsList(e)
  BY <1>1, <1>2, FunctionIsList
<1>5. \A i \in DOMAIN s : IsList(e[i]) /\ ToSet(e[i]) = DataIn(s[i])
  BY <1>3, ReferencesFacts
<1>6. IsList(r) /\ ToSet(r) = UNION {ToSet(e[i]) : i \in DOMAIN e}
  <2>1. \A i \in DOMAIN e : IsList(e[i])
    BY <1>2, <1>5
  <2> QED
    BY <1>4, <2>1, FlattenFacts
<1>7. UNION {ToSet(e[i]) : i \in DOMAIN e} = UNION {DataIn(s[i]) : i \in DOMAIN s}
  BY <1>2, <1>5
<1>8. UNION {DataIn(s[i]) : i \in DOMAIN s}
        = (UNION {Within[s[i]] : i \in DOMAIN s}) \cap DOMAIN heap
  BY HeapFacts, WithinFacts DEF DataIn
<1> HIDE DEF r
<1>9. IsList(r) /\ ToSet(r) = (UNION {Within[s[i]] : i \in DOMAIN s}) \cap DOMAIN heap
  BY <1>6, <1>7, <1>8
<1> QED
  BY <1>9 DEF e, r, AllReferences

LEMMA ReferencesOfFacts ==
  ASSUME heap \in Heaps, NEW d \in DOMAIN heap
  PROVE  /\ IsList(ReferencesOf(d))
         /\ ToSet(ReferencesOf(d)) = Owned(d) \cap DOMAIN heap
<1> DEFINE ps == heap[d].properties
           s == [i \in DOMAIN ps |-> ps[i].value]
           e == [i \in DOMAIN s |-> ReferencesIn[s[i]]]
           r == AllReferences(s)
<1>1. /\ Len(ps) \in Nat /\ DOMAIN ps = 1..Len(ps)
      /\ \A i \in DOMAIN ps : ps[i].value \in Values
  BY HeapFacts, ListFacts
<1>2. /\ s = [i \in 1..Len(ps) |-> s[i]] /\ DOMAIN s = DOMAIN ps
      /\ \A i \in DOMAIN ps : s[i] = ps[i].value
  BY <1>1
<1>3. e = [i \in DOMAIN ps |-> ReferencesIn[ps[i].value]]
  OBVIOUS
<1>4. ReferencesOf(d) = r
  BY <1>3 DEF ReferencesOf, AllReferences
<1> HIDE DEF s, ps
<1>5. IsList(s) /\ \A i \in DOMAIN s : s[i] \in Values
  BY <1>1, <1>2, FunctionIsList
<1>6. IsList(r) /\ ToSet(r) = (UNION {Within[s[i]] : i \in DOMAIN s}) \cap DOMAIN heap
  BY <1>5, AllReferencesFacts
<1>7. UNION {Within[s[i]] : i \in DOMAIN s} = Owned(d)
  <2>1. Owned(d) = UNION {Within[ps[i].value] : i \in DOMAIN ps}
    BY DEF Owned, ps
  <2>2. {Within[s[i]] : i \in DOMAIN s} = {Within[ps[i].value] : i \in DOMAIN ps}
    BY <1>2
  <2> QED
    BY <2>1, <2>2
<1> HIDE DEF r
<1> QED
  BY <1>4, <1>6, <1>7

LEMMA ReachableFacts ==
  ASSUME NEW roots, roots \subseteq DOMAIN heap
  PROVE  /\ roots \subseteq ReachableData(roots)
         /\ ReachableData(roots) \subseteq DOMAIN heap
         /\ \A d \in ReachableData(roots) :
              Owned(d) \cap DOMAIN heap \subseteq ReachableData(roots)
         /\ \A S \in SUBSET DOMAIN heap :
              (roots \subseteq S /\ \A x \in S : Owned(x) \cap DOMAIN heap \subseteq S)
                => ReachableData(roots) \subseteq S
  BY DEF ReachableData

\* Different elements of a finite set: no more than it has.
LEMMA NoneTwiceFacts ==
  ASSUME NEW s, IsList(s), NoneTwice(s)
  PROVE  IsFiniteSet(ToSet(s)) /\ Cardinality(ToSet(s)) = Len(s)
<1> DEFINE n == Len(s)
           S == ToSet(s)
<1>1. /\ n \in Nat /\ DOMAIN s = 1..n /\ s = [k \in 1..n |-> s[k]]
  BY ListFacts
<1> HIDE DEF n
<1>2. IsFiniteSet(1..n) /\ Cardinality(1..n) = n
  <2>1. 1 \in Int /\ n \in Int
    BY <1>1
  <2>2. IsFiniteSet(1..n) /\ Cardinality(1..n) = IF 1 > n THEN 0 ELSE n - 1 + 1
    BY <2>1, FS_Interval
  <2> QED
    BY <1>1, <2>2
<1>3. s \in [1..n -> S] /\ \A x \in S : \E k \in 1..n : s[k] = x
  BY <1>1 DEF ToSet
<1> HIDE DEF S
<1>4. s \in Surjection(1..n, S)
  BY <1>3 DEF Surjection
<1>5. s \in Injection(1..n, S)
  BY <1>1, <1>3 DEF Injection, IsInjective, NoneTwice
<1>6. s \in Bijection(1..n, S)
  BY <1>4, <1>5 DEF Bijection
<1>7. ExistsBijection(1..n, S)
  BY <1>6 DEF ExistsBijection
<1>8. IsFiniteSet(S) /\ Cardinality(S) = Cardinality(1..n)
  BY <1>2, <1>7, FS_Bijection
<1> QED
  BY <1>2, <1>8 DEF S, n

LEMMA TransferFacts ==
  ASSUME heap \in Heaps, NEW roots, IsList(roots), ToSet(roots) \subseteq DOMAIN heap
  PROVE  /\ IsList(Transfer(roots)) /\ NoneTwice(Transfer(roots))
         /\ ToSet(Transfer(roots)) = ReachableData(ToSet(roots))
         /\ Len(Transfer(roots)) = Cardinality(ReachableData(ToSet(roots)))
<1> DEFINE N == Cardinality(DOMAIN heap)
           F(f, n) == IF n = 0 THEN TryAdd({}, roots)
                      ELSE IF n <= Len(f[n - 1])
                      THEN f[n - 1] \o TryAdd(ToSet(f[n - 1]), ReferencesOf(f[n - 1][n]))
                      ELSE f[n - 1]
           Solves(g, m) == g = [n \in 0..m |-> F(g, n)]
           Q == {n \in 0..N : \E g : Solves(g, n)}
<1>1. N \in Nat
  BY HeapFacts, FS_CardinalityType
<1> HIDE DEF N
<1>2. 0 \in Q
  <2> DEFINE h == [n \in 0..0 |-> TryAdd({}, roots)]
  <2>1. \A n \in 0..0 : n = 0
    OBVIOUS
  <2>2. \A n \in 0..0 : F(h, n) = TryAdd({}, roots)
    BY <2>1
  <2> HIDE DEF F
  <2>3. Solves(h, 0)
    BY <2>2
  <2> HIDE DEF h, Solves
  <2> QED
    BY <1>1, <2>3
<1>3. ASSUME NEW n \in 1..N, n - 1 \in Q
      PROVE  n \in Q
  <2>1. PICK g : Solves(g, n - 1)
    BY <1>3
  <2> DEFINE h == [i \in 0..n |-> F(g, i)]
  <2>2. \A i \in 0..(n - 1) : h[i] = g[i]
    <3> HIDE DEF F
    <3>1. \A i \in 0..(n - 1) : i \in 0..n
      BY <1>1
    <3> QED
      BY <2>1, <3>1
  <2> HIDE DEF h
  <2>3. ASSUME NEW i \in 0..n
        PROVE  F(h, i) = F(g, i)
    <3>1. i = 0 \/ i - 1 \in 0..(n - 1)
      BY <1>1
    <3> QED
      BY <2>2, <3>1
  <2> HIDE DEF F
  <2>4. Solves(h, n)
    BY <2>3 DEF h
  <2> QED
    BY <1>1, <2>4
<1>4. N \in Q
  <2>1. N \in 0..N
    BY <1>1
  <2> HIDE DEF Q
  <2> QED
    BY <1>1, <1>2, <1>3, <2>1, Induct
<1>5. PICK g : Solves(g, N)
  BY <1>4
<1> DEFINE added == CHOOSE f : Solves(f, N)
<1>6. Transfer(roots) = added[N]
  BY DEF Transfer, N
<1>7. Solves(added, N)
  BY <1>5
<1> HIDE DEF added
<1>8. \A n \in 0..N : added[n] = F(added, n)
  BY <1>7
<1> DEFINE Reached == ReachableData(ToSet(roots))
           Refers(d) == ToSet(ReferencesOf(d))
           R == {n \in 0..N :
                   /\ IsList(added[n]) /\ NoneTwice(added[n])
                   /\ ToSet(added[n]) \subseteq Reached
                   /\ ToSet(roots) \subseteq ToSet(added[n])
                   /\ \A i \in 1..n : i <= Len(added[n]) =>
                        Refers(added[n][i]) \subseteq ToSet(added[n])}
<1>9. /\ Reached \subseteq DOMAIN heap /\ ToSet(roots) \subseteq Reached
      /\ \A d \in Reached : IsList(ReferencesOf(d)) /\ Refers(d) \subseteq Reached
  BY ReachableFacts, ReferencesOfFacts
<1>10. 0 \in R
  <2> DEFINE t == TryAdd({}, roots)
  <2>1. added[0] = t
    BY <1>1, <1>8
  <2>2. IsList(t) /\ NoneTwice(t) /\ ToSet(t) = ToSet(roots)
    BY TryAddFacts
  <2> HIDE DEF t, Reached, Refers
  <2>3. \A i \in 1..0 : FALSE
    OBVIOUS
  <2> QED
    BY <1>1, <1>9, <2>1, <2>2, <2>3
<1> HIDE DEF Reached
<1>11. ASSUME NEW n \in 1..N, n - 1 \in R
       PROVE  n \in R
  <2> DEFINE a == added[n - 1]
             t == TryAdd(ToSet(a), ReferencesOf(a[n]))
             b == a \o t
  <2>1. /\ IsList(a) /\ NoneTwice(a) /\ ToSet(a) \subseteq Reached
        /\ ToSet(roots) \subseteq ToSet(a)
        /\ \A i \in 1..(n - 1) : i <= Len(a) => Refers(a[i]) \subseteq ToSet(a)
    BY <1>11
  <2>2. added[n] = IF n <= Len(a) THEN b ELSE a
    BY <1>1, <1>8
  <2>3. Len(a) \in Nat /\ DOMAIN a = 1..Len(a)
    BY <2>1, ListFacts
  <2>4. n \in 0..N /\ n \in Nat
    BY <1>1
  <2> HIDE DEF a
  <2>5. CASE n <= Len(a)
    <3>1. n \in DOMAIN a
      BY <2>3, <2>4, <2>5
    <3>2. a[n] \in Reached
      BY <2>1, <3>1 DEF ToSet
    <3>3. IsList(t) /\ NoneTwice(t) /\ ToSet(t) = Refers(a[n]) \ ToSet(a)
      BY <1>9, <3>2, TryAddFacts
    <3>4. Refers(a[n]) \subseteq Reached
      BY <1>9, <3>2
    <3> HIDE DEF t, Refers
    <3>5. Len(t) \in Nat /\ DOMAIN t = 1..Len(t)
      BY <3>3, ListFacts
    <3>6. /\ IsList(b) /\ ToSet(b) = ToSet(a) \cup ToSet(t)
          /\ Len(b) = Len(a) + Len(t)
          /\ \A i \in 1..(Len(a) + Len(t)) :
               b[i] = IF i <= Len(a) THEN a[i] ELSE t[i - Len(a)]
      BY <2>1, <3>3, ConcatIsList
    <3> HIDE DEF b
    <3>7. DOMAIN b = 1..(Len(a) + Len(t))
      BY <3>6, ListFacts
    <3>8. NoneTwice(b)
      BY <2>1, <3>3, ConcatNoneTwice DEF b
    <3>9. ASSUME NEW i \in 1..n
          PROVE  Refers(b[i]) \subseteq ToSet(b)
      <4>1. b[i] = a[i] /\ i <= Len(a)
        BY <2>3, <2>4, <2>5, <3>5, <3>6
      <4>2. i \in 1..(n - 1) \/ i = n
        BY <2>4
      <4>3. Refers(a[i]) \subseteq ToSet(a) \cup ToSet(t)
        BY <2>1, <3>3, <4>1, <4>2
      <4> QED
        BY <3>6, <4>1, <4>3
    <3>10. added[n] = b
      BY <2>2, <2>5
    <3> QED
      BY <2>1, <2>4, <3>3, <3>4, <3>6, <3>8, <3>9, <3>10
  <2>6. CASE ~ (n <= Len(a))
    <3>1. added[n] = a
      BY <2>2, <2>6
    <3>2. \A i \in 1..n : i <= Len(a) => i \in 1..(n - 1)
      BY <2>3, <2>4, <2>6
    <3> HIDE DEF Refers
    <3> QED
      BY <2>1, <2>4, <3>1, <3>2
  <2> QED
    BY <2>5, <2>6
<1>12. N \in R
  <2>1. N \in 0..N
    BY <1>1
  <2> HIDE DEF R
  <2> QED
    BY <1>1, <1>10, <1>11, <2>1, Induct
<1> DEFINE all == added[N]
<1>13. /\ IsList(all) /\ NoneTwice(all)
       /\ ToSet(all) \subseteq Reached
       /\ ToSet(roots) \subseteq ToSet(all)
       /\ \A i \in 1..N : i <= Len(all) => Refers(all[i]) \subseteq ToSet(all)
  BY <1>12
<1> HIDE DEF all, Refers
<1>14. Len(all) \in Nat /\ DOMAIN all = 1..Len(all)
  BY <1>13, ListFacts
<1>15. IsFiniteSet(ToSet(all)) /\ Cardinality(ToSet(all)) = Len(all)
  BY <1>13, NoneTwiceFacts
<1>16. Len(all) <= N
  <2>1. ToSet(all) \in SUBSET DOMAIN heap
    BY <1>9, <1>13
  <2>2. Cardinality(ToSet(all)) <= Cardinality(DOMAIN heap)
    BY <2>1, HeapFacts, FS_Subset
  <2> QED
    BY <1>15, <2>2 DEF N
<1>17. ASSUME NEW d \in ToSet(all)
       PROVE  Owned(d) \cap DOMAIN heap \subseteq ToSet(all)
  <2>1. PICK i \in 1..Len(all) : all[i] = d
    BY <1>14 DEF ToSet
  <2>2. i \in 1..N /\ i <= Len(all)
    BY <1>1, <1>14, <1>16
  <2>3. Refers(d) \subseteq ToSet(all)
    BY <1>13, <2>1, <2>2
  <2>4. d \in DOMAIN heap
    BY <1>9, <1>13
  <2> QED
    BY <2>3, <2>4, ReferencesOfFacts DEF Refers
<1>18. Reached \subseteq ToSet(all)
  BY <1>9, <1>13, <1>17, ReachableFacts DEF Reached
<1>19. ToSet(all) = Reached
  BY <1>13, <1>18
<1> QED
  BY <1>6, <1>13, <1>15, <1>19 DEF all, Reached

-----------------------------------------------------------------------------
(* Tables: what is written is what is read.                                *)

LEMMA ReadCreate ==
  ASSUME NEW schema, NEW given, NEW f \in DOMAIN given,
         f # "value" \/ given[f] # NegativeZero \/ schema.fields[f] # 0
  PROVE  Read(schema, Create(schema, given), f) = given[f]
<1> DEFINE D == {g \in DOMAIN given : ~IsDefault(schema, g, given[g])}
           t == Create(schema, given)
<1>1. DOMAIN t = D /\ \A g \in D : t[g] = given[g]
  BY DEF Create
<1>2. f \in D <=> given[f] # schema.fields[f]
  BY DEF IsDefault
<1> HIDE DEF t, D
<1> QED
  BY <1>1, <1>2 DEF Read, t

LEMMA ReadAbsent ==
  ASSUME NEW schema, NEW given, NEW f, f \notin DOMAIN given
  PROVE  Read(schema, Create(schema, given), f) = schema.fields[f]
<1>1. f \notin DOMAIN Create(schema, given)
  BY DEF Create
<1> QED
  BY <1>1 DEF Read

LEMMA ReadNegativeZero ==
  ASSUME NEW schema, NEW given, "value" \in DOMAIN given, given["value"] = NegativeZero,
         schema.fields["value"] = 0
  PROVE  Read(schema, Create(schema, given), "value") = 0
<1>1. "value" \notin DOMAIN Create(schema, given)
  BY DEF Create, IsDefault
<1> QED
  BY <1>1 DEF Read

LEMMA ReadRequest ==
  ASSUME NEW w, NEW kind, NEW inner
  PROVE  LET t == CreateRequest(w, kind, inner)
         IN  /\ Read(UserRequestProto, t, "workerId") = w.id
             /\ Read(UserRequestProto, t, "workerVersion") = w.version
             /\ Read(UserRequestProto, t, "request")
                  = Create(UserRequestUnionProto[kind], inner)
<1> DEFINE given == [protocolVersion |-> RIVER_PROTOCOL_VERSION, logContext |-> "log",
                     workerId |-> w.id, workerVersion |-> w.version, requestType |-> kind,
                     request |-> Create(UserRequestUnionProto[kind], inner)]
<1>1. /\ "workerId" \in DOMAIN given /\ given["workerId"] = w.id
      /\ "workerVersion" \in DOMAIN given /\ given["workerVersion"] = w.version
      /\ "request" \in DOMAIN given
      /\ given["request"] = Create(UserRequestUnionProto[kind], inner)
  OBVIOUS
<1>2. CreateRequest(w, kind, inner) = Create(UserRequestProto, given)
  BY DEF CreateRequest
<1> HIDE DEF given
<1> QED
  BY <1>1, <1>2, ReadCreate

LEMMA ReadInboundDelta ==
  ASSUME heap \in Heaps, NEW d \in DOMAIN heap
  PROVE  LET t == CreateInboundDataDelta(d)
         IN  /\ Read(InboundDataDeltaProto, t, "classId") = d.classId
             /\ Read(InboundDataDeltaProto, t, "primaryKey") = d.primaryKey
             /\ Read(InboundDataDeltaProto, t, "objectVersion") = heap[d].version
             /\ Len(Read(InboundDataDeltaProto, t, "properties")) = Len(heap[d].properties)
<1> DEFINE ps == heap[d].properties
           qs == [i \in DOMAIN ps |->
                    Create(NestedPropertyProto,
                      [name |-> ps[i].name, valueBytes |-> SerializeValue[ps[i].value]])]
           given == [classId |-> d.classId, objectVersion |-> heap[d].version,
                     primaryKey |-> d.primaryKey, properties |-> qs,
                     deletedProperties |-> <<>>]
<1>1. IsList(ps)
  BY HeapFacts
<1> HIDE DEF ps
<1>2. Len(ps) \in Nat /\ DOMAIN ps = 1..Len(ps)
  BY <1>1, ListFacts
<1>3. qs = [i \in 1..Len(ps) |-> qs[i]]
  BY <1>2
<1>4. CreateInboundDataDelta(d) = Create(InboundDataDeltaProto, given)
  BY DEF CreateInboundDataDelta, ps
<1> HIDE DEF qs
<1>5. Len(qs) = Len(ps)
  BY <1>2, <1>3, FunctionIsList
<1>6. /\ "classId" \in DOMAIN given /\ given["classId"] = d.classId
      /\ "primaryKey" \in DOMAIN given /\ given["primaryKey"] = d.primaryKey
      /\ "objectVersion" \in DOMAIN given /\ given["objectVersion"] = heap[d].version
      /\ "properties" \in DOMAIN given /\ given["properties"] = qs
  OBVIOUS
<1> HIDE DEF given
<1> QED
  BY <1>4, <1>5, <1>6, ReadCreate DEF ps

-----------------------------------------------------------------------------
(* Calls that send Data.                                                   *)

LEMMA SeqIsList ==
  ASSUME NEW S, NEW s \in Seq(S)
  PROVE  IsList(s) /\ \A i \in DOMAIN s : s[i] \in S
<1>1. Len(s) \in Nat /\ s \in [1..Len(s) -> S]
  BY LenProperties
<1>2. s = [k \in 1..Len(s) |-> s[k]]
  BY <1>1
<1> QED
  BY <1>1, <1>2, FunctionIsList

\* The Data that a call begins with.
Roots(c) == IF c.op = "SaveData" THEN c.data ELSE Referenced(c)

LEMMA RootsFacts ==
  ASSUME heap \in Heaps, NEW c \in Calls, Transfers(c)
  PROVE  /\ IsList(Roots(c)) /\ ToSet(Roots(c)) = RootsOf(c) /\ RootsOf(c) \subseteq DOMAIN heap
<1>1. CASE c.op = "SaveData"
  <2>1. c.data \in Seq({v \in Values : v.is = "Data"})
    BY <1>1, CallsAssumption DEF CallsAssumption
  <2>2. IsList(c.data) /\ \A i \in DOMAIN c.data : c.data[i] \in DOMAIN heap
    BY <2>1, SeqIsList, HeapFacts
  <2> QED
    BY <1>1, <2>2 DEF Roots, RootsOf, ToSet
<1>2. CASE c.op = "CallServiceMethod"
  <2> DEFINE s == c.args
  <2>1. s \in Seq(Values)
    BY <1>2, CallsAssumption DEF CallsAssumption
  <2>2. Referenced(c) = AllReferences(s)
    BY DEF Referenced, AllReferences
  <2>3. Asked(c) = UNION {Within[s[i]] : i \in DOMAIN s}
    BY DEF Asked
  <2> HIDE DEF s
  <2>4. IsList(s) /\ \A i \in DOMAIN s : s[i] \in Values
    BY <2>1, SeqIsList
  <2>5. /\ IsList(AllReferences(s))
        /\ ToSet(AllReferences(s)) = (UNION {Within[s[i]] : i \in DOMAIN s}) \cap DOMAIN heap
    BY <2>4, AllReferencesFacts
  <2> QED
    BY <1>2, <2>2, <2>3, <2>5 DEF Roots, RootsOf
<1> QED
  BY <1>1, <1>2 DEF Transfers

\* Why a call that sends Data must not be sent: only Data can be of a wrong worker, a
\* Service of any worker may be sent.
Cause(c) ==
    LET all == ReachableData(RootsOf(c))
        worker == IF c.op = "SaveData" THEN c.data[1].worker ELSE c.source.worker
    IN  \/ \E d \in all : d.worker # worker
        \/ \E d \in all : \E v \in Owned(d) : ~Supported(v)
        \/ c.op = "CallServiceMethod" /\ \E v \in Asked(c) : ~Supported(v)
        \/ c.op = "SaveData" /\ ~IsInjective(c.data)

LEMMA TransferableFacts ==
  ASSUME heap \in Heaps, NEW worker, NEW roots, IsList(roots), ToSet(roots) \subseteq DOMAIN heap
  PROVE  Transferable(worker, roots) <=>
           \A d \in ReachableData(ToSet(roots)) :
             d.worker = worker /\ \A v \in Owned(d) : Supported(v)
<1> DEFINE all == ReachableData(ToSet(roots))
<1>1. ToSet(Transfer(roots)) = all /\ all \subseteq DOMAIN heap
  BY TransferFacts, ReachableFacts
<1> HIDE DEF all
<1>2. ASSUME NEW d \in all
      PROVE  (\A i \in DOMAIN heap[d].properties : Serializable[heap[d].properties[i].value])
               <=> (\A v \in Owned(d) : Supported(v))
  <2> DEFINE ps == heap[d].properties
  <2>1. \A i \in DOMAIN ps : ps[i].value \in Values
    BY <1>1, HeapFacts
  <2>2. \A v : v \in Owned(d) <=> \E i \in DOMAIN ps : v \in Within[ps[i].value]
    BY DEF Owned
  <2> HIDE DEF ps
  <2>3. (\A i \in DOMAIN ps : Serializable[ps[i].value]) <=> (\A v \in Owned(d) : Supported(v))
    BY <2>1, <2>2, SerializableFacts
  <2> QED
    BY <2>3 DEF ps
<1> QED
  BY <1>1, <1>2 DEF Transferable, all

LEMMA RefusedFacts ==
  ASSUME heap \in Heaps, NEW c \in Calls, Transfers(c)
  PROVE  Refused(c) <=> Cause(c)
<1> DEFINE roots == Roots(c)
           all == ReachableData(RootsOf(c))
<1>1. IsList(roots) /\ ToSet(roots) = RootsOf(c) /\ RootsOf(c) \subseteq DOMAIN heap
  BY RootsFacts
<1>2. \A worker : Transferable(worker, roots) <=>
        \A d \in all : d.worker = worker /\ \A v \in Owned(d) : Supported(v)
  BY <1>1, TransferableFacts
<1>3. RootsOf(c) \subseteq all
  BY <1>1, ReachableFacts
<1> HIDE DEF all
<1>4. CASE c.op = "SaveData"
  <2>1. c.data \in Seq({v \in Values : v.is = "Data"}) /\ c.data # <<>>
    BY <1>4, CallsAssumption DEF CallsAssumption
  <2>2. 1 \in DOMAIN c.data
    <3> DEFINE s == c.data
               S == {v \in Values : v.is = "Data"}
    <3>1. s \in Seq(S) /\ s # <<>>
      BY <2>1
    <3> HIDE DEF s, S
    <3>2. Len(s) \in Nat /\ DOMAIN s = 1..Len(s) /\ Len(s) # 0
      BY <3>1, LenProperties, EmptySeq
    <3>3. 1 \in DOMAIN s
      BY <3>2
    <3> QED
      BY <3>3 DEF s
  <2>3. \A i \in DOMAIN c.data : c.data[i] \in all
    BY <1>1, <1>3, <1>4 DEF Roots, ToSet
  <2>4. roots = c.data
    BY <1>4 DEF Roots
  <2>5. Refused(c) <=> ~OneWorker(c.data) \/ ~Transferable(c.data[1].worker, roots)
    BY <1>4, <2>4 DEF Refused
  <2> QED
    BY <1>2, <1>4, <2>3, <2>5 DEF Cause, OneWorker, all
<1>5. CASE c.op = "CallServiceMethod"
  <2>1. c.args \in Seq(Values)
    BY <1>5, CallsAssumption DEF CallsAssumption
  <2>2. \A i \in DOMAIN c.args : c.args[i] \in Values
    BY <2>1, SeqIsList
  <2>3. \A v : v \in Asked(c) <=> \E i \in DOMAIN c.args : v \in Within[c.args[i]]
    BY DEF Asked
  <2>4. (\A i \in DOMAIN c.args : Serializable[c.args[i]]) <=> \A v \in Asked(c) : Supported(v)
    BY <2>2, <2>3, SerializableFacts
  <2>5. Refused(c) <=> \/ \E i \in DOMAIN c.args : ~Serializable[c.args[i]]
                       \/ ~Transferable(c.source.worker, roots)
    BY <1>5 DEF Refused, Roots
  <2> QED
    BY <1>2, <1>5, <2>4, <2>5 DEF Cause, all
<1> QED
  BY <1>4, <1>5 DEF Transfers

\* What a request takes along.
Deltas(c, w) ==
    LET request == Read(UserRequestProto, w, "request")
    IN  IF c.op = "SaveData" THEN Read(SaveDataRequestProto, request, "dataDeltas")
        ELSE Read(CallServiceMethodRequestProto, request, "referencedDataDeltas")

WorkerOf(w) == [id |-> Read(UserRequestProto, w, "workerId"),
                version |-> Read(UserRequestProto, w, "workerVersion")]
KeyOf(w, t) == [is |-> "Data", worker |-> WorkerOf(w),
                classId |-> Read(InboundDataDeltaProto, t, "classId"),
                primaryKey |-> Read(InboundDataDeltaProto, t, "primaryKey")]

LEMMA DeltasFacts ==
  ASSUME heap \in Heaps, NEW c \in Calls, Transfers(c)
  PROVE  LET worker == IF c.op = "SaveData" THEN c.data[1].worker ELSE c.source.worker
         IN  /\ Deltas(c, RequestFor(c)) = InboundDeltas(Roots(c))
             /\ WorkerOf(RequestFor(c)) = [id |-> worker.id, version |-> worker.version]
<1>1. CASE c.op = "SaveData"
  <2> DEFINE inner == [dataDeltas |-> InboundDeltas(c.data)]
             w == CreateRequest(c.data[1].worker, "SaveDataRequestProto", inner)
  <2>1. RequestFor(c) = w
    BY <1>1 DEF RequestFor, CreateSaveDataRequest
  <2>2. UserRequestUnionProto["SaveDataRequestProto"] = SaveDataRequestProto
    BY DEF UserRequestUnionProto
  <2>3. "dataDeltas" \in DOMAIN inner /\ inner["dataDeltas"] = InboundDeltas(c.data)
    OBVIOUS
  <2> HIDE DEF inner
  <2>4. Read(UserRequestProto, w, "request") = Create(SaveDataRequestProto, inner)
    BY <2>2, ReadRequest
  <2>5. Read(SaveDataRequestProto, Create(SaveDataRequestProto, inner), "dataDeltas")
          = InboundDeltas(c.data)
    BY <2>3, ReadCreate
  <2>6. /\ Read(UserRequestProto, w, "workerId") = c.data[1].worker.id
        /\ Read(UserRequestProto, w, "workerVersion") = c.data[1].worker.version
    BY ReadRequest
  <2> HIDE DEF w
  <2> QED
    BY <1>1, <2>1, <2>4, <2>5, <2>6 DEF Deltas, WorkerOf, Roots
<1>2. CASE c.op = "CallServiceMethod"
  <2> DEFINE inner == [classId |-> c.source.classId, primaryKey |-> c.source.primaryKey,
                       methodId |-> c.methodId,
                       arguments |-> [i \in DOMAIN c.args |-> SerializeValue[c.args[i]]],
                       referencedDataDeltas |-> InboundDeltas(Referenced(c))]
             w == CreateRequest(c.source.worker, "CallServiceMethodRequestProto", inner)
  <2>1. RequestFor(c) = w
    BY <1>2 DEF RequestFor, CreateCallServiceMethodRequest
  <2>2. UserRequestUnionProto["CallServiceMethodRequestProto"] = CallServiceMethodRequestProto
    BY DEF UserRequestUnionProto
  <2>3. /\ "referencedDataDeltas" \in DOMAIN inner
        /\ inner["referencedDataDeltas"] = InboundDeltas(Referenced(c))
    OBVIOUS
  <2> HIDE DEF inner
  <2>4. Read(UserRequestProto, w, "request") = Create(CallServiceMethodRequestProto, inner)
    BY <2>2, ReadRequest
  <2>5. Read(CallServiceMethodRequestProto, Create(CallServiceMethodRequestProto, inner),
             "referencedDataDeltas") = InboundDeltas(Referenced(c))
    BY <2>3, ReadCreate
  <2>6. /\ Read(UserRequestProto, w, "workerId") = c.source.worker.id
        /\ Read(UserRequestProto, w, "workerVersion") = c.source.worker.version
    BY ReadRequest
  <2> HIDE DEF w
  <2> QED
    BY <1>2, <2>1, <2>4, <2>5, <2>6 DEF Deltas, WorkerOf, Roots
<1> QED
  BY <1>1, <1>2 DEF Transfers

LEMMA DeltasComplete ==
  ASSUME heap \in Heaps, NEW c \in Calls, Transfers(c), ~Refused(c)
  PROVE  LET w == RequestFor(c)
             deltas == Deltas(c, w)
             all == ReachableData(RootsOf(c))
         IN  /\ {KeyOf(w, deltas[i]) : i \in DOMAIN deltas} = all
             /\ Len(deltas) = Cardinality(all)
             /\ \A i \in DOMAIN deltas :
                  LET d == heap[KeyOf(w, deltas[i])]
                  IN  /\ Read(InboundDataDeltaProto, deltas[i], "objectVersion") = d.version
                      /\ Len(Read(InboundDataDeltaProto, deltas[i], "properties"))
                           = Len(d.properties)
<1> DEFINE w == RequestFor(c)
           deltas == Deltas(c, w)
           all == ReachableData(RootsOf(c))
           roots == Roots(c)
           queue == Transfer(roots)
           worker == IF c.op = "SaveData" THEN c.data[1].worker ELSE c.source.worker
<1>1. IsList(roots) /\ ToSet(roots) = RootsOf(c) /\ RootsOf(c) \subseteq DOMAIN heap
  BY RootsFacts
<1>2. IsList(queue) /\ ToSet(queue) = all /\ Len(queue) = Cardinality(all)
  <2>1. ToSet(roots) \subseteq DOMAIN heap
    BY <1>1
  <2>2. /\ IsList(Transfer(roots)) /\ ToSet(Transfer(roots)) = ReachableData(ToSet(roots))
        /\ Len(Transfer(roots)) = Cardinality(ReachableData(ToSet(roots)))
    BY <1>1, <2>1, TransferFacts
  <2> QED
    BY <1>1, <2>2
<1>3. all \subseteq DOMAIN heap /\ RootsOf(c) \subseteq all
  BY <1>1, ReachableFacts
<1>4. \A d \in all : d.worker = worker
  BY RefusedFacts DEF Cause
<1>5. deltas = InboundDeltas(roots) /\ WorkerOf(w) = [id |-> worker.id, version |-> worker.version]
  BY DeltasFacts
<1>6. deltas = [i \in DOMAIN queue |-> CreateInboundDataDelta(queue[i])]
  BY <1>5 DEF InboundDeltas
<1> HIDE DEF deltas, w, queue, worker, all
<1>7. Len(queue) \in Nat /\ DOMAIN queue = 1..Len(queue)
  BY <1>2, ListFacts
<1>8. deltas = [i \in 1..Len(queue) |-> deltas[i]] /\ DOMAIN deltas = DOMAIN queue
  BY <1>6, <1>7
<1>9. Len(deltas) = Len(queue)
  BY <1>7, <1>8, FunctionIsList
<1>10. ASSUME NEW i \in DOMAIN queue
       PROVE  /\ queue[i] \in all /\ KeyOf(w, deltas[i]) = queue[i]
              /\ Read(InboundDataDeltaProto, deltas[i], "objectVersion") = heap[queue[i]].version
              /\ Len(Read(InboundDataDeltaProto, deltas[i], "properties"))
                   = Len(heap[queue[i]].properties)
  <2> DEFINE d == queue[i]
             t == deltas[i]
  <2>1. d \in all
    BY <1>2 DEF ToSet
  <2>2. d \in DOMAIN heap /\ d.worker = worker
    BY <1>3, <1>4, <2>1
  <2>3. t = CreateInboundDataDelta(d)
    BY <1>6
  <2> HIDE DEF d, t
  <2>4. /\ Read(InboundDataDeltaProto, t, "classId") = d.classId
        /\ Read(InboundDataDeltaProto, t, "primaryKey") = d.primaryKey
        /\ Read(InboundDataDeltaProto, t, "objectVersion") = heap[d].version
        /\ Len(Read(InboundDataDeltaProto, t, "properties")) = Len(heap[d].properties)
    BY <2>2, <2>3, ReadInboundDelta
  <2>5. d \in Values /\ d.is = "Data"
    BY <2>2, HeapFacts
  <2>6. IsValue(d)
    BY <2>5, ValueFacts
  <2>7. /\ d = [is |-> d.is, worker |-> d.worker, classId |-> d.classId,
                primaryKey |-> d.primaryKey]
        /\ d.worker = [id |-> d.worker.id, version |-> d.worker.version]
    BY <2>5, <2>6 DEF IsValue
  <2>8. WorkerOf(w) = d.worker
    BY <1>5, <2>2, <2>7
  <2>9. KeyOf(w, t) = d
    BY <2>4, <2>5, <2>7, <2>8 DEF KeyOf
  <2> QED
    BY <2>1, <2>4, <2>9 DEF d, t
<1>11. {KeyOf(w, deltas[i]) : i \in DOMAIN deltas} = all
  BY <1>2, <1>8, <1>10 DEF ToSet
<1>12. \A i \in DOMAIN deltas :
         /\ Read(InboundDataDeltaProto, deltas[i], "objectVersion")
              = heap[KeyOf(w, deltas[i])].version
         /\ Len(Read(InboundDataDeltaProto, deltas[i], "properties"))
              = Len(heap[KeyOf(w, deltas[i])].properties)
  BY <1>8, <1>10
<1> QED
  BY <1>2, <1>9, <1>11, <1>12 DEF deltas, w, all

-----------------------------------------------------------------------------
(* What the client, the wire and the worker have, from step to step.       *)

LEMMA SameHeap ==
  ASSUME heap' = heap, NEW c
  PROVE  /\ Refused(c)' <=> Refused(c)
         /\ RequestFor(c)' = RequestFor(c)
<1>1. Refused(c)' <=> Refused(c)
  BY DEF Refused, Transferable, Transfer, ReferencesOf
<1>2. RequestFor(c)' = RequestFor(c)
  BY DEF RequestFor, CreateCallServiceMethodRequest, CreateSaveDataRequest, InboundDeltas,
         CreateInboundDataDelta, Transfer, ReferencesOf
<1> QED
  BY <1>1, <1>2

\* What the worker can mean by its answer to a call.
Meant(c) ==
    IF c.op = "CallServiceMethod" /\ c.args # <<>> THEN {Returned(c)} ELSE Says

AskedOf == call \in Calls /\ ~Refused(call)

\* Inductive: a call is on the wire only if nothing speaks against it, and what the
\* client made of an answer or a message is what it reads from what was written.
Told ==
    /\ heap \in Heaps
    /\ pc \in {"idle", "sent", "answered", "pushed", "done"}
    /\ pc = "idle" => call = Null /\ said = Null /\ outcome = Null
    /\ pc = "sent" => /\ AskedOf /\ said = Null /\ outcome = Null
                      /\ wire = RequestFor(call)
    /\ pc = "answered" => /\ AskedOf /\ said \in Meant(call)
                          /\ wire = WrittenResponse(said)
    /\ pc = "pushed" => call = Null /\ said \in Pushes /\ wire = WrittenPush(said)
    /\ pc = "done" =>
         \/ call \in Calls /\ Refused(call) /\ said = Null /\ outcome = Throws
         \/ /\ AskedOf /\ said \in Meant(call)
            /\ outcome = ReadResponse(call.op, WrittenResponse(said))
         \/ call = Null /\ said \in Pushes /\ outcome = ReadPush(WrittenPush(said))

\* Every step of the client, the wire and the worker keeps Told: nothing that speaks against
\* a call is on the wire, and what the client has it has read from what was written.
THEOREM ToldHolds == Spec => []Told
<1>1. Init => Told
  BY DEF Init, Told
<1>2. Told /\ [Next]_vars => Told'
  <2> SUFFICES ASSUME Told, [Next]_vars PROVE Told'
    OBVIOUS
  <2>1. ASSUME NEW c \in Calls, Ask(c) PROVE Told'
    <3>1. heap' = heap /\ heap \in Heaps /\ pc = "idle" /\ said = Null /\ outcome = Null
      BY <2>1 DEF Told, Ask
    <3>2. (Refused(c)' <=> Refused(c)) /\ RequestFor(c)' = RequestFor(c)
      BY <3>1, SameHeap
    <3>3. CASE Refused(c)
      <4>1. /\ heap' = heap /\ call' = c /\ said' = said /\ outcome' = Throws /\ pc' = "done"
        BY <2>1, <3>3 DEF Ask
      <4>2. Refused(call)'
        BY <3>2, <3>3, <4>1
      <4> QED
        BY <3>1, <4>1, <4>2 DEF Told
    <3>4. CASE ~Refused(c)
      <4>1. /\ heap' = heap /\ call' = c /\ said' = said /\ outcome' = outcome /\ pc' = "sent"
            /\ wire' = RequestFor(c)
        BY <2>1, <3>4 DEF Ask
      <4>2. ~Refused(call)' /\ wire' = RequestFor(call)'
        BY <3>2, <3>4, <4>1
      <4> QED
        BY <3>1, <4>1, <4>2 DEF Told, AskedOf
    <3> QED
      BY <3>3, <3>4
  <2>2. ASSUME NEW s \in Answers, Answer(s) PROVE Told'
    <3>1. /\ heap' = heap /\ call' = call /\ said' = s /\ wire' = WrittenResponse(s)
          /\ pc = "sent" /\ pc' = "answered"
      BY <2>2 DEF Answer
    <3>2. heap \in Heaps /\ call \in Calls /\ ~Refused(call)
      BY <3>1 DEF Told, AskedOf
    <3>3. s \in Meant(call)
      BY <3>2, NullAssumption DEF Answers, Meant, NullAssumption
    <3>4. ~Refused(call)'
      <4>1. Refused(call)' <=> Refused(call)
        BY <3>1, SameHeap DEF Refused, Transferable, Transfer, ReferencesOf
      <4> QED
        BY <3>2, <4>1
    <3> QED
      BY <3>1, <3>2, <3>3, <3>4 DEF Told, AskedOf
  <2>3. ASSUME Receive PROVE Told'
    <3>1. /\ heap' = heap /\ call' = call /\ said' = said /\ outcome' = ReadResponse(call.op, wire)
          /\ pc = "answered" /\ pc' = "done"
      BY <2>3 DEF Receive
    <3>2. /\ heap \in Heaps /\ call \in Calls /\ ~Refused(call) /\ said \in Meant(call)
          /\ wire = WrittenResponse(said)
      BY <3>1 DEF Told, AskedOf
    <3>3. ~Refused(call)'
      <4>1. Refused(call)' <=> Refused(call)
        BY <3>1 DEF Refused, Transferable, Transfer, ReferencesOf
      <4> QED
        BY <3>2, <4>1
    <3>4. outcome' = ReadResponse(call'.op, WrittenResponse(said'))
      BY <3>1, <3>2
    <3> QED
      BY <3>1, <3>2, <3>3, <3>4 DEF Told, AskedOf
  <2>4. ASSUME NEW p \in Pushes, Push(p) PROVE Told'
    BY <2>4 DEF Told, Push
  <2>5. ASSUME ReceivePush PROVE Told'
    <3>1. /\ heap' = heap /\ call' = call /\ said' = said /\ outcome' = ReadPush(wire)
          /\ pc = "pushed" /\ pc' = "done"
      BY <2>5 DEF ReceivePush
    <3>2. heap \in Heaps /\ call = Null /\ said \in Pushes /\ wire = WrittenPush(said)
      BY <3>1 DEF Told
    <3>3. outcome' = ReadPush(WrittenPush(said'))
      BY <3>1, <3>2
    <3> QED
      BY <3>1, <3>2, <3>3 DEF Told
  <2>6. ASSUME UNCHANGED vars PROVE Told'
    <3>1. /\ heap' = heap /\ call' = call /\ said' = said /\ outcome' = outcome /\ pc' = pc
          /\ wire' = wire
      BY <2>6 DEF vars
    <3>2. Refused(call)' <=> Refused(call)
      BY <3>1 DEF Refused, Transferable, Transfer, ReferencesOf
    <3>3. RequestFor(call)' = RequestFor(call)
      BY <3>1 DEF RequestFor, CreateCallServiceMethodRequest, CreateSaveDataRequest,
             InboundDeltas, CreateInboundDataDelta, Transfer, ReferencesOf
    <3>4. AskedOf' <=> AskedOf
      BY <3>1, <3>2 DEF AskedOf
    <3> QED
      BY <3>1, <3>2, <3>3, <3>4 DEF Told
  <2> QED
    BY <2>1, <2>2, <2>3, <2>4, <2>5, <2>6 DEF Next
<1> QED
  BY <1>1, <1>2, PTL DEF Spec

\* A request takes along every Data that its own Data refer to, each once, with the
\* version and the properties of the client, however they refer to each other
\* (DataTransferQueue).
THEOREM TransferCompleteHolds == Spec => []TransferComplete
<1>1. Told => TransferComplete
  <2> SUFFICES ASSUME Told, pc = "sent", Transfers(call)
               PROVE  TransferComplete
    BY DEF TransferComplete
  <2>1. heap \in Heaps /\ call \in Calls /\ ~Refused(call) /\ wire = RequestFor(call)
    BY DEF Told, AskedOf
  <2> QED
    BY <2>1, DeltasComplete DEF TransferComplete, Deltas, KeyOf, WorkerOf
<1> QED
  BY <1>1, ToldHolds, PTL

\* A call throws before anything is sent exactly when a value in it or in a Data that it
\* reaches is not supported, one of those Data is of another worker, or a Data is saved
\* twice; never for a Service of another worker (serde.ts:118, 148-163, 225-231).
THEOREM RefusedForCauseHolds == Spec => []RefusedForCause
<1>1. Told => RefusedForCause
  <2> SUFFICES ASSUME Told, pc \in {"sent", "done"}, call # Null, Transfers(call)
               PROVE  (outcome = Throws /\ said = Null) <=> Cause(call)
    BY DEF RefusedForCause, Cause
  <2>1. Null # Throws /\ \A c \in Calls : c # Null /\ \A m \in Meant(c) : m # Null
    BY NullAssumption DEF NullAssumption, Meant
  <2>2. heap \in Heaps /\ call \in Calls
    BY DEF Told, AskedOf
  <2>3. (outcome = Throws /\ said = Null) <=> Refused(call)
    BY <2>1, <2>2 DEF Told, AskedOf
  <2> QED
    BY <2>2, <2>3, RefusedFacts
<1> QED
  BY <1>1, ToldHolds, PTL

-----------------------------------------------------------------------------
(* The table of a value.                                                   *)

LEMMA EachOne ==
  ASSUME NEW entries, NEW f, NEW i \in DOMAIN entries, NEW x, entries[i] = <<x>>
  PROVE  Each(entries, f)[i] = <<f[x]>>
<1> DEFINE s == <<x>>
           r == [j \in DOMAIN s |-> f[s[j]]]
<1>1. Each(entries, f)[i] = r
  BY DEF Each
<1>2. DOMAIN s = {1} /\ s[1] = x
  OBVIOUS
<1> HIDE DEF s
<1>3. r = [j \in {1} |-> f[x]]
  BY <1>2
<1>4. [j \in {1} |-> f[x]] = <<f[x]>>
  OBVIOUS
<1> QED
  BY <1>1, <1>3, <1>4

LEMMA EachTwo ==
  ASSUME NEW entries, NEW f, NEW i \in DOMAIN entries, NEW x, NEW y, entries[i] = <<x, y>>
  PROVE  Each(entries, f)[i] = <<f[x], f[y]>>
<1> DEFINE s == <<x, y>>
           r == [j \in DOMAIN s |-> f[s[j]]]
<1>1. Each(entries, f)[i] = r
  BY DEF Each
<1>2. DOMAIN s = {1, 2} /\ s[1] = x /\ s[2] = y
  OBVIOUS
<1> HIDE DEF s
<1>3. DOMAIN r = {1, 2} /\ r[1] = f[x] /\ r[2] = f[y] /\ r = [j \in {1, 2} |-> r[j]]
  BY <1>2
<1> HIDE DEF r
<1>4. r = <<r[1], r[2]>>
  BY <1>3
<1> QED
  BY <1>1, <1>3, <1>4 DEF r

LEMMA ValueProtoFacts ==
  /\ ValueProto.fields["value"] # 0 /\ ValueProto.fields["valueType"] = "NONE"
  /\ PropertyProto.fields["value"] # 0 /\ ArrayItemValueProto.fields["value"] # 0
  /\ MapValueItemProto.fields["value"] # 0
  BY NullAssumption DEF ValueProto, PropertyProto, ArrayItemValueProto, MapValueItemProto,
                        Table, NullAssumption

LEMMA TableFacts ==
  ASSUME NEW v \in Values
  PROVE  LET t == SerializeValue[v]
             type == GetValueType(v)
         IN  /\ TypeOf(t) = type
             /\ InnerOf(t) = Create(ValueUnionProto[type],
                                    Contents(v, Each(Entries(v), SerializeValue)))
<1> DEFINE t == SerializeValue[v]
           type == GetValueType(v)
           inner == Create(ValueUnionProto[type], Contents(v, Each(Entries(v), SerializeValue)))
           given == [valueType |-> type, value |-> inner]
<1>1. t = Create(ValueProto, given)
  BY SerializeValueIs DEF ValueTable
<1> HIDE DEF type, inner
<1>2. /\ "valueType" \in DOMAIN given /\ given["valueType"] = type
      /\ "value" \in DOMAIN given /\ given["value"] = inner
  OBVIOUS
<1> HIDE DEF given, t
<1>3. Read(ValueProto, t, "valueType") = type
  BY <1>1, <1>2, ReadCreate
<1>4. Read(ValueProto, t, "value") = inner
  BY <1>1, <1>2, ReadCreate, ValueProtoFacts
<1> QED
  BY <1>3, <1>4 DEF TypeOf, InnerOf, t, type, inner

\* The entries of a container's table.
LEMMA SetTable ==
  ASSUME NEW v \in Values, v.is = "Set"
  PROVE  LET t == SerializeValue[v]
             inside == Each(Entries(v), SerializeValue)
         IN  /\ TypeOf(t) = "SetValueProto" /\ TablesIn(t) = inside
             /\ DOMAIN inside = DOMAIN v.items /\ DOMAIN EntriesOf(t) = DOMAIN inside
<1> DEFINE t == SerializeValue[v]
           inside == Each(Entries(v), SerializeValue)
           entries == [i \in DOMAIN inside |-> inside[i][1]]
           given == [items |-> entries]
<1>1. Unboxed(v) = v /\ GetValueType(v) = "SetValueProto"
      /\ ValueUnionProto["SetValueProto"] = SetValueProto
  BY DEF Unboxed, GetValueType, ValueTypes, ValueUnionProto
<1>2. Contents(v, inside) = given
  BY <1>1 DEF Contents
<1>3. TypeOf(t) = "SetValueProto" /\ InnerOf(t) = Create(SetValueProto, given)
  BY <1>1, <1>2, TableFacts
<1>4. "items" \in DOMAIN given /\ given["items"] = entries
  OBVIOUS
<1>5. Entries(v) = [i \in DOMAIN v.items |-> <<v.items[i]>>]
  BY DEF Entries
<1>6. DOMAIN inside = DOMAIN v.items /\ inside = [i \in DOMAIN inside |-> inside[i]]
  BY <1>5 DEF Each
<1>7. \A i \in DOMAIN inside : inside[i] = <<SerializeValue[v.items[i]]>>
  BY <1>5, <1>6, EachOne
<1> HIDE DEF t, inside
<1>8. DOMAIN entries = DOMAIN inside /\ \A i \in DOMAIN inside : entries[i] = inside[i][1]
  OBVIOUS
<1> HIDE DEF entries
<1>9. EntriesOf(t) = entries
  <2> HIDE DEF given
  <2>1. Read(SetValueProto, Create(SetValueProto, given), "items") = entries
    BY <1>4, ReadCreate
  <2> QED
    BY <1>3, <2>1 DEF EntriesOf
<1>10. \A i \in DOMAIN inside : ValuesIn(t, entries[i]) = inside[i]
  <2>1. \A i \in DOMAIN inside : ValuesIn(t, entries[i]) = <<entries[i]>>
    BY <1>3 DEF ValuesIn
  <2> QED
    BY <1>7, <1>8, <2>1
<1>11. TablesIn(t) = inside
  <2>1. TablesIn(t) = [i \in DOMAIN inside |-> ValuesIn(t, entries[i])]
    BY <1>8, <1>9 DEF TablesIn
  <2> QED
    BY <1>6, <1>10, <2>1
<1> QED
  BY <1>3, <1>6, <1>8, <1>9, <1>11 DEF t, inside

LEMMA ArrayTable ==
  ASSUME NEW v \in Values, v.is = "Array"
  PROVE  LET t == SerializeValue[v]
             inside == Each(Entries(v), SerializeValue)
         IN  /\ TypeOf(t) = "ArrayValueProto" /\ TablesIn(t) = inside
             /\ DOMAIN inside = DOMAIN v.items /\ DOMAIN EntriesOf(t) = DOMAIN inside
             /\ \A i \in DOMAIN inside :
                  Read(ArrayItemValueProto, EntriesOf(t)[i], "index") = i - 1
<1> DEFINE t == SerializeValue[v]
           inside == Each(Entries(v), SerializeValue)
           Item(i) == [index |-> i - 1, value |-> inside[i][1]]
           entries == [i \in DOMAIN inside |-> Create(ArrayItemValueProto, Item(i))]
           given == [items |-> entries]
<1>1. Unboxed(v) = v /\ GetValueType(v) = "ArrayValueProto"
      /\ ValueUnionProto["ArrayValueProto"] = ArrayValueProto
  BY DEF Unboxed, GetValueType, ValueTypes, ValueUnionProto
<1>2. Contents(v, inside) = given
  BY <1>1 DEF Contents
<1>3. TypeOf(t) = "ArrayValueProto" /\ InnerOf(t) = Create(ArrayValueProto, given)
  BY <1>1, <1>2, TableFacts
<1>4. "items" \in DOMAIN given /\ given["items"] = entries
  OBVIOUS
<1>5. Entries(v) = [i \in DOMAIN v.items |-> <<v.items[i]>>]
  BY DEF Entries
<1>6. DOMAIN inside = DOMAIN v.items /\ inside = [i \in DOMAIN inside |-> inside[i]]
  BY <1>5 DEF Each
<1>7. \A i \in DOMAIN inside : inside[i] = <<SerializeValue[v.items[i]]>>
  BY <1>5, <1>6, EachOne
<1> HIDE DEF t, inside
<1>8. \A i \in DOMAIN inside :
        /\ "index" \in DOMAIN Item(i) /\ Item(i)["index"] = i - 1
        /\ "value" \in DOMAIN Item(i) /\ Item(i)["value"] = inside[i][1]
  OBVIOUS
<1> HIDE DEF Item
<1>9. /\ DOMAIN entries = DOMAIN inside
      /\ \A i \in DOMAIN inside : entries[i] = Create(ArrayItemValueProto, Item(i))
  OBVIOUS
<1> HIDE DEF entries
<1>10. \A i \in DOMAIN inside :
         /\ Read(ArrayItemValueProto, entries[i], "index") = i - 1
         /\ Read(ArrayItemValueProto, entries[i], "value") = inside[i][1]
  BY <1>8, <1>9, ReadCreate, ValueProtoFacts
<1>11. EntriesOf(t) = entries
  <2> HIDE DEF given
  <2>1. Read(ArrayValueProto, Create(ArrayValueProto, given), "items") = entries
    BY <1>4, ReadCreate
  <2> QED
    BY <1>3, <2>1 DEF EntriesOf
<1>12. \A i \in DOMAIN inside : ValuesIn(t, entries[i]) = inside[i]
  <2>1. \A i \in DOMAIN inside :
          ValuesIn(t, entries[i]) = <<Read(ArrayItemValueProto, entries[i], "value")>>
    BY <1>3 DEF ValuesIn
  <2> QED
    BY <1>7, <1>10, <2>1
<1>13. TablesIn(t) = inside
  <2>1. TablesIn(t) = [i \in DOMAIN inside |-> ValuesIn(t, entries[i])]
    BY <1>9, <1>11 DEF TablesIn
  <2> QED
    BY <1>6, <1>12, <2>1
<1> QED
  BY <1>3, <1>6, <1>9, <1>10, <1>11, <1>13 DEF t, inside

LEMMA MapTable ==
  ASSUME NEW v \in Values, v.is = "Map"
  PROVE  LET t == SerializeValue[v]
             inside == Each(Entries(v), SerializeValue)
         IN  /\ TypeOf(t) = "MapValueProto" /\ TablesIn(t) = inside
             /\ DOMAIN inside = DOMAIN v.items /\ DOMAIN EntriesOf(t) = DOMAIN inside
<1> DEFINE t == SerializeValue[v]
           inside == Each(Entries(v), SerializeValue)
           Item(i) == [key |-> inside[i][1], value |-> inside[i][2]]
           entries == [i \in DOMAIN inside |-> Create(MapValueItemProto, Item(i))]
           given == [items |-> entries]
<1>1. Unboxed(v) = v /\ GetValueType(v) = "MapValueProto"
      /\ ValueUnionProto["MapValueProto"] = MapValueProto
  BY DEF Unboxed, GetValueType, ValueTypes, ValueUnionProto
<1>2. Contents(v, inside) = given
  BY <1>1 DEF Contents
<1>3. TypeOf(t) = "MapValueProto" /\ InnerOf(t) = Create(MapValueProto, given)
  BY <1>1, <1>2, TableFacts
<1>4. "items" \in DOMAIN given /\ given["items"] = entries
  OBVIOUS
<1>5. Entries(v) = [i \in DOMAIN v.items |-> <<v.items[i].key, v.items[i].value>>]
  BY DEF Entries
<1>6. DOMAIN inside = DOMAIN v.items /\ inside = [i \in DOMAIN inside |-> inside[i]]
  BY <1>5 DEF Each
<1>7. \A i \in DOMAIN inside :
        inside[i] = <<SerializeValue[v.items[i].key], SerializeValue[v.items[i].value]>>
  BY <1>5, <1>6, EachTwo
<1> HIDE DEF t, inside
<1>8. \A i \in DOMAIN inside :
        /\ "key" \in DOMAIN Item(i) /\ Item(i)["key"] = inside[i][1]
        /\ "value" \in DOMAIN Item(i) /\ Item(i)["value"] = inside[i][2]
  OBVIOUS
<1> HIDE DEF Item
<1>9. /\ DOMAIN entries = DOMAIN inside
      /\ \A i \in DOMAIN inside : entries[i] = Create(MapValueItemProto, Item(i))
  OBVIOUS
<1> HIDE DEF entries
<1>10. \A i \in DOMAIN inside :
         /\ Read(MapValueItemProto, entries[i], "key") = inside[i][1]
         /\ Read(MapValueItemProto, entries[i], "value") = inside[i][2]
  BY <1>8, <1>9, ReadCreate, ValueProtoFacts
<1>11. EntriesOf(t) = entries
  <2> HIDE DEF given
  <2>1. Read(MapValueProto, Create(MapValueProto, given), "items") = entries
    BY <1>4, ReadCreate
  <2> QED
    BY <1>3, <2>1 DEF EntriesOf
<1>12. \A i \in DOMAIN inside : ValuesIn(t, entries[i]) = inside[i]
  <2>1. \A i \in DOMAIN inside :
          ValuesIn(t, entries[i]) = <<Read(MapValueItemProto, entries[i], "key"),
                                      Read(MapValueItemProto, entries[i], "value")>>
    BY <1>3 DEF ValuesIn
  <2> QED
    BY <1>7, <1>10, <2>1
<1>13. TablesIn(t) = inside
  <2>1. TablesIn(t) = [i \in DOMAIN inside |-> ValuesIn(t, entries[i])]
    BY <1>9, <1>11 DEF TablesIn
  <2> QED
    BY <1>6, <1>12, <2>1
<1> QED
  BY <1>3, <1>6, <1>9, <1>11, <1>13 DEF t, inside

LEMMA ObjectTable ==
  ASSUME NEW v \in Values, v.is = "object"
  PROVE  LET t == SerializeValue[v]
             inside == Each(Entries(v), SerializeValue)
         IN  /\ TypeOf(t) = "ObjectValueProto" /\ TablesIn(t) = inside
             /\ DOMAIN inside = DOMAIN v.properties /\ DOMAIN EntriesOf(t) = DOMAIN inside
             /\ \A i \in DOMAIN inside :
                  Read(PropertyProto, EntriesOf(t)[i], "name") = v.properties[i].name
<1> DEFINE t == SerializeValue[v]
           inside == Each(Entries(v), SerializeValue)
           Item(i) == [name |-> v.properties[i].name, value |-> inside[i][1]]
           entries == [i \in DOMAIN inside |-> Create(PropertyProto, Item(i))]
           given == [properties |-> entries]
<1>1. Unboxed(v) = v /\ GetValueType(v) = "ObjectValueProto"
      /\ ValueUnionProto["ObjectValueProto"] = ObjectValueProto
  BY DEF Unboxed, GetValueType, ValueTypes, ValueUnionProto
<1>2. Contents(v, inside) = given
  BY <1>1 DEF Contents
<1>3. TypeOf(t) = "ObjectValueProto" /\ InnerOf(t) = Create(ObjectValueProto, given)
  BY <1>1, <1>2, TableFacts
<1>4. "properties" \in DOMAIN given /\ given["properties"] = entries
  OBVIOUS
<1>5. Entries(v) = [i \in DOMAIN v.properties |-> <<v.properties[i].value>>]
  BY DEF Entries
<1>6. DOMAIN inside = DOMAIN v.properties /\ inside = [i \in DOMAIN inside |-> inside[i]]
  BY <1>5 DEF Each
<1>7. \A i \in DOMAIN inside : inside[i] = <<SerializeValue[v.properties[i].value]>>
  BY <1>5, <1>6, EachOne
<1> HIDE DEF t, inside
<1>8. \A i \in DOMAIN inside :
        /\ "name" \in DOMAIN Item(i) /\ Item(i)["name"] = v.properties[i].name
        /\ "value" \in DOMAIN Item(i) /\ Item(i)["value"] = inside[i][1]
  OBVIOUS
<1> HIDE DEF Item
<1>9. /\ DOMAIN entries = DOMAIN inside
      /\ \A i \in DOMAIN inside : entries[i] = Create(PropertyProto, Item(i))
  OBVIOUS
<1> HIDE DEF entries
<1>10. \A i \in DOMAIN inside :
         /\ Read(PropertyProto, entries[i], "name") = v.properties[i].name
         /\ Read(PropertyProto, entries[i], "value") = inside[i][1]
  BY <1>8, <1>9, ReadCreate, ValueProtoFacts
<1>11. EntriesOf(t) = entries
  <2> HIDE DEF given
  <2>1. Read(ObjectValueProto, Create(ObjectValueProto, given), "properties") = entries
    BY <1>4, ReadCreate
  <2> QED
    BY <1>3, <2>1 DEF EntriesOf
<1>12. \A i \in DOMAIN inside : ValuesIn(t, entries[i]) = inside[i]
  <2>1. \A i \in DOMAIN inside :
          ValuesIn(t, entries[i]) = <<Read(PropertyProto, entries[i], "value")>>
    BY <1>3 DEF ValuesIn
  <2> QED
    BY <1>7, <1>10, <2>1
<1>13. TablesIn(t) = inside
  <2>1. TablesIn(t) = [i \in DOMAIN inside |-> ValuesIn(t, entries[i])]
    BY <1>9, <1>11 DEF TablesIn
  <2> QED
    BY <1>6, <1>12, <2>1
<1> QED
  BY <1>3, <1>6, <1>9, <1>10, <1>11, <1>13 DEF t, inside

Containers == {"Array", "Set", "Map", "object"}

LEMMA LeafTable ==
  ASSUME NEW v \in Values, v.is \notin Containers
  PROVE  Entries(v) = <<>> /\ (Serializable[v] => EntriesOf(SerializeValue[v]) = <<>>)
<1>1. Entries(v) = <<>>
  BY DEF Entries, Containers
<1>2. ASSUME Serializable[v]
      PROVE  EntriesOf(SerializeValue[v]) = <<>>
  <2> DEFINE t == SerializeValue[v]
  <2>1. Unboxed(v).is \in DOMAIN ValueTypes
    BY <1>2, SerializableIs
  <2>2. Unboxed(v).is \notin Containers
    <3>1. IsValue(v)
      BY ValueFacts
    <3> QED
      BY <3>1 DEF Unboxed, Containers, IsValue, IsPrimitive
  <2>3. ValueTypes[Unboxed(v).is] \notin {"ArrayValueProto", "SetValueProto", "MapValueProto",
                                         "ObjectValueProto"}
    BY <2>1, <2>2 DEF ValueTypes, Containers
  <2>4. TypeOf(t) = ValueTypes[Unboxed(v).is]
    BY TableFacts DEF GetValueType
  <2> QED
    BY <2>3, <2>4 DEF EntriesOf
<1> QED
  BY <1>1, <1>2

\* The tables inside the table of a value are those of the values inside it.
LEMMA TablesInFacts ==
  ASSUME NEW v \in Values, Serializable[v]
  PROVE  /\ TablesIn(SerializeValue[v]) = Each(Entries(v), SerializeValue)
         /\ InEntries(TablesIn(SerializeValue[v])) = {SerializeValue[x] : x \in Inside(v)}
<1>1. TablesIn(SerializeValue[v]) = Each(Entries(v), SerializeValue)
  <2>1. CASE v.is \in Containers
    BY <2>1, SetTable, ArrayTable, MapTable, ObjectTable DEF Containers
  <2>2. CASE v.is \notin Containers
    <3>1. Entries(v) = <<>> /\ EntriesOf(SerializeValue[v]) = <<>> /\ DOMAIN <<>> = {}
      BY <2>2, LeafTable, EmptyList
    <3>2. DOMAIN Entries(v) = {} /\ DOMAIN EntriesOf(SerializeValue[v]) = {}
      BY <3>1
    <3>3. TablesIn(SerializeValue[v]) = [i \in {} |-> 0]
      BY <3>2 DEF TablesIn
    <3>4. Each(Entries(v), SerializeValue) = [i \in {} |-> 0]
      BY <3>2 DEF Each
    <3> QED
      BY <3>3, <3>4
  <2> QED
    BY <2>1, <2>2
<1>2. UNION {ToSet(Each(Entries(v), SerializeValue)[i]) :
               i \in DOMAIN Each(Entries(v), SerializeValue)}
        = {SerializeValue[x] : x \in InEntries(Entries(v))}
  <2> DEFINE e == Entries(v)
             f == Each(e, SerializeValue)
  <2>1. IsList(e) /\ \A i \in DOMAIN e : IsList(e[i])
    BY EntriesFacts
  <2> HIDE DEF e
  <2>2. UNION {ToSet(f[i]) : i \in DOMAIN f} = {SerializeValue[x] : x \in InEntries(e)}
    BY <2>1, EachFacts
  <2> QED
    BY <2>2 DEF e
<1> QED
  BY <1>1, <1>2 DEF InEntries, Inside

-----------------------------------------------------------------------------
(* Reading tables, level by level.                                         *)

TablesBelow(n) == {SerializeValue[v] : v \in {w \in Below(n) : Serializable[w]}}

LEMMA TablesFacts ==
  /\ TablesBelow(0) = {} /\ TablesBelow(Len(Layers)) = Tables
  /\ \A n \in 1..Len(Layers) :
       /\ TablesBelow(n - 1) \subseteq TablesBelow(n)
       /\ \A t \in TablesBelow(n) : InEntries(TablesIn(t)) \subseteq TablesBelow(n - 1)
<1>1. TablesBelow(0) = {}
  BY LayersFacts DEF TablesBelow
<1>2. TablesBelow(Len(Layers)) = Tables
  BY DEF TablesBelow, Tables, Values
<1>3. ASSUME NEW n \in 1..Len(Layers)
      PROVE  TablesBelow(n - 1) \subseteq TablesBelow(n)
  BY LayersFacts DEF TablesBelow
<1>4. ASSUME NEW n \in 1..Len(Layers), NEW v \in Below(n), Serializable[v]
      PROVE  InEntries(TablesIn(SerializeValue[v])) \subseteq TablesBelow(n - 1)
  <2>1. v \in Values
    BY LayersFacts DEF Values, Below
  <2>2. InEntries(TablesIn(SerializeValue[v])) = {SerializeValue[x] : x \in Inside(v)}
    BY <1>4, <2>1, TablesInFacts
  <2>3. Inside(v) \subseteq Below(n - 1) /\ \A x \in Inside(v) : Serializable[x]
    BY <1>4, <2>1, LayersFacts, SerializableIs
  <2> QED
    BY <2>2, <2>3 DEF TablesBelow
<1> QED
  BY <1>1, <1>2, <1>3, <1>4 DEF TablesBelow

LEMMA ReadableIs ==
  \A t \in Tables : Readable[t] = 
    ((TypeOf(t) = "ObjectValueProto" =>
        \A i \in DOMAIN EntriesOf(t) : Read(PropertyProto, EntriesOf(t)[i], "name") # "")
     /\ \A x \in InEntries(TablesIn(t)) : Readable[x])
<1> DEFINE N == Len(Layers)
           F(f, t) == (TypeOf(t) = "ObjectValueProto" =>
                         \A i \in DOMAIN EntriesOf(t) :
                           Read(PropertyProto, EntriesOf(t)[i], "name") # "")
                      /\ \A x \in InEntries(TablesIn(t)) : f[x]
           Solves(g, n) == g = [t \in TablesBelow(n) |-> F(g, t)]
           Q == {n \in 0..N : \E g : Solves(g, n)}
<1>1. N \in Nat
  BY LayersFacts
<1>2. 0 \in Q
  <2> DEFINE none == [t \in {} |-> 0]
  <2>1. Solves(none, 0)
    BY TablesFacts
  <2> HIDE DEF none, Solves
  <2> QED
    BY <1>1, <2>1
<1>3. ASSUME NEW n \in 1..N, n - 1 \in Q
      PROVE  n \in Q
  <2>1. PICK g : Solves(g, n - 1)
    BY <1>3
  <2> DEFINE h == [t \in TablesBelow(n) |-> F(g, t)]
  <2>2. \A x \in TablesBelow(n - 1) : h[x] = g[x]
    <3>1. TablesBelow(n - 1) \subseteq TablesBelow(n)
      BY <1>1, TablesFacts
    <3> HIDE DEF F
    <3> QED
      BY <2>1, <3>1
  <2> HIDE DEF h
  <2>3. ASSUME NEW t \in TablesBelow(n)
        PROVE  F(h, t) = F(g, t)
    <3>1. \A x \in InEntries(TablesIn(t)) : h[x] = g[x]
      BY <1>1, <2>2, TablesFacts
    <3> QED
      BY <3>1
  <2> HIDE DEF F
  <2>4. Solves(h, n)
    BY <2>3 DEF h
  <2> QED
    BY <1>1, <2>4
<1>4. N \in Q
  <2>1. N \in 0..N
    BY <1>1
  <2> HIDE DEF Q
  <2> QED
    BY <1>1, <1>2, <1>3, <2>1, Induct
<1>5. PICK g : g = [t \in Tables |-> F(g, t)]
  <2>1. TablesBelow(N) = Tables
    BY TablesFacts
  <2> HIDE DEF F
  <2> QED
    BY <1>4, <2>1 DEF Q
<1>6. Readable = CHOOSE f : f = [t \in Tables |-> F(f, t)]
  BY DEF Readable
<1> HIDE DEF F
<1>7. Readable = [t \in Tables |-> F(Readable, t)]
  BY <1>5, <1>6
<1>8. \A t \in Tables : Readable[t] = F(Readable, t)
  BY <1>7
<1> QED
  BY <1>8 DEF F

LEMMA DeserializeValueIs ==
  \A t \in Tables : DeserializeValue[t] = ValueOf(t, Each(TablesIn(t), DeserializeValue))
<1> DEFINE N == Len(Layers)
           F(f, t) == ValueOf(t, Each(TablesIn(t), f))
           Solves(g, n) == g = [t \in TablesBelow(n) |-> F(g, t)]
           Q == {n \in 0..N : \E g : Solves(g, n)}
<1>1. N \in Nat
  BY LayersFacts
<1>2. 0 \in Q
  <2> DEFINE none == [t \in {} |-> 0]
  <2>1. Solves(none, 0)
    BY TablesFacts
  <2> HIDE DEF none, Solves
  <2> QED
    BY <1>1, <2>1
<1>3. ASSUME NEW n \in 1..N, n - 1 \in Q
      PROVE  n \in Q
  <2>1. PICK g : Solves(g, n - 1)
    BY <1>3
  <2> DEFINE h == [t \in TablesBelow(n) |-> F(g, t)]
  <2>2. \A x \in TablesBelow(n - 1) : h[x] = g[x]
    <3>1. TablesBelow(n - 1) \subseteq TablesBelow(n)
      BY <1>1, TablesFacts
    <3> HIDE DEF F
    <3> QED
      BY <2>1, <3>1
  <2> HIDE DEF h
  <2>3. ASSUME NEW t \in TablesBelow(n)
        PROVE  F(h, t) = F(g, t)
    <3>1. \A x \in InEntries(TablesIn(t)) : h[x] = g[x]
      BY <1>1, <2>2, TablesFacts
    <3>2. Each(TablesIn(t), h) = Each(TablesIn(t), g)
      BY <3>1, EachSame
    <3> QED
      BY <3>2
  <2> HIDE DEF F
  <2>4. Solves(h, n)
    BY <2>3 DEF h
  <2> QED
    BY <1>1, <2>4
<1>4. N \in Q
  <2>1. N \in 0..N
    BY <1>1
  <2> HIDE DEF Q
  <2> QED
    BY <1>1, <1>2, <1>3, <2>1, Induct
<1>5. PICK g : g = [t \in Tables |-> F(g, t)]
  <2>1. TablesBelow(N) = Tables
    BY TablesFacts
  <2> HIDE DEF F
  <2> QED
    BY <1>4, <2>1 DEF Q
<1>6. DeserializeValue = CHOOSE f : f = [t \in Tables |-> F(f, t)]
  BY DEF DeserializeValue
<1> HIDE DEF F
<1>7. DeserializeValue = [t \in Tables |-> F(DeserializeValue, t)]
  BY <1>5, <1>6
<1>8. \A t \in Tables : DeserializeValue[t] = F(DeserializeValue, t)
  BY <1>7
<1> QED
  BY <1>8 DEF F

LEMMA PreservedIs ==
  \A p \in (Values \X Results) : Preserved[p] = 
    Resembles(p[1], p[2],
              {q \in Inside(p[1]) \X (Inside(p[2]) \cap Results) : Preserved[q]})
<1> DEFINE N == Len(Layers)
           F(f, p) == Resembles(p[1], p[2],
                               {q \in Inside(p[1]) \X (Inside(p[2]) \cap Results) : f[q]})
           Solves(g, n) == g = [p \in (Below(n) \X Results) |-> F(g, p)]
           Q == {n \in 0..N : \E g : Solves(g, n)}
<1>1. N \in Nat
  BY LayersFacts
<1>2. 0 \in Q
  <2> DEFINE none == [p \in {} |-> 0]
  <2>1. Solves(none, 0)
    BY LayersFacts
  <2> HIDE DEF none, Solves
  <2> QED
    BY <1>1, <2>1
<1>3. ASSUME NEW n \in 1..N, n - 1 \in Q
      PROVE  n \in Q
  <2>1. PICK g : Solves(g, n - 1)
    BY <1>3
  <2> DEFINE h == [p \in (Below(n) \X Results) |-> F(g, p)]
  <2>2. \A x \in (Below(n - 1) \X Results) : h[x] = g[x]
    <3>1. (Below(n - 1) \X Results) \subseteq (Below(n) \X Results)
      BY <1>1, LayersFacts
    <3> HIDE DEF F
    <3> QED
      BY <2>1, <3>1
  <2> HIDE DEF h
  <2>3. ASSUME NEW p \in (Below(n) \X Results)
        PROVE  F(h, p) = F(g, p)
    <3>1. \A q \in Inside(p[1]) \X (Inside(p[2]) \cap Results) : h[q] = g[q]
      BY <1>1, <2>2, LayersFacts
    <3>2. {q \in Inside(p[1]) \X (Inside(p[2]) \cap Results) : h[q]}
            = {q \in Inside(p[1]) \X (Inside(p[2]) \cap Results) : g[q]}
      BY <3>1
    <3> QED
      BY <3>2
  <2> HIDE DEF F
  <2>4. Solves(h, n)
    BY <2>3 DEF h
  <2> QED
    BY <1>1, <2>4
<1>4. N \in Q
  <2>1. N \in 0..N
    BY <1>1
  <2> HIDE DEF Q
  <2> QED
    BY <1>1, <1>2, <1>3, <2>1, Induct
<1>5. PICK g : g = [p \in (Values \X Results) |-> F(g, p)]
  <2>1. (Below(N) \X Results) = (Values \X Results)
    BY LayersFacts DEF Values
  <2> HIDE DEF F
  <2> QED
    BY <1>4, <2>1 DEF Q
<1>6. Preserved = CHOOSE f : f = [p \in (Values \X Results) |-> F(f, p)]
  BY DEF Preserved
<1> HIDE DEF F
<1>7. Preserved = [p \in (Values \X Results) |-> F(Preserved, p)]
  BY <1>5, <1>6
<1>8. \A p \in (Values \X Results) : Preserved[p] = F(Preserved, p)
  BY <1>7
<1> QED
  BY <1>8 DEF F

-----------------------------------------------------------------------------
(* Orders: references come later, and what was there is not added again.   *)

LEMMA InOrderIsList ==
  ASSUME NEW I, I \subseteq Nat, IsFiniteSet(I)
  PROVE  IsList(InOrder(I)) /\ NoneTwice(InOrder(I)) /\ ToSet(InOrder(I)) = I
<1> DEFINE n == Cardinality(I)
           at == InOrder(I)
<1>1. /\ n \in Nat /\ at \in [1..n -> I] /\ DOMAIN at = 1..n
      /\ \A i \in I : \E k \in 1..n : at[k] = i
      /\ \A k, l \in 1..n : at[k] = at[l] => k = l
  BY InOrderFacts
<1> HIDE DEF n, at
<1>2. at = [k \in 1..n |-> at[k]]
  BY <1>1
<1>3. IsList(at)
  BY <1>1, <1>2, FunctionIsList
<1>4. NoneTwice(at)
  BY <1>1 DEF NoneTwice
<1>5. ToSet(at) = I
  <2>1. \A x : x \in ToSet(at) <=> \E k \in 1..n : at[k] = x
    BY <1>1 DEF ToSet
  <2>2. \A k \in 1..n : at[k] \in I
    BY <1>1
  <2>3. ASSUME NEW x \in ToSet(at) PROVE x \in I
    BY <2>1, <2>2
  <2>4. ASSUME NEW x \in I PROVE x \in ToSet(at)
    <3>1. PICK k \in 1..n : at[k] = x
      BY <1>1
    <3> QED
      BY <2>1, <3>1
  <2> QED
    BY <2>3, <2>4
<1> QED
  BY <1>3, <1>4, <1>5 DEF at

\* Every position comes exactly once.
LEMMA PostponedFacts ==
  ASSUME NEW n \in Nat, NEW late \in SUBSET (1..n)
  PROVE  LET at == Postponed(1..n, late)
         IN  /\ IsList(at) /\ NoneTwice(at) /\ ToSet(at) = 1..n
             /\ Len(at) = n /\ DOMAIN at = 1..n
<1> DEFINE a == InOrder(1..n \ late)
           b == InOrder(late)
           at == a \o b
<1>1. IsFiniteSet(1..n) /\ Cardinality(1..n) = n
  <2>1. 1 \in Int /\ n \in Int
    OBVIOUS
  <2>2. IsFiniteSet(1..n) /\ Cardinality(1..n) = IF 1 > n THEN 0 ELSE n - 1 + 1
    BY <2>1, FS_Interval
  <2> QED
    BY <2>2
<1>2. /\ late \subseteq Nat /\ (1..n \ late) \subseteq Nat
      /\ late \in SUBSET (1..n) /\ (1..n \ late) \in SUBSET (1..n)
  OBVIOUS
<1>3. IsFiniteSet(late) /\ IsFiniteSet(1..n \ late)
  BY <1>1, <1>2, FS_Subset
<1>4. IsList(a) /\ NoneTwice(a) /\ ToSet(a) = 1..n \ late
  BY <1>2, <1>3, InOrderIsList
<1>5. IsList(b) /\ NoneTwice(b) /\ ToSet(b) = late
  BY <1>2, <1>3, InOrderIsList
<1>6. Postponed(1..n, late) = at
  BY DEF Postponed
<1> HIDE DEF a, b
<1>7. IsList(at) /\ ToSet(at) = ToSet(a) \cup ToSet(b)
  BY <1>4, <1>5, ConcatIsList
<1>8. ToSet(a) \cap ToSet(b) = {}
  BY <1>4, <1>5
<1>9. NoneTwice(at)
  BY <1>4, <1>5, <1>8, ConcatNoneTwice
<1>10. ToSet(at) = 1..n
  BY <1>2, <1>4, <1>5, <1>7
<1> HIDE DEF at
<1>11. Len(at) = n
  BY <1>1, <1>7, <1>9, <1>10, NoneTwiceFacts
<1>12. DOMAIN at = 1..n
  BY <1>7, <1>11, ListFacts
<1> QED
  BY <1>6, <1>7, <1>9, <1>10, <1>11, <1>12

LEMMA Largest ==
  ASSUME NEW n \in Nat, NEW S \in SUBSET (1..n), S # {}
  PROVE  \E m \in S : \A k \in S : k <= m
<1> DEFINE T == {n - k : k \in S}
<1>1. T \in SUBSET Nat /\ T # {}
  <2>1. \A k \in S : n - k \in Nat
    OBVIOUS
  <2>2. \E k \in S : n - k \in T
    OBVIOUS
  <2>3. T \subseteq Nat
    BY <2>1
  <2> QED
    BY <2>2, <2>3
<1> HIDE DEF T
<1>2. PICK m \in T : \A k \in T : m <= k
  BY <1>1, Smallest
<1>3. PICK l \in S : m = n - l
  BY DEF T
<1>4. \A k \in S : n - k \in T /\ k \in 1..n
  BY DEF T
<1>5. \A k \in S : n - l <= n - k
  BY <1>2, <1>3, <1>4
<1>6. l \in 1..n
  OBVIOUS
<1> QED
  BY <1>4, <1>5, <1>6

\* The first position with a key stands for all of them.
LEMMA FirstFacts ==
  ASSUME NEW n \in Nat, NEW key, NEW i \in 1..n
  PROVE  \E m \in 1..n : key[m] = key[i] /\ \A j \in 1..(m - 1) : ~Same(key[m], key[j])
<1> DEFINE S == {m \in 1..n : key[m] = key[i]}
<1>1. S \in SUBSET Nat /\ S # {}
  OBVIOUS
<1>2. PICK m \in S : \A k \in S : m <= k
  <2> HIDE DEF S
  <2> QED
    BY <1>1, Smallest
<1>3. ASSUME NEW j \in 1..(m - 1) PROVE ~Same(key[m], key[j])
  <2>1. j \in 1..n /\ ~ (m <= j)
    OBVIOUS
  <2>2. key[j] # key[m]
    BY <1>2, <2>1
  <2> QED
    BY <2>2 DEF Same
<1> QED
  BY <1>2, <1>3

LEMMA SetOfFacts ==
  ASSUME NEW s, IsList(s)
  PROVE  IsList(SetOf(s)) /\ ToSet(SetOf(s)) = ToSet(s) /\ Len(SetOf(s)) <= Len(s)
<1> DEFINE I == {i \in DOMAIN s : \A j \in 1..(i - 1) : ~Same(s[i], s[j])}
           n == Len(s)
<1>1. n \in Nat /\ DOMAIN s = 1..n
  BY ListFacts
<1>2. I \in SUBSET (DOMAIN s) /\ SetOf(s) = Pick(s, I)
  BY DEF SetOf
<1>3. \A i \in 1..n : \E m \in I : s[m] = s[i]
  <2> HIDE DEF n
  <2>1. \A i \in 1..n : \E m \in 1..n :
          s[m] = s[i] /\ \A j \in 1..(m - 1) : ~Same(s[m], s[j])
    BY <1>1, FirstFacts
  <2> QED
    BY <1>1, <2>1
<1> HIDE DEF I
<1>4. /\ IsList(Pick(s, I)) /\ Len(Pick(s, I)) = Cardinality(I)
      /\ ToSet(Pick(s, I)) = {s[i] : i \in I}
  BY <1>2, PickIsList
<1>5. {s[i] : i \in I} = ToSet(s)
  BY <1>1, <1>2, <1>3 DEF ToSet
<1>6. Cardinality(I) <= n
  <2> HIDE DEF n
  <2>1. 1 \in Int /\ n \in Int
    BY <1>1
  <2>2. IsFiniteSet(1..n) /\ Cardinality(1..n) = IF 1 > n THEN 0 ELSE n - 1 + 1
    BY <2>1, FS_Interval
  <2>3. Cardinality(1..n) = n
    BY <1>1, <2>2
  <2> QED
    BY <1>1, <1>2, <2>2, <2>3, FS_Subset
<1> QED
  BY <1>2, <1>4, <1>5, <1>6

LEMMA MapOfFacts ==
  ASSUME NEW s, IsList(s)
  PROVE  /\ IsList(MapOf(s)) /\ Len(MapOf(s)) <= Len(s)
         /\ \A i \in DOMAIN s : \E j \in DOMAIN MapOf(s) : MapOf(s)[j].key = s[i].key
         /\ \A j \in DOMAIN MapOf(s) : \E i \in DOMAIN s : MapOf(s)[j] = s[i]
<1> DEFINE I == {i \in DOMAIN s : \A j \in 1..(i - 1) : ~Same(s[i].key, s[j].key)}
           n == Len(s)
           at == InOrder(I)
           c == Cardinality(I)
           Given(k) == {j \in DOMAIN s : j = at[k] \/ Same(s[at[k]].key, s[j].key)}
           r == MapOf(s)
           key == [i \in DOMAIN s |-> s[i].key]
<1>1. n \in Nat /\ DOMAIN s = 1..n
  BY ListFacts
<1>2. r = [k \in DOMAIN at |-> s[CHOOSE j \in Given(k) : \A l \in Given(k) : l <= j]]
  BY DEF MapOf
<1>3. \A i \in 1..n : \E m \in I : s[m].key = s[i].key
  <2>1. \A i \in 1..n : key[i] = s[i].key
    BY <1>1
  <2> HIDE DEF n, key
  <2>2. \A i \in 1..n : \E m \in 1..n :
          key[m] = key[i] /\ \A j \in 1..(m - 1) : ~Same(key[m], key[j])
    BY <1>1, FirstFacts
  <2> SUFFICES ASSUME NEW i \in 1..n
               PROVE  \E m \in I : s[m].key = s[i].key
    OBVIOUS
  <2>3. PICK m \in 1..n : key[m] = key[i] /\ \A j \in 1..(m - 1) : ~Same(key[m], key[j])
    BY <2>2
  <2>4. \A j \in 1..(m - 1) : j \in 1..n
    BY <1>1
  <2>5. \A j \in 1..(m - 1) : ~Same(s[m].key, s[j].key)
    BY <2>1, <2>3, <2>4
  <2> QED
    BY <1>1, <2>1, <2>3, <2>5
<1>4. I \in SUBSET (1..n)
  BY <1>1
<1> HIDE DEF I, r, n
<1>5. IsFiniteSet(1..n) /\ Cardinality(1..n) = n
  <2>1. 1 \in Int /\ n \in Int
    BY <1>1
  <2>2. IsFiniteSet(1..n) /\ Cardinality(1..n) = IF 1 > n THEN 0 ELSE n - 1 + 1
    BY <2>1, FS_Interval
  <2> QED
    BY <1>1, <2>2
<1>6. I \subseteq Nat /\ IsFiniteSet(I) /\ c <= n
  <2>1. IsFiniteSet(I) /\ Cardinality(I) <= Cardinality(1..n)
    BY <1>4, <1>5, FS_Subset
  <2>2. I \subseteq Nat
    BY <1>1, <1>4
  <2> QED
    BY <1>5, <2>1, <2>2
<1>7. /\ c \in Nat /\ at \in [1..c -> I] /\ DOMAIN at = 1..c
      /\ \A i \in I : \E k \in 1..c : at[k] = i
  BY <1>6, InOrderFacts
<1> HIDE DEF at, c
<1>8. r = [k \in 1..c |-> r[k]]
  BY <1>2, <1>7
<1>9. IsList(r) /\ Len(r) = c /\ DOMAIN r = 1..c
  BY <1>7, <1>8, FunctionIsList
<1>10. ASSUME NEW k \in 1..c
       PROVE  \E i \in DOMAIN s : r[k] = s[i] /\ s[i].key = s[at[k]].key
  <2>1. Given(k) \in SUBSET (1..n) /\ at[k] \in Given(k)
    BY <1>1, <1>4, <1>7
  <2> DEFINE G == Given(k)
             last == CHOOSE j \in G : \A l \in G : l <= j
  <2>2. r[k] = s[last]
    BY <1>2, <1>7
  <2>3. \A j \in G : j \in DOMAIN s /\ s[j].key = s[at[k]].key
    BY DEF Same
  <2> HIDE DEF G
  <2>4. G \in SUBSET (1..n) /\ G # {}
    BY <2>1 DEF G
  <2>5. last \in G
    BY <1>1, <2>4, Largest
  <2> QED
    BY <2>2, <2>3, <2>5
<1>11. ASSUME NEW i \in DOMAIN s
       PROVE  \E j \in DOMAIN r : r[j].key = s[i].key
  <2>1. PICK m \in I : s[m].key = s[i].key
    BY <1>1, <1>3
  <2>2. PICK k \in 1..c : at[k] = m
    BY <1>7
  <2>3. r[k].key = s[m].key
    BY <1>10, <2>2
  <2> QED
    BY <1>9, <2>1, <2>3
<1>12. \A j \in DOMAIN r : \E i \in DOMAIN s : r[j] = s[i]
  BY <1>9, <1>10
<1>13. Len(r) <= n
  BY <1>6, <1>9 DEF c
<1> QED
  BY <1>9, <1>11, <1>12, <1>13 DEF r, n

-----------------------------------------------------------------------------
(* What a value becomes on its way.                                        *)

LEMMA NestedFacts ==
  ASSUME NEW w
  PROVE  /\ w.is \in {"Array", "Set"} => \A i \in DOMAIN w.items : w.items[i] \in Inside(w)
         /\ w.is = "Map" => \A i \in DOMAIN w.items :
                              w.items[i].key \in Inside(w) /\ w.items[i].value \in Inside(w)
         /\ w.is = "object" =>
              \A i \in DOMAIN w.properties : w.properties[i].value \in Inside(w)
<1>1. ASSUME w.is \in {"Array", "Set"}, NEW i \in DOMAIN w.items
      PROVE  w.items[i] \in Inside(w)
  <2>1. Entries(w) = [j \in DOMAIN w.items |-> <<w.items[j]>>]
    BY <1>1 DEF Entries
  <2>2. i \in DOMAIN Entries(w) /\ Entries(w)[i] = <<w.items[i]>>
    BY <1>1, <2>1
  <2>3. w.items[i] \in ToSet(Entries(w)[i])
    BY <2>2 DEF ToSet
  <2> QED
    BY <2>2, <2>3 DEF Inside, InEntries
<1>2. ASSUME w.is = "Map", NEW i \in DOMAIN w.items
      PROVE  w.items[i].key \in Inside(w) /\ w.items[i].value \in Inside(w)
  <2>1. Entries(w) = [j \in DOMAIN w.items |-> <<w.items[j].key, w.items[j].value>>]
    BY <1>2 DEF Entries
  <2>2. i \in DOMAIN Entries(w) /\ Entries(w)[i] = <<w.items[i].key, w.items[i].value>>
    BY <1>2, <2>1
  <2>3. w.items[i].key \in ToSet(Entries(w)[i]) /\ w.items[i].value \in ToSet(Entries(w)[i])
    BY <2>2 DEF ToSet
  <2> QED
    BY <2>2, <2>3 DEF Inside, InEntries
<1>3. ASSUME w.is = "object", NEW i \in DOMAIN w.properties
      PROVE  w.properties[i].value \in Inside(w)
  <2>1. Entries(w) = [j \in DOMAIN w.properties |-> <<w.properties[j].value>>]
    BY <1>3 DEF Entries
  <2>2. i \in DOMAIN Entries(w) /\ Entries(w)[i] = <<w.properties[i].value>>
    BY <1>3, <2>1
  <2>3. w.properties[i].value \in ToSet(Entries(w)[i])
    BY <2>2 DEF ToSet
  <2> QED
    BY <2>2, <2>3 DEF Inside, InEntries
<1> QED
  BY <1>1, <1>2, <1>3

LEMMA ArrangedFacts ==
  ASSUME NEW t, NEW n \in Nat, DOMAIN TablesIn(t) = 1..n
  PROVE  LET at == Arranged(t)
         IN  /\ IsList(at) /\ NoneTwice(at) /\ ToSet(at) = 1..n
             /\ Len(at) = n /\ DOMAIN at = 1..n
<1> DEFINE late == Late(TablesIn(t))
<1>1. Arranged(t) = Postponed(1..n, late)
  BY DEF Arranged, TablesIn
<1>2. late \in SUBSET (1..n)
  BY DEF Late
<1> HIDE DEF late
<1> QED
  BY <1>1, <1>2, PostponedFacts

\* The pairs of what is inside v and what that became in w.
Alike(v, w) == {q \in Inside(v) \X (Inside(w) \cap Results) : Preserved[q]}

LEMMA BecomesIs ==
  ASSUME NEW v \in Values, NEW w \in Results
  PROVE  /\ Becomes(v, w) <=> Resembles(v, w, Alike(v, w))
         /\ \A x \in Inside(v), y \in Inside(w) : Becomes(x, y) => <<x, y>> \in Alike(v, w)
<1> DEFINE p == <<v, w>>
<1>1. p \in Values \X Results /\ p[1] = v /\ p[2] = w
  OBVIOUS
<1> HIDE DEF p
<1>2. Preserved[p] = Resembles(v, w, Alike(v, w))
  BY <1>1, PreservedIs DEF Alike
<1>3. \A x \in Inside(v), y \in Inside(w) : Becomes(x, y) => <<x, y>> \in Alike(v, w)
  BY DEF Becomes, Alike
<1> QED
  BY <1>2, <1>3 DEF Becomes, p

LEMMA UnboxedFacts ==
  ASSUME NEW v \in Values
  PROVE  /\ v.is # "boxed" => Unboxed(v) = v
         /\ v.is = "boxed" => IsPrimitive(Unboxed(v))
         /\ v.is \in {"undefined", "null"} => v = [is |-> v.is]
         /\ v.is \in {"boolean", "number", "string"} => IsPrimitive(v)
<1>1. IsValue(v)
  BY ValueFacts
<1> QED
  BY <1>1 DEF IsValue, Unboxed

LEMMA LeafInner ==
  ASSUME NEW v \in Values, NEW type, GetValueType(v) = type, NEW given, NEW schema,
         Contents(v, Each(Entries(v), SerializeValue)) = given,
         ValueUnionProto[type] = schema
  PROVE  LET t == SerializeValue[v]
         IN  /\ TypeOf(t) = type
             /\ InnerOf(t) = Create(schema, given)
  BY TableFacts

LEMMA LeafBecomes ==
  ASSUME NEW v \in Values, Serializable[v], v.is \notin Containers,
         v.is = "Data" => v.worker = Worker, NEW inside, NEW like
  PROVE  Resembles(v, ValueOf(SerializeValue[v], inside), like)
<1> DEFINE t == SerializeValue[v]
           u == Unboxed(v)
           w == ValueOf(t, inside)
<1>1. u.is \in {"undefined", "null", "boolean", "number", "string", "Date", "Data", "Service"}
  <2>1. u.is \in DOMAIN ValueTypes
    BY SerializableIs
  <2>2. u.is \notin Containers
    <3>1. IsValue(v)
      BY ValueFacts
    <3> QED
      BY <3>1 DEF Unboxed, Containers, IsValue, IsPrimitive
  <2> QED
    BY <2>1, <2>2 DEF ValueTypes, Containers
<1>2. v.is = "boxed" => IsPrimitive(u)
  BY UnboxedFacts
<1>3. v.is # "boxed" => u = v
  BY UnboxedFacts
<1>4. CASE u.is = "undefined"
  <2>1. GetValueType(v) = "UndefinedValueProto"
    BY <1>4 DEF GetValueType, ValueTypes, u
  <2>2. TypeOf(t) = "UndefinedValueProto"
    BY <2>1, TableFacts
  <2> HIDE DEF t, u
  <2>3. w = [is |-> "undefined"]
    BY <2>2 DEF ValueOf
  <2>4. u = [is |-> "undefined"]
    BY <1>2, <1>3, <1>4, UnboxedFacts DEF IsPrimitive
  <2> QED
    BY <1>4, <2>3, <2>4 DEF Resembles, u, t
<1>5. CASE u.is = "null"
  <2>1. GetValueType(v) = "NullValueProto"
    BY <1>5 DEF GetValueType, ValueTypes, u
  <2>2. TypeOf(t) = "NullValueProto"
    BY <2>1, TableFacts
  <2> HIDE DEF t, u
  <2>3. w = [is |-> "null"]
    BY <2>2 DEF ValueOf
  <2>4. u = [is |-> "null"]
    BY <1>2, <1>3, <1>5, UnboxedFacts DEF IsPrimitive
  <2> QED
    BY <1>5, <2>3, <2>4 DEF Resembles, u, t
<1>6. CASE u.is = "boolean"
  <2> DEFINE given == [value |-> u.boolean]
  <2>1. /\ GetValueType(v) = "BooleanValueProto"
        /\ ValueUnionProto["BooleanValueProto"] = BooleanValueProto
    BY <1>6 DEF GetValueType, ValueTypes, ValueUnionProto, u
  <2>2. Contents(v, Each(Entries(v), SerializeValue)) = given
    BY <1>6 DEF Contents, u
  <2>3. TypeOf(t) = "BooleanValueProto" /\ InnerOf(t) = Create(BooleanValueProto, given)
    BY <2>1, <2>2, LeafInner
  <2>4. "value" \in DOMAIN given /\ given["value"] = u.boolean
    OBVIOUS
  <2> HIDE DEF given, t, u
  <2>5. w = [is |-> "boolean", boolean |-> Read(ValueUnionProto[TypeOf(t)], InnerOf(t), "value")]
    BY <2>3 DEF ValueOf
  <2>6. u = [is |-> "boolean", boolean |-> u.boolean] /\ u.boolean \in BOOLEAN
    BY <1>2, <1>3, <1>6, UnboxedFacts DEF IsPrimitive
  <2>7. Read(BooleanValueProto, Create(BooleanValueProto, given), "value") = u.boolean
    <3>1. given["value"] # NegativeZero
      BY <2>4, <2>6, NullAssumption DEF NullAssumption
    <3> QED
      BY <2>4, <3>1, ReadCreate
  <2>8. w = [is |-> "boolean", boolean |-> u.boolean]
    BY <2>1, <2>3, <2>5, <2>7
  <2> QED
    BY <1>6, <1>1, <2>6, <2>7, <2>8 DEF Resembles, u, t
<1>7. CASE u.is = "number"
  <2> DEFINE given == [value |-> u.number]
  <2>1. /\ GetValueType(v) = "NumberValueProto"
        /\ ValueUnionProto["NumberValueProto"] = NumberValueProto
    BY <1>7 DEF GetValueType, ValueTypes, ValueUnionProto, u
  <2>2. Contents(v, Each(Entries(v), SerializeValue)) = given
    BY <1>7 DEF Contents, u
  <2>3. TypeOf(t) = "NumberValueProto" /\ InnerOf(t) = Create(NumberValueProto, given)
    BY <2>1, <2>2, LeafInner
  <2>4. "value" \in DOMAIN given /\ given["value"] = u.number
    OBVIOUS
  <2> HIDE DEF given, t, u
  <2>5. w = [is |-> "number", number |-> Read(ValueUnionProto[TypeOf(t)], InnerOf(t), "value")]
    BY <2>3 DEF ValueOf
  <2>6. NumberValueProto.fields["value"] = 0
    BY DEF NumberValueProto, Table
  <2>7. Read(NumberValueProto, Create(NumberValueProto, given), "value")
          = IF u.number = NegativeZero THEN 0 ELSE u.number
    <3>1. CASE u.number = NegativeZero
      BY <2>4, <2>6, <3>1, ReadNegativeZero
    <3>2. CASE u.number # NegativeZero
      BY <2>4, <3>2, ReadCreate
    <3> QED
      BY <3>1, <3>2
  <2>8. w = [is |-> "number", number |-> IF u.number = NegativeZero THEN 0 ELSE u.number]
    BY <2>1, <2>3, <2>5, <2>7
  <2> QED
    BY <1>7, <1>1, <2>6, <2>7, <2>8 DEF Resembles, u, t
<1>8. CASE u.is = "string"
  <2> DEFINE given == [value |-> u.string]
  <2>1. /\ GetValueType(v) = "StringValueProto"
        /\ ValueUnionProto["StringValueProto"] = StringValueProto
    BY <1>8 DEF GetValueType, ValueTypes, ValueUnionProto, u
  <2>2. Contents(v, Each(Entries(v), SerializeValue)) = given
    BY <1>8 DEF Contents, u
  <2>3. TypeOf(t) = "StringValueProto" /\ InnerOf(t) = Create(StringValueProto, given)
    BY <2>1, <2>2, LeafInner
  <2>4. "value" \in DOMAIN given /\ given["value"] = u.string
    OBVIOUS
  <2> HIDE DEF given, t, u
  <2>5. w = [is |-> "string", string |-> Read(ValueUnionProto[TypeOf(t)], InnerOf(t), "value")]
    BY <2>3 DEF ValueOf
  <2>6. u = [is |-> "string", string |-> u.string]
    BY <1>2, <1>3, <1>8, UnboxedFacts DEF IsPrimitive
  <2>7. Read(StringValueProto, Create(StringValueProto, given), "value") = u.string
    <3>1. StringValueProto.fields["value"] # 0
      BY NullAssumption DEF StringValueProto, Table, NullAssumption
    <3> QED
      BY <2>4, <3>1, ReadCreate
  <2>8. w = [is |-> "string", string |-> u.string]
    BY <2>1, <2>3, <2>5, <2>7
  <2> QED
    BY <1>8, <1>1, <2>6, <2>7, <2>8 DEF Resembles, u, t
<1>9. CASE u.is = "Date"
  <2> DEFINE given == [value |-> u.time]
  <2>1. GetValueType(v) = "DateValueProto" /\ ValueUnionProto["DateValueProto"] = DateValueProto
    BY <1>9 DEF GetValueType, ValueTypes, ValueUnionProto, u
  <2>2. Contents(v, Each(Entries(v), SerializeValue)) = given
    BY <1>9 DEF Contents, u
  <2>3. TypeOf(t) = "DateValueProto" /\ InnerOf(t) = Create(DateValueProto, given)
    BY <2>1, <2>2, LeafInner
  <2>4. "value" \in DOMAIN given /\ given["value"] = u.time
    OBVIOUS
  <2> HIDE DEF given, t, u
  <2>5. w = [is |-> "Date", time |-> Read(ValueUnionProto[TypeOf(t)], InnerOf(t), "value")]
    BY <2>3 DEF ValueOf
  <2>6. u = [is |-> "Date", time |-> u.time] /\ u.time # NegativeZero
    BY <1>2, <1>3, <1>9, ValueFacts DEF IsValue, IsPrimitive
  <2>7. Read(DateValueProto, Create(DateValueProto, given), "value") = u.time
    BY <2>4, <2>6, ReadCreate
  <2>8. w = [is |-> "Date", time |-> u.time]
    BY <2>1, <2>3, <2>5, <2>7
  <2> QED
    BY <1>9, <1>1, <2>6, <2>7, <2>8 DEF Resembles, u, t
<1>10. CASE u.is = "Data"
  <2> DEFINE given == Reference(u)
  <2>1. GetValueType(v) = "DataReferenceValueProto"
        /\ ValueUnionProto["DataReferenceValueProto"] = DataReferenceValueProto
    BY <1>10 DEF GetValueType, ValueTypes, ValueUnionProto, u
  <2>2. Contents(v, Each(Entries(v), SerializeValue)) = given
    BY <1>10 DEF Contents, u
  <2>3. /\ TypeOf(t) = "DataReferenceValueProto"
        /\ InnerOf(t) = Create(DataReferenceValueProto, given)
    BY <2>1, <2>2, LeafInner
  <2>4. /\ "classId" \in DOMAIN given /\ given["classId"] = u.classId
        /\ "primaryKey" \in DOMAIN given /\ given["primaryKey"] = u.primaryKey
    BY DEF Reference
  <2>5. u = v /\ u = [is |-> u.is, worker |-> u.worker, classId |-> u.classId,
                      primaryKey |-> u.primaryKey]
    BY <1>2, <1>3, <1>10, ValueFacts DEF IsValue, IsPrimitive
  <2> HIDE DEF given, t, u
  <2>6. w = [is |-> "Data", worker |-> Worker,
             classId |-> Read(ValueUnionProto[TypeOf(t)], InnerOf(t), "classId"),
             primaryKey |-> Read(ValueUnionProto[TypeOf(t)], InnerOf(t), "primaryKey")]
    BY <2>3 DEF ValueOf
  <2>7. /\ Read(DataReferenceValueProto, Create(DataReferenceValueProto, given), "classId")
             = u.classId
        /\ Read(DataReferenceValueProto, Create(DataReferenceValueProto, given), "primaryKey")
             = u.primaryKey
    BY <2>4, ReadCreate
  <2>8. w = [is |-> "Data", worker |-> Worker, classId |-> u.classId,
             primaryKey |-> u.primaryKey]
    BY <2>1, <2>3, <2>6, <2>7
  <2>9. w = u
    BY <1>10, <2>5, <2>8
  <2> QED
    BY <1>10, <2>9 DEF Resembles, u, t
<1>11. CASE u.is = "Service"
  <2> DEFINE given == Reference(u)
  <2>1. GetValueType(v) = "ServiceReferenceValueProto"
        /\ ValueUnionProto["ServiceReferenceValueProto"] = ServiceReferenceValueProto
    BY <1>11 DEF GetValueType, ValueTypes, ValueUnionProto, u
  <2>2. Contents(v, Each(Entries(v), SerializeValue)) = given
    BY <1>11 DEF Contents, u
  <2>3. /\ TypeOf(t) = "ServiceReferenceValueProto"
        /\ InnerOf(t) = Create(ServiceReferenceValueProto, given)
    BY <2>1, <2>2, LeafInner
  <2>4. /\ "classId" \in DOMAIN given /\ given["classId"] = u.classId
        /\ "primaryKey" \in DOMAIN given /\ given["primaryKey"] = u.primaryKey
    BY DEF Reference
  <2>5. u = v /\ u = [is |-> u.is, worker |-> u.worker, classId |-> u.classId,
                      primaryKey |-> u.primaryKey]
    BY <1>2, <1>3, <1>11, ValueFacts DEF IsValue, IsPrimitive
  <2> HIDE DEF given, t, u
  <2>6. w = [is |-> "Service", worker |-> Worker,
             classId |-> Read(ValueUnionProto[TypeOf(t)], InnerOf(t), "classId"),
             primaryKey |-> Read(ValueUnionProto[TypeOf(t)], InnerOf(t), "primaryKey")]
    BY <2>3 DEF ValueOf
  <2>7. /\ Read(ServiceReferenceValueProto, Create(ServiceReferenceValueProto, given), "classId")
             = u.classId
        /\ Read(ServiceReferenceValueProto, Create(ServiceReferenceValueProto, given), "primaryKey")
             = u.primaryKey
    BY <2>4, ReadCreate
  <2>8. w = [is |-> "Service", worker |-> Worker, classId |-> u.classId,
             primaryKey |-> u.primaryKey]
    BY <2>1, <2>3, <2>6, <2>7
  <2>9. w = [u EXCEPT !.worker = Worker]
    BY <1>11, <2>5, <2>8
  <2> QED
    BY <1>11, <2>9 DEF Resembles, u, t
<1> QED
  BY <1>1, <1>4, <1>5, <1>6, <1>7, <1>8, <1>9, <1>10, <1>11

Mean(v) == DeserializeValue[SerializeValue[v]]

LEMMA MeanFacts ==
  ASSUME NEW v \in Values, Serializable[v]
  PROVE  LET t == SerializeValue[v]
             inside == Each(TablesIn(t), DeserializeValue)
         IN  /\ t \in Tables /\ (Readable[t] => Mean(v) \in Results)
             /\ Mean(v) = ValueOf(t, inside)
             /\ DOMAIN TablesIn(t) = DOMAIN Entries(v) /\ DOMAIN inside = DOMAIN Entries(v)
             /\ \A i \in DOMAIN Entries(v) :
                  /\ \A x : Entries(v)[i] = <<x>> => inside[i] = <<Mean(x)>>
                  /\ \A x, y : Entries(v)[i] = <<x, y>> => inside[i] = <<Mean(x), Mean(y)>>
<1> DEFINE t == SerializeValue[v]
           entries == Entries(v)
           tables == Each(entries, SerializeValue)
           inside == Each(tables, DeserializeValue)
<1>1. TablesIn(t) = tables
  BY TablesInFacts
<1>2. t \in Tables /\ (Readable[t] => Mean(v) \in Results)
  BY DEF Tables, Results, Mean
<1>3. Mean(v) = ValueOf(t, inside)
  BY <1>1, <1>2, DeserializeValueIs DEF Mean
<1>4. DOMAIN tables = DOMAIN entries /\ DOMAIN inside = DOMAIN entries
  BY DEF Each
<1> HIDE DEF entries
<1>5. ASSUME NEW i \in DOMAIN entries, NEW x, entries[i] = <<x>>
      PROVE  inside[i] = <<Mean(x)>>
  <2>1. i \in DOMAIN tables /\ tables[i] = <<SerializeValue[x]>>
    BY <1>4, <1>5, EachOne
  <2> HIDE DEF tables
  <2> QED
    BY <2>1, EachOne DEF Mean
<1>6. ASSUME NEW i \in DOMAIN entries, NEW x, NEW y, entries[i] = <<x, y>>
      PROVE  inside[i] = <<Mean(x), Mean(y)>>
  <2>1. i \in DOMAIN tables /\ tables[i] = <<SerializeValue[x], SerializeValue[y]>>
    BY <1>4, <1>6, EachTwo
  <2> HIDE DEF tables
  <2> QED
    BY <2>1, EachTwo DEF Mean
<1> HIDE DEF tables, t
<1> QED
  BY <1>1, <1>2, <1>3, <1>4, <1>5, <1>6 DEF entries, t

LEMMA SetBecomes ==
  ASSUME NEW v \in Values, v.is = "Set", Serializable[v], Readable[SerializeValue[v]],
         \A x \in Inside(v) : Becomes(x, Mean(x))
  PROVE  Becomes(v, Mean(v))
<1> DEFINE t == SerializeValue[v]
           inside == Each(TablesIn(t), DeserializeValue)
           at == Arranged(t)
           items == v.items
           n == Len(items)
           s == [k \in DOMAIN at |-> inside[at[k]][1]]
           w == Mean(v)
<1>1. IsList(items)
  BY ValueFacts DEF IsValue
<1> HIDE DEF items
<1>2. n \in Nat /\ DOMAIN items = 1..n
  BY <1>1, ListFacts
<1>3. Entries(v) = [i \in DOMAIN items |-> <<items[i]>>]
  BY DEF Entries, items
<1>4. DOMAIN TablesIn(t) = 1..n /\ \A i \in 1..n : inside[i] = <<Mean(items[i])>>
  <2>1. DOMAIN Entries(v) = 1..n /\ \A i \in 1..n : Entries(v)[i] = <<items[i]>>
    BY <1>2, <1>3
  <2>2. /\ DOMAIN TablesIn(t) = DOMAIN Entries(v)
        /\ \A i \in DOMAIN Entries(v) : \A x : Entries(v)[i] = <<x>> => inside[i] = <<Mean(x)>>
    BY MeanFacts
  <2> HIDE DEF t, inside, n
  <2> QED
    BY <2>1, <2>2
<1>5. TypeOf(t) = "SetValueProto" /\ w = ValueOf(t, inside) /\ w \in Results
  BY SetTable, MeanFacts
<1> HIDE DEF t, inside, n
<1>6. w = [is |-> "Set", items |-> SetOf(s)]
  BY <1>5 DEF ValueOf
<1>7. IsList(at) /\ ToSet(at) = 1..n /\ Len(at) = n /\ DOMAIN at = 1..n
  BY <1>2, <1>4, ArrangedFacts
<1> HIDE DEF at, w
<1>8. s = [k \in 1..n |-> s[k]] /\ DOMAIN s = 1..n /\ \A k \in 1..n : s[k] = inside[at[k]][1]
  BY <1>7
<1> HIDE DEF s
<1>9. IsList(s) /\ Len(s) = n
  BY <1>2, <1>8, FunctionIsList
<1>10. IsList(SetOf(s)) /\ ToSet(SetOf(s)) = ToSet(s) /\ Len(SetOf(s)) <= n
  BY <1>9, SetOfFacts
<1>11. ASSUME NEW i \in DOMAIN items
       PROVE  \E j \in DOMAIN w.items : <<items[i], w.items[j]>> \in Alike(v, w)
  <2>1. PICK k \in 1..n : at[k] = i
    BY <1>2, <1>7 DEF ToSet
  <2>2. s[k] = Mean(items[i])
    BY <1>2, <1>4, <1>8, <2>1
  <2>3. s[k] \in ToSet(SetOf(s))
    BY <1>8, <1>10 DEF ToSet
  <2>4. PICK j \in DOMAIN w.items : w.items[j] = Mean(items[i])
    BY <1>6, <2>2, <2>3 DEF ToSet
  <2>5. items[i] \in Inside(v) /\ w.items[j] \in Inside(w)
    BY <1>6, NestedFacts DEF items
  <2>6. Becomes(items[i], w.items[j])
    BY <2>4, <2>5
  <2> QED
    BY <1>5, <2>5, <2>6, BecomesIs
<1>12. Len(w.items) <= Len(v.items) /\ w.is = "Set"
  BY <1>6, <1>10 DEF n, items
<1>13. Unboxed(v) = v
  BY UnboxedFacts
<1>14. Resembles(v, w, Alike(v, w))
  BY <1>11, <1>12, <1>13 DEF Resembles, items
<1> QED
  BY <1>5, <1>14, BecomesIs DEF w

LEMMA ArrayBecomes ==
  ASSUME NEW v \in Values, v.is = "Array", Serializable[v], Readable[SerializeValue[v]],
         \A x \in Inside(v) : Becomes(x, Mean(x))
  PROVE  Becomes(v, Mean(v))
<1> DEFINE t == SerializeValue[v]
           inside == Each(TablesIn(t), DeserializeValue)
           entries == EntriesOf(t)
           items == v.items
           n == Len(items)
           Of(i) == CHOOSE k \in DOMAIN entries :
                      Read(ArrayItemValueProto, entries[k], "index") = i - 1
           s == [i \in DOMAIN entries |-> inside[Of(i)][1]]
           w == Mean(v)
<1>1. IsList(items)
  BY ValueFacts DEF IsValue
<1> HIDE DEF items
<1>2. n \in Nat /\ DOMAIN items = 1..n
  BY <1>1, ListFacts
<1>3. Entries(v) = [i \in DOMAIN items |-> <<items[i]>>]
  BY DEF Entries, items
<1>4. DOMAIN TablesIn(t) = 1..n /\ \A i \in 1..n : inside[i] = <<Mean(items[i])>>
  <2>1. DOMAIN Entries(v) = 1..n /\ \A i \in 1..n : Entries(v)[i] = <<items[i]>>
    BY <1>2, <1>3
  <2>2. /\ DOMAIN TablesIn(t) = DOMAIN Entries(v)
        /\ \A i \in DOMAIN Entries(v) : \A x : Entries(v)[i] = <<x>> => inside[i] = <<Mean(x)>>
    BY MeanFacts
  <2> HIDE DEF t, inside, n
  <2> QED
    BY <2>1, <2>2
<1>5. TypeOf(t) = "ArrayValueProto" /\ w = ValueOf(t, inside) /\ w \in Results
  BY ArrayTable, MeanFacts
<1>6. /\ DOMAIN entries = 1..n
      /\ \A i \in 1..n : Read(ArrayItemValueProto, entries[i], "index") = i - 1
  BY <1>2, ArrayTable DEF items
<1> HIDE DEF t, inside, n
<1>7. w = [is |-> "Array", items |-> s]
  BY <1>5 DEF ValueOf
<1> HIDE DEF entries, w
<1>8. \A i \in 1..n : Of(i) = i
  <2> SUFFICES ASSUME NEW i \in 1..n PROVE Of(i) = i
    OBVIOUS
  <2>1. \A k \in DOMAIN entries :
          Read(ArrayItemValueProto, entries[k], "index") = i - 1 <=> k = i
    <3> SUFFICES ASSUME NEW k \in 1..n
                 PROVE  Read(ArrayItemValueProto, entries[k], "index") = i - 1 <=> k = i
      BY <1>6
    <3>1. Read(ArrayItemValueProto, entries[k], "index") = k - 1
      BY <1>6
    <3>2. k \in Nat /\ i \in Nat
      BY <1>2
    <3> QED
      BY <3>1, <3>2
  <2>2. i \in DOMAIN entries
    BY <1>6
  <2> QED
    BY <2>1, <2>2
<1> HIDE DEF Of
<1>9. s = [i \in 1..n |-> s[i]] /\ DOMAIN s = 1..n /\ \A i \in 1..n : s[i] = Mean(items[i])
  BY <1>4, <1>6, <1>8
<1> HIDE DEF s
<1>10. IsList(s) /\ Len(s) = n
  BY <1>2, <1>9, FunctionIsList
<1>11. ASSUME NEW i \in DOMAIN items
       PROVE  <<items[i], w.items[i]>> \in Alike(v, w)
  <2>1. w.items[i] = Mean(items[i]) /\ i \in DOMAIN w.items
    BY <1>2, <1>7, <1>9
  <2>2. items[i] \in Inside(v) /\ w.items[i] \in Inside(w)
    BY <1>7, <2>1, NestedFacts DEF items
  <2>3. Becomes(items[i], w.items[i])
    BY <2>1, <2>2
  <2> QED
    BY <1>5, <2>2, <2>3, BecomesIs
<1>12. Len(w.items) = Len(v.items) /\ w.is = "Array"
  BY <1>7, <1>10 DEF n, items
<1>13. Unboxed(v) = v
  BY UnboxedFacts
<1>14. Resembles(v, w, Alike(v, w))
  BY <1>11, <1>12, <1>13 DEF Resembles, items
<1> QED
  BY <1>5, <1>14, BecomesIs DEF w

LEMMA MapBecomes ==
  ASSUME NEW v \in Values, v.is = "Map", Serializable[v], Readable[SerializeValue[v]],
         \A x \in Inside(v) : Becomes(x, Mean(x))
  PROVE  Becomes(v, Mean(v))
<1> DEFINE t == SerializeValue[v]
           inside == Each(TablesIn(t), DeserializeValue)
           at == Arranged(t)
           items == v.items
           n == Len(items)
           s == [k \in DOMAIN at |-> [key |-> inside[at[k]][1], value |-> inside[at[k]][2]]]
           w == Mean(v)
<1>1. IsList(items)
  BY ValueFacts DEF IsValue
<1> HIDE DEF items
<1>2. n \in Nat /\ DOMAIN items = 1..n
  BY <1>1, ListFacts
<1>3. Entries(v) = [i \in DOMAIN items |-> <<items[i].key, items[i].value>>]
  BY DEF Entries, items
<1>4. /\ DOMAIN TablesIn(t) = 1..n
      /\ \A i \in 1..n : inside[i] = <<Mean(items[i].key), Mean(items[i].value)>>
  <2>1. /\ DOMAIN Entries(v) = 1..n
        /\ \A i \in 1..n : Entries(v)[i] = <<items[i].key, items[i].value>>
    BY <1>2, <1>3
  <2>2. /\ DOMAIN TablesIn(t) = DOMAIN Entries(v)
        /\ \A i \in DOMAIN Entries(v) : \A x, y :
             Entries(v)[i] = <<x, y>> => inside[i] = <<Mean(x), Mean(y)>>
    BY MeanFacts
  <2> HIDE DEF t, inside, n
  <2> QED
    BY <2>1, <2>2
<1>5. TypeOf(t) = "MapValueProto" /\ w = ValueOf(t, inside) /\ w \in Results
  BY MapTable, MeanFacts
<1> HIDE DEF t, inside, n
<1>6. w = [is |-> "Map", items |-> MapOf(s)]
  BY <1>5 DEF ValueOf
<1>7. IsList(at) /\ ToSet(at) = 1..n /\ Len(at) = n /\ DOMAIN at = 1..n
  BY <1>2, <1>4, ArrangedFacts
<1> HIDE DEF at, w
<1>8. /\ s = [k \in 1..n |-> s[k]] /\ DOMAIN s = 1..n
      /\ \A k \in 1..n : s[k].key = inside[at[k]][1] /\ s[k].value = inside[at[k]][2]
  BY <1>7
<1> HIDE DEF s
<1>9. IsList(s) /\ Len(s) = n
  BY <1>2, <1>8, FunctionIsList
<1> DEFINE r == MapOf(s)
<1>10. /\ IsList(r) /\ Len(r) <= n
       /\ \A k \in 1..n : \E j \in DOMAIN r : r[j].key = s[k].key
       /\ \A j \in DOMAIN r : \E k \in 1..n : r[j] = s[k]
  BY <1>8, <1>9, MapOfFacts
<1>11. w.is = "Map" /\ w.items = r
  BY <1>6
<1> HIDE DEF r
<1>12. \A k \in 1..n : /\ at[k] \in DOMAIN items
                       /\ s[k].key = Mean(items[at[k]].key)
                       /\ s[k].value = Mean(items[at[k]].value)
  BY <1>2, <1>4, <1>7, <1>8 DEF ToSet
<1>13. ASSUME NEW i \in DOMAIN items
       PROVE  \E j \in DOMAIN r : <<items[i].key, r[j].key>> \in Alike(v, w)
  <2>1. PICK k \in 1..n : at[k] = i
    BY <1>2, <1>7 DEF ToSet
  <2>2. s[k].key = Mean(items[i].key)
    BY <1>12, <2>1
  <2>3. PICK j \in DOMAIN r : r[j].key = s[k].key
    BY <1>10
  <2>4. items[i].key \in Inside(v) /\ r[j].key \in Inside(w)
    BY <1>11, NestedFacts DEF items
  <2>5. Becomes(items[i].key, r[j].key)
    BY <2>2, <2>3, <2>4
  <2> QED
    BY <1>5, <2>4, <2>5, BecomesIs
<1>14. ASSUME NEW j \in DOMAIN r
       PROVE  \E i \in DOMAIN items : /\ <<items[i].key, r[j].key>> \in Alike(v, w)
                                      /\ <<items[i].value, r[j].value>> \in Alike(v, w)
  <2>1. PICK k \in 1..n : r[j] = s[k]
    BY <1>10
  <2> DEFINE i == at[k]
  <2>2. i \in DOMAIN items /\ r[j].key = Mean(items[i].key) /\ r[j].value = Mean(items[i].value)
    BY <1>12, <2>1
  <2> HIDE DEF i
  <2>3. /\ items[i].key \in Inside(v) /\ r[j].key \in Inside(w)
        /\ items[i].value \in Inside(v) /\ r[j].value \in Inside(w)
    BY <1>11, <2>2, NestedFacts DEF items
  <2>4. Becomes(items[i].key, r[j].key) /\ Becomes(items[i].value, r[j].value)
    BY <2>2, <2>3
  <2> QED
    BY <1>5, <2>2, <2>3, <2>4, BecomesIs
<1>15. Len(r) <= Len(v.items)
  BY <1>10 DEF n, items
<1>16. Unboxed(v) = v
  BY UnboxedFacts
<1>17. Resembles(v, w, Alike(v, w))
  BY <1>11, <1>13, <1>14, <1>15, <1>16 DEF Resembles, items
<1> QED
  BY <1>5, <1>17, BecomesIs DEF w

LEMMA ObjectBecomes ==
  ASSUME NEW v \in Values, v.is = "object", Serializable[v], Readable[SerializeValue[v]],
         \A x \in Inside(v) : Becomes(x, Mean(x))
  PROVE  Becomes(v, Mean(v))
<1> DEFINE t == SerializeValue[v]
           inside == Each(TablesIn(t), DeserializeValue)
           at == Arranged(t)
           entries == EntriesOf(t)
           ps == v.properties
           n == Len(ps)
           s == [k \in DOMAIN at |->
                   [name |-> Read(PropertyProto, entries[at[k]], "name"),
                    value |-> inside[at[k]][1]]]
           w == Mean(v)
<1>1. IsList(ps)
  BY ValueFacts DEF IsValue
<1> HIDE DEF ps
<1>2. n \in Nat /\ DOMAIN ps = 1..n
  BY <1>1, ListFacts
<1>3. Entries(v) = [i \in DOMAIN ps |-> <<ps[i].value>>]
  BY DEF Entries, ps
<1>4. DOMAIN TablesIn(t) = 1..n /\ \A i \in 1..n : inside[i] = <<Mean(ps[i].value)>>
  <2>1. DOMAIN Entries(v) = 1..n /\ \A i \in 1..n : Entries(v)[i] = <<ps[i].value>>
    BY <1>2, <1>3
  <2>2. /\ DOMAIN TablesIn(t) = DOMAIN Entries(v)
        /\ \A i \in DOMAIN Entries(v) : \A x : Entries(v)[i] = <<x>> => inside[i] = <<Mean(x)>>
    BY MeanFacts
  <2> HIDE DEF t, inside, n
  <2> QED
    BY <2>1, <2>2
<1>5. TypeOf(t) = "ObjectValueProto" /\ w = ValueOf(t, inside) /\ w \in Results
  BY ObjectTable, MeanFacts
<1>6. \A i \in 1..n : Read(PropertyProto, entries[i], "name") = ps[i].name
  BY <1>2, ObjectTable DEF ps
<1> HIDE DEF t, inside, n
<1>7. w = [is |-> "object", properties |-> s]
  BY <1>5 DEF ValueOf
<1>8. IsList(at) /\ ToSet(at) = 1..n /\ Len(at) = n /\ DOMAIN at = 1..n
  BY <1>2, <1>4, ArrangedFacts
<1> HIDE DEF at, w, entries
<1>9. /\ s = [k \in 1..n |-> s[k]] /\ DOMAIN s = 1..n
      /\ \A k \in 1..n : /\ s[k].name = Read(PropertyProto, entries[at[k]], "name")
                         /\ s[k].value = inside[at[k]][1]
  BY <1>8
<1> HIDE DEF s
<1>10. IsList(s) /\ Len(s) = n
  BY <1>2, <1>9, FunctionIsList
<1>11. w.is = "object" /\ w.properties = s
  BY <1>7
<1>12. ASSUME NEW i \in DOMAIN ps
       PROVE  \E j \in DOMAIN s : ps[i].name = s[j].name
                                  /\ <<ps[i].value, s[j].value>> \in Alike(v, w)
  <2>1. PICK k \in 1..n : at[k] = i
    BY <1>2, <1>8 DEF ToSet
  <2>2. s[k].name = ps[i].name /\ s[k].value = Mean(ps[i].value) /\ k \in DOMAIN s
    BY <1>2, <1>4, <1>6, <1>9, <2>1
  <2>3. ps[i].value \in Inside(v) /\ s[k].value \in Inside(w)
    BY <1>11, <2>2, NestedFacts DEF ps
  <2>4. Becomes(ps[i].value, s[k].value)
    BY <2>2, <2>3
  <2> QED
    BY <1>5, <2>2, <2>3, <2>4, BecomesIs
<1>13. Len(s) = Len(v.properties)
  BY <1>10 DEF n, ps
<1>14. Unboxed(v) = v
  BY UnboxedFacts
<1>15. Resembles(v, w, Alike(v, w))
  BY <1>11, <1>12, <1>13, <1>14 DEF Resembles, ps
<1> QED
  BY <1>5, <1>15, BecomesIs DEF w

\* A value whose Data are all of the client's own worker.
OwnData(v) == \A w \in Within[v] : w.is = "Data" => w.worker = Worker

\* A value that is written and read becomes what it was.
LEMMA RoundTrip ==
  ASSUME NEW v \in Values, Serializable[v], OwnData(v), Readable[SerializeValue[v]]
  PROVE  Becomes(v, Mean(v))
<1> DEFINE Good(x) == Serializable[x] /\ OwnData(x) /\ Readable[SerializeValue[x]]
           P == {x \in Values : Good(x) => Becomes(x, Mean(x))}
<1>1. ASSUME NEW x \in Values, Inside(x) \subseteq P
      PROVE  x \in P
  <2> SUFFICES ASSUME Good(x) PROVE Becomes(x, Mean(x))
    OBVIOUS
  <2>1. Serializable[x] /\ Readable[SerializeValue[x]] /\ SerializeValue[x] \in Tables
    BY DEF Tables
  <2>2. \A y \in Inside(x) : Serializable[y]
    BY <2>1, SerializableIs
  <2>3. Within[x] = {x} \cup UNION {Within[y] : y \in Inside(x)}
    BY WithinIs
  <2>4. \A y \in Inside(x) : OwnData(y)
    BY <2>3 DEF OwnData
  <2>5. InEntries(TablesIn(SerializeValue[x])) = {SerializeValue[y] : y \in Inside(x)}
    BY <2>1, TablesInFacts
  <2>6. \A y \in Inside(x) : Readable[SerializeValue[y]]
    <3> DEFINE t == SerializeValue[x]
    <3>1. t \in Tables /\ Readable[t]
      BY <2>1
    <3> HIDE DEF t
    <3>2. \A z \in InEntries(TablesIn(t)) : Readable[z]
      BY <3>1, ReadableIs
    <3> QED
      BY <2>5, <3>2 DEF t
  <2>7. \A y \in Inside(x) : Becomes(y, Mean(y))
    BY <1>1, <2>2, <2>4, <2>6
  <2>8. CASE x.is = "Set"
    BY <2>1, <2>7, <2>8, SetBecomes
  <2>9. CASE x.is = "Array"
    BY <2>1, <2>7, <2>9, ArrayBecomes
  <2>10. CASE x.is = "Map"
    BY <2>1, <2>7, <2>10, MapBecomes
  <2>11. CASE x.is = "object"
    BY <2>1, <2>7, <2>11, ObjectBecomes
  <2>12. CASE x.is \notin Containers
    <3>1. x.is = "Data" => x.worker = Worker
      BY <2>3 DEF OwnData
    <3>2. PICK inside : Mean(x) = ValueOf(SerializeValue[x], inside)
      BY <2>1, MeanFacts
    <3>3. Mean(x) \in Results
      BY <2>1, MeanFacts
    <3>4. Resembles(x, Mean(x), Alike(x, Mean(x)))
      BY <2>1, <2>12, <3>1, <3>2, LeafBecomes
    <3> QED
      BY <3>3, <3>4, BecomesIs
  <2> QED
    BY <2>8, <2>9, <2>10, <2>11, <2>12 DEF Containers
<1> HIDE DEF P
<1>2. v \in P
  BY <1>1, ValueInduction
<1> QED
  BY <1>2 DEF P

-----------------------------------------------------------------------------
(* Responses: what the client reads of what the worker wrote.              *)

LEMMA ResponseFacts ==
  ASSUME NEW s
  PROVE  LET t == WrittenResponse(s)
             schema == UserResponseUnionProto[s.type]
         IN  /\ ResponseType(t) = s.type
             /\ \A f : ResponseField(t, f) = Read(schema, Create(schema, ResponseOf(s)), f)
             /\ Read(RiverUserResponseProto, t, "messages")
                  = [i \in DOMAIN s.messages |-> WrittenMessage(s.messages[i])]
             /\ Read(RiverUserResponseProto, t, "consoleLog")
                  = IF s.log = <<>> THEN Null ELSE WrittenLog(s.log)
<1> DEFINE t == WrittenResponse(s)
           schema == UserResponseUnionProto[s.type]
           value == Create(schema, ResponseOf(s))
           union == [valueType |-> s.type, value |-> value]
           wrapper == Create(UserResponseUnionWrapperProto, union)
           box == [bytes |-> wrapper]
           boxed == Create(UserResponseUnionWrapperBytesProto, box)
           messages == [i \in DOMAIN s.messages |-> WrittenMessage(s.messages[i])]
           log == IF s.log = <<>> THEN Null ELSE WrittenLog(s.log)
           given == [response |-> boxed, messages |-> messages, consoleLog |-> log]
<1>1. t = Create(RiverUserResponseProto, given)
  BY DEF WrittenResponse
<1> HIDE DEF t, schema, value, wrapper, boxed, messages, log
<1>2. /\ "response" \in DOMAIN given /\ given["response"] = boxed
      /\ "messages" \in DOMAIN given /\ given["messages"] = messages
      /\ "consoleLog" \in DOMAIN given /\ given["consoleLog"] = log
  OBVIOUS
<1>3. "bytes" \in DOMAIN box /\ box["bytes"] = wrapper
  OBVIOUS
<1>4. /\ "valueType" \in DOMAIN union /\ union["valueType"] = s.type
      /\ "value" \in DOMAIN union /\ union["value"] = value
  OBVIOUS
<1>5. UserResponseUnionWrapperProto.fields["value"] # 0
  BY NullAssumption DEF UserResponseUnionWrapperProto, Table, NullAssumption
<1> HIDE DEF given, box, union
<1>6. /\ Read(RiverUserResponseProto, t, "response") = boxed
      /\ Read(RiverUserResponseProto, t, "messages") = messages
      /\ Read(RiverUserResponseProto, t, "consoleLog") = log
  BY <1>1, <1>2, ReadCreate
<1>7. Read(UserResponseUnionWrapperBytesProto, boxed, "bytes") = wrapper
  BY <1>3, ReadCreate DEF boxed
<1>8. ResponseIn(t) = wrapper
  BY <1>6, <1>7 DEF ResponseIn
<1>9. /\ Read(UserResponseUnionWrapperProto, wrapper, "valueType") = s.type
      /\ Read(UserResponseUnionWrapperProto, wrapper, "value") = value
  BY <1>4, <1>5, ReadCreate DEF wrapper
<1>10. ResponseType(t) = s.type
  BY <1>8, <1>9 DEF ResponseType
<1>11. \A f : ResponseField(t, f) = Read(schema, value, f)
  BY <1>8, <1>9, <1>10 DEF ResponseField, schema
<1> QED
  BY <1>6, <1>10, <1>11 DEF t, schema, value, messages, log

\* The lines of a log as a reader sees them.
LEMMA LogFacts ==
  ASSUME NEW s, IsList(s.log), s.log # <<>> => WrittenLog(s.log) # Null,
         \A i \in DOMAIN s.log :
           s.log[i] = [message |-> s.log[i].message, error |-> s.log[i].error]
  PROVE  ReadLog(WrittenResponse(s)) = s.log
<1> DEFINE t == WrittenResponse(s)
           log == s.log
           lines == [i \in DOMAIN log |-> Create(ConsoleLogMessageProto, log[i])]
           list == [messages |-> lines]
           inner == Create(ConsoleLogProto, list)
           box == [bytes |-> inner]
           bytes == Read(RiverUserResponseProto, t, "consoleLog")
<1>1. bytes = IF log = <<>> THEN Null ELSE WrittenLog(log)
  BY ResponseFacts
<1> HIDE DEF t, bytes
<1>2. CASE log = <<>>
  BY <1>1, <1>2 DEF ReadLog, bytes, t
<1>3. CASE log # <<>>
  <2> HIDE DEF log
  <2>1. bytes = Create(ConsoleLogBytesProto, box) /\ bytes # Null
    BY <1>1, <1>3 DEF WrittenLog, log
  <2> HIDE DEF lines
  <2>2. "messages" \in DOMAIN list /\ list["messages"] = lines
    OBVIOUS
  <2> HIDE DEF inner
  <2>3. "bytes" \in DOMAIN box /\ box["bytes"] = inner
    OBVIOUS
  <2> HIDE DEF list, box
  <2>4. Read(ConsoleLogBytesProto, bytes, "bytes") = inner
    BY <2>1, <2>3, ReadCreate
  <2>5. Read(ConsoleLogProto, inner, "messages") = lines
    BY <2>2, ReadCreate DEF inner
  <2>6. ReadLog(t) = [i \in DOMAIN lines |-> ReadAll(ConsoleLogMessageProto, lines[i])]
    BY <2>1, <2>4, <2>5 DEF ReadLog, bytes
  <2>7. ASSUME NEW i \in DOMAIN log
        PROVE  ReadAll(ConsoleLogMessageProto, lines[i]) = log[i]
    <3> DEFINE line == log[i]
               read == lines[i]
    <3>1. line = [message |-> line.message, error |-> line.error]
      BY DEF log
    <3>2. read = Create(ConsoleLogMessageProto, line)
      BY DEF lines
    <3> HIDE DEF line, read
    <3>3. "message" \in DOMAIN line /\ "error" \in DOMAIN line
      BY <3>1
    <3>4. /\ Read(ConsoleLogMessageProto, read, "message") = line["message"]
          /\ Read(ConsoleLogMessageProto, read, "error") = line["error"]
      BY <3>2, <3>3, ReadCreate
    <3>5. DOMAIN ConsoleLogMessageProto.fields = {"message", "error"}
      BY DEF ConsoleLogMessageProto, Table
    <3>6. ReadAll(ConsoleLogMessageProto, read)
            = [f \in {"message", "error"} |-> Read(ConsoleLogMessageProto, read, f)]
      BY <3>5 DEF ReadAll
    <3>7. line = [f \in {"message", "error"} |-> line[f]]
      BY <3>1
    <3> QED
      BY <3>4, <3>6, <3>7 DEF line, read
  <2>8. DOMAIN lines = DOMAIN log /\ log = [i \in DOMAIN log |-> log[i]]
    BY ListFacts DEF lines, log
  <2>9. [i \in DOMAIN lines |-> ReadAll(ConsoleLogMessageProto, lines[i])] = log
    BY <2>7, <2>8
  <2> QED
    BY <2>6, <2>9 DEF t, log
<1> QED
  BY <1>2, <1>3

\* What the worker means can be written, and refers to Data of the client's worker.
LEMMA MeantFacts ==
  ASSUME heap \in Heaps, NEW c \in Calls, ~Refused(c), NEW s \in Meant(c)
  PROVE  /\ s.type \in DOMAIN UserResponseUnionProto
         /\ IsList(s.messages) /\ \A i \in DOMAIN s.messages : IsMessage(s.messages[i])
         /\ ReadLog(WrittenResponse(s)) = s.log
         /\ s.type = "CallServiceMethodResponseProto" =>
              s.value \in Values /\ Serializable[s.value] /\ OwnData(s.value)
         /\ s.type = "GetDataResponseProto" =>
              IsList(s.data) /\ \A i \in DOMAIN s.data : IsStored(s.data[i])
<1>1. CASE s \in Says
  <2>1. /\ s.type \in DOMAIN UserResponseUnionProto
        /\ IsList(s.messages) /\ \A i \in DOMAIN s.messages : IsMessage(s.messages[i])
        /\ IsList(s.log)
        /\ \A i \in DOMAIN s.log :
             s.log[i] = [message |-> s.log[i].message, error |-> s.log[i].error]
        /\ s.type = "CallServiceMethodResponseProto" => Sayable(s.value)
        /\ s.type = "GetDataResponseProto" =>
              IsList(s.data) /\ \A i \in DOMAIN s.data : IsStored(s.data[i])
    BY <1>1, SaysAssumption DEF SaysAssumption
  <2>2. WrittenLog(s.log) # Null
    BY <1>1, NullAssumption DEF NullAssumption
  <2>3. ReadLog(WrittenResponse(s)) = s.log
    BY <2>1, <2>2, LogFacts
  <2>4. Sayable(s.value) => s.value \in Values /\ Serializable[s.value] /\ OwnData(s.value)
    BY DEF Sayable, OwnData
  <2> QED
    BY <2>1, <2>3, <2>4
<1>2. CASE s \notin Says
  <2> DEFINE v == c.args[1]
  <2>1. c.op = "CallServiceMethod" /\ c.args # <<>> /\ s = Returned(c)
    BY <1>2 DEF Meant
  <2>2. c.args \in Seq(Values) /\ c.source.worker = Worker
    BY <2>1, CallsAssumption DEF CallsAssumption
  <2>3. 1 \in DOMAIN c.args /\ v \in Values
    <3> DEFINE a == c.args
    <3>1. a \in Seq(Values) /\ a # <<>>
      BY <2>1, <2>2
    <3> HIDE DEF a
    <3>2. Len(a) \in Nat /\ DOMAIN a = 1..Len(a) /\ Len(a) # 0
      BY <3>1, LenProperties, EmptySeq
    <3>3. 1 \in DOMAIN a
      BY <3>2
    <3>4. \A i \in DOMAIN a : a[i] \in Values
      BY <3>1, SeqIsList
    <3> QED
      BY <3>3, <3>4 DEF a
  <2>4. /\ s.type = "CallServiceMethodResponseProto" /\ s.value = v
        /\ s.messages = <<>> /\ s.log = <<>>
    BY <2>1 DEF Returned
  <2>5. Serializable[v]
    BY <2>1, <2>3 DEF Refused
  <2>6. OwnData(v)
    <3> SUFFICES ASSUME NEW w \in Within[v], w.is = "Data" PROVE w.worker = Worker
      BY DEF OwnData
    <3>1. w \in Asked(c) /\ w \in DOMAIN heap
      BY <2>3, WithinFacts, HeapFacts DEF Asked
    <3>2. w \in RootsOf(c) /\ Transfers(c)
      BY <2>1, <3>1 DEF RootsOf, Transfers
    <3>3. w \in ReachableData(RootsOf(c))
      BY <3>2, RootsFacts, ReachableFacts
    <3>4. ~Cause(c)
      BY <3>2, RefusedFacts
    <3> QED
      BY <2>1, <2>2, <3>3, <3>4 DEF Cause
  <2>7. ReadLog(WrittenResponse(s)) = s.log
    BY <2>4, LogFacts, EmptyList
  <2>8. s.type \in DOMAIN UserResponseUnionProto
    BY <2>4 DEF UserResponseUnionProto
  <2> HIDE DEF v
  <2> QED
    BY <2>3, <2>4, <2>5, <2>6, <2>7, <2>8, EmptyList
<1> QED
  BY <1>1, <1>2

LEMMA NothingIn ==
  ASSUME NEW s, IsList(s), DOMAIN s = {}
  PROVE  s = <<>>
<1> DEFINE n == Len(s)
<1>1. n \in Nat /\ 1..n = {}
  BY ListFacts
<1>2. s \in Seq(ToSet(s))
  BY DEF IsList
<1>3. n = 0
  <2> HIDE DEF n
  <2> QED
    BY <1>1
<1> QED
  BY <1>2, <1>3, EmptySeq

ReadMessages(s) == [i \in DOMAIN s.messages |-> ReadMessage(WrittenMessage(s.messages[i]))]

\* What an operation makes of a response that is not an error.
LEMMA AnswerFacts ==
  ASSUME NEW s, IsList(s.messages), ReadLog(WrittenResponse(s)) = s.log,
         s.type \notin {"ErrorCodeResponseProto", "ExceptionResponseProto"},
         NEW op, NEW out, out = ReadResponse(op, WrittenResponse(s)), out # Throws
  PROVE  LET t == WrittenResponse(s)
             messages == Handled(ReadMessages(s), op)
             value == ResponseField(t, "returnValue")
             data == ReadAllOf(ReadData, ResponseField(t, "data"))
         IN  /\ s.type = ResponseTypes[op]
             /\ op \in {"CallServiceMethod", "SaveData"} \/ s.messages = <<>>
             /\ messages # Throws
             /\ op = "CallServiceMethod" =>
                  /\ Readable[value]
                  /\ out = [value |-> DeserializeValue[value],
                            messages |-> messages, log |-> s.log]
             /\ op = "GetData" => data # Throws /\ out = [data |-> data, log |-> s.log]
             /\ op \notin {"CallServiceMethod", "GetData"} =>
                  out = [messages |-> messages, log |-> s.log]
<1> DEFINE t == WrittenResponse(s)
           received == [i \in DOMAIN s.messages |-> WrittenMessage(s.messages[i])]
           all == ReadMessages(s)
           messages == Handled(all, op)
           value == ResponseField(t, "returnValue")
           data == ReadAllOf(ReadData, ResponseField(t, "data"))
<1>1. /\ ResponseType(t) = s.type
      /\ Read(RiverUserResponseProto, t, "messages") = received
      /\ ReadLog(t) = s.log /\ out = ReadResponse(op, t)
  BY ResponseFacts
<1>2. DOMAIN received = DOMAIN s.messages
      /\ all = [i \in DOMAIN received |-> ReadMessage(received[i])]
  BY DEF ReadMessages
<1>3. s.messages # <<>> => received # <<>>
  <2>2. DOMAIN s.messages = {} => s.messages = <<>>
    BY NothingIn
  <2> HIDE DEF received
  <2> QED
    BY <1>2, <2>2, EmptyList
<1> HIDE DEF t, received, all
<1>4. /\ s.type = ResponseTypes[op]
      /\ received = <<>> \/ op \in {"CallServiceMethod", "SaveData"}
      /\ messages # Throws
  BY <1>1, <1>2 DEF ReadResponse, Answered
<1>5. ASSUME op = "CallServiceMethod"
      PROVE  /\ Readable[value]
             /\ out = [value |-> DeserializeValue[value], messages |-> messages, log |-> s.log]
  BY <1>1, <1>2, <1>4, <1>5 DEF ReadResponse, Answered
<1>6. ASSUME op = "GetData"
      PROVE  data # Throws /\ out = [data |-> data, log |-> s.log]
  BY <1>1, <1>2, <1>4, <1>6 DEF ReadResponse, Answered
<1>7. ASSUME op \notin {"CallServiceMethod", "GetData"}
      PROVE  out = [messages |-> messages, log |-> s.log]
  BY <1>1, <1>2, <1>4, <1>7 DEF ReadResponse, Answered
<1> QED
  BY <1>3, <1>4, <1>5, <1>6, <1>7 DEF t, all

LEMMA ReturnFacts ==
  ASSUME NEW s, s.type = "CallServiceMethodResponseProto"
  PROVE  ResponseField(WrittenResponse(s), "returnValue") = SerializeValue[s.value]
<1> DEFINE schema == UserResponseUnionProto[s.type]
           given == [returnValue |-> SerializeValue[s.value]]
<1>1. ResponseOf(s) = given
  BY DEF ResponseOf
<1>2. "returnValue" \in DOMAIN given /\ given["returnValue"] = SerializeValue[s.value]
  OBVIOUS
<1> HIDE DEF given, schema
<1>3. Read(schema, Create(schema, given), "returnValue") = SerializeValue[s.value]
  BY <1>2, ReadCreate
<1> QED
  BY <1>1, <1>3, ResponseFacts DEF schema

\* What became of a call that the client has the answer to.
LEMMA ToldAnswer ==
  ASSUME Told, pc = "done", call # Null, said # Null
  PROVE  /\ heap \in Heaps /\ call \in Calls /\ ~Refused(call) /\ said \in Meant(call)
         /\ call.op \in DOMAIN ResponseTypes
         /\ outcome = ReadResponse(call.op, WrittenResponse(said))
  BY CallsAssumption DEF Told, AskedOf, CallsAssumption

\* A value that a method gets and returns comes back as it was, through the tables in
\* both directions, whatever it nests (serde.ts:166-262, 644-832).
THEOREM ReturnPreservedHolds == Spec => []ReturnPreserved
<1>1. Told => ReturnPreserved
  <2> SUFFICES ASSUME Told, pc = "done", call # Null, said # Null, outcome # Throws,
                      call.op = "CallServiceMethod",
                      said.type = "CallServiceMethodResponseProto"
               PROVE  Becomes(said.value, outcome.value)
    BY DEF ReturnPreserved
  <2> DEFINE v == said.value
             t == WrittenResponse(said)
             value == ResponseField(t, "returnValue")
  <2>1. /\ heap \in Heaps /\ call \in Calls /\ ~Refused(call) /\ said \in Meant(call)
        /\ outcome = ReadResponse(call.op, t)
    BY ToldAnswer
  <2>2. /\ IsList(said.messages) /\ ReadLog(t) = said.log
        /\ v \in Values /\ Serializable[v] /\ OwnData(v)
    BY <2>1, MeantFacts
  <2>3. value = SerializeValue[v]
    BY ReturnFacts
  <2> HIDE DEF value
  <2>4. PICK messages : /\ Readable[value]
                        /\ outcome = [value |-> DeserializeValue[value],
                                      messages |-> messages, log |-> said.log]
    BY <2>1, <2>2, AnswerFacts DEF value
  <2>5. Readable[SerializeValue[v]] /\ outcome.value = Mean(v)
    BY <2>3, <2>4 DEF Mean
  <2> QED
    BY <2>2, <2>5, RoundTrip
<1> QED
  BY <1>1, ToldHolds, PTL

-----------------------------------------------------------------------------
(* Data and messages: what the client reads of what the worker wrote.      *)

\* The properties of an object or of an event.
LEMMA PropertiesFacts ==
  ASSUME NEW schema, NEW bytes \in {"value", "valueBytes"},
         bytes = "value" => schema.fields["value"] # 0,
         NEW ps, SayableProperties(ps),
         ReadableProperties(schema, PropertiesOf(schema, ps, bytes), bytes)
  PROVE  SameProperties(ps, ReadProperties(schema, PropertiesOf(schema, ps, bytes), bytes))
<1> DEFINE qs == PropertiesOf(schema, ps, bytes)
           n == Len(ps)
           Item(i) == [f \in {"name", bytes} |->
                         IF f = "name" THEN ps[i].name ELSE SerializeValue[ps[i].value]]
           ValueIn(i) == Read(schema, qs[i], bytes)
           late == {i \in DOMAIN qs : IsReference(ValueIn(i))}
           at == Postponed(DOMAIN qs, late)
           rs == ReadProperties(schema, qs, bytes)
<1>1. IsList(ps) /\ \A i \in DOMAIN ps : Sayable(ps[i].value)
  BY DEF SayableProperties
<1>2. n \in Nat /\ DOMAIN ps = 1..n
  BY <1>1, ListFacts
<1>3. DOMAIN qs = 1..n /\ \A i \in 1..n : qs[i] = Create(schema, Item(i))
  BY <1>2 DEF PropertiesOf
<1>4. \A i : /\ "name" \in DOMAIN Item(i) /\ Item(i)["name"] = ps[i].name
             /\ bytes \in DOMAIN Item(i) /\ Item(i)[bytes] = SerializeValue[ps[i].value]
  OBVIOUS
<1> HIDE DEF Item, qs, n
<1>5. \A i \in 1..n : Read(schema, qs[i], "name") = ps[i].name
  BY <1>3, <1>4, ReadCreate
<1>6. \A i \in 1..n : ValueIn(i) = SerializeValue[ps[i].value]
  <2>1. bytes # "value" \/ schema.fields[bytes] # 0
    OBVIOUS
  <2> QED
    BY <1>3, <1>4, <2>1, ReadCreate
<1>7. rs = [k \in DOMAIN at |-> [name |-> Read(schema, qs[at[k]], "name"),
                                 value |-> DeserializeValue[ValueIn(at[k])]]]
  BY DEF ReadProperties
<1>8. \A i \in 1..n : Readable[SerializeValue[ps[i].value]]
  BY <1>3, <1>6 DEF ReadableProperties, qs
<1>9. /\ IsList(at) /\ NoneTwice(at) /\ ToSet(at) = 1..n
      /\ Len(at) = n /\ DOMAIN at = 1..n
  <2>1. late \in SUBSET (1..n)
    BY <1>3
  <2> HIDE DEF late
  <2> QED
    BY <1>2, <1>3, <2>1, PostponedFacts
<1> HIDE DEF at, rs, ValueIn
<1>10. /\ DOMAIN rs = 1..n /\ rs = [k \in 1..n |-> rs[k]]
       /\ \A k \in 1..n : /\ rs[k].name = Read(schema, qs[at[k]], "name")
                          /\ rs[k].value = DeserializeValue[ValueIn(at[k])]
  BY <1>7, <1>9
<1>11. Len(rs) = n
  BY <1>2, <1>10, FunctionIsList
<1>12. ASSUME NEW i \in 1..n
       PROVE  \E j \in DOMAIN rs : ps[i].name = rs[j].name /\ Becomes(ps[i].value, rs[j].value)
  <2>1. PICK k \in 1..n : at[k] = i
    BY <1>9 DEF ToSet
  <2>2. rs[k].name = ps[i].name
    BY <1>5, <1>10, <2>1
  <2>3. rs[k].value = Mean(ps[i].value)
    BY <1>6, <1>10, <2>1 DEF Mean
  <2>4. ps[i].value \in Values /\ Serializable[ps[i].value] /\ OwnData(ps[i].value)
    BY <1>1, <1>2 DEF Sayable, OwnData
  <2>5. Becomes(ps[i].value, rs[k].value)
    BY <1>8, <2>3, <2>4, RoundTrip
  <2> QED
    BY <1>10, <2>2, <2>5
<1> QED
  BY <1>2, <1>11, <1>12 DEF SameProperties, n, rs, qs

LEMMA NoProperties == SameProperties(<<>>, <<>>)
  BY EmptyList DEF SameProperties

\* A delta, if it can be read at all.
LEMMA DeltaFacts ==
  ASSUME NEW d, IsDelta(d), ReadDelta(WrittenDelta(d)) # Throws
  PROVE  SameDelta(d, ReadDelta(WrittenDelta(d)))
<1> DEFINE t == WrittenDelta(d)
           e == ReadDelta(t)
           qs == PropertiesOf(NestedPropertyProto, d.properties, "valueBytes")
           given == [classId |-> d.classId, objectVersion |-> d.version,
                     primaryKey |-> d.primaryKey, deleted |-> d.deleted,
                     properties |-> qs, deletedProperties |-> d.deletedProperties]
           delta == Create(DataDeltaProto, given)
           box == [bytes |-> delta]
           In(f) == Read(DataDeltaProto, delta, f)
           read == ReadProperties(NestedPropertyProto, qs, "valueBytes")
           readable == ReadableProperties(NestedPropertyProto, qs, "valueBytes")
<1>1. t = Create(DataDeltaBytesProto, box)
  BY DEF WrittenDelta
<1> HIDE DEF delta, t
<1>2. "bytes" \in DOMAIN box /\ box["bytes"] = delta
  OBVIOUS
<1> HIDE DEF box
<1>3. Read(DataDeltaBytesProto, t, "bytes") = delta
  BY <1>1, <1>2, ReadCreate
<1> HIDE DEF qs
<1>4. /\ "classId" \in DOMAIN given /\ given["classId"] = d.classId
      /\ "objectVersion" \in DOMAIN given /\ given["objectVersion"] = d.version
      /\ "primaryKey" \in DOMAIN given /\ given["primaryKey"] = d.primaryKey
      /\ "deleted" \in DOMAIN given /\ given["deleted"] = d.deleted
      /\ "properties" \in DOMAIN given /\ given["properties"] = qs
      /\ "deletedProperties" \in DOMAIN given
      /\ given["deletedProperties"] = d.deletedProperties
  OBVIOUS
<1> HIDE DEF given
<1>5. /\ In("classId") = d.classId /\ In("objectVersion") = d.version
      /\ In("primaryKey") = d.primaryKey /\ In("deleted") = d.deleted
      /\ In("properties") = qs /\ In("deletedProperties") = d.deletedProperties
  BY <1>4, ReadCreate DEF delta
<1> HIDE DEF In
<1>6. e = IF d.version # 0 /\ (d.deleted \/ readable)
          THEN [classId |-> d.classId, version |-> d.version,
                primaryKey |-> d.primaryKey, deleted |-> d.deleted,
                properties |-> IF d.deleted THEN <<>> ELSE read,
                deletedProperties |-> IF d.deleted THEN <<>> ELSE d.deletedProperties]
          ELSE Throws
  <2>1. e = IF In("objectVersion") # 0 /\ (In("deleted")
                 \/ ReadableProperties(NestedPropertyProto, In("properties"), "valueBytes"))
            THEN [classId |-> In("classId"), version |-> In("objectVersion"),
                  primaryKey |-> In("primaryKey"), deleted |-> In("deleted"),
                  properties |-> IF In("deleted") THEN <<>>
                                 ELSE ReadProperties(NestedPropertyProto, In("properties"),
                                                     "valueBytes"),
                  deletedProperties |-> IF In("deleted") THEN <<>>
                                        ELSE In("deletedProperties")]
            ELSE Throws
    BY <1>3 DEF ReadDelta, In
  <2> QED
    BY <1>5, <2>1
<1> HIDE DEF readable, e
<1>7. e # Throws
  BY DEF e, t
<1>8. /\ d = [classId |-> d.classId, version |-> d.version, primaryKey |-> d.primaryKey,
              deleted |-> d.deleted, properties |-> d.properties,
              deletedProperties |-> d.deletedProperties]
      /\ d.deleted \in BOOLEAN /\ SayableProperties(d.properties)
      /\ d.deleted => d.properties = <<>> /\ d.deletedProperties = <<>>
  BY DEF IsDelta
<1>9. SameProperties(d.properties, e.properties)
  <2>1. CASE d.deleted
    BY <1>6, <1>7, <1>8, <2>1, NoProperties
  <2>2. CASE ~d.deleted
    <3>1. readable /\ e.properties = read
      BY <1>6, <1>7, <2>2
    <3> QED
      BY <1>8, <3>1, PropertiesFacts DEF readable, qs
  <2> QED
    BY <2>1, <2>2
<1>10. [d EXCEPT !.properties = <<>>] = [e EXCEPT !.properties = <<>>]
  <2>1. e = [classId |-> d.classId, version |-> d.version, primaryKey |-> d.primaryKey,
             deleted |-> d.deleted, properties |-> e.properties,
             deletedProperties |-> d.deletedProperties]
    BY <1>6, <1>7, <1>8
  <2> QED
    BY <1>8, <2>1
<1> QED
  BY <1>9, <1>10 DEF SameDelta, e, t

\* An object, if it can be read at all.
LEMMA DataFacts ==
  ASSUME NEW d, IsStored(d), ReadData(WrittenData(d)) # Throws
  PROVE  SameDelta(d, ReadData(WrittenData(d)))
<1> DEFINE t == WrittenData(d)
           e == ReadData(t)
           qs == PropertiesOf(NestedPropertyProto, d.properties, "valueBytes")
           given == [classId |-> d.classId, objectVersion |-> d.version,
                     primaryKey |-> d.primaryKey, deleted |-> d.deleted, properties |-> qs]
           In(f) == Read(NestedDataProto, t, f)
           read == ReadProperties(NestedPropertyProto, qs, "valueBytes")
           readable == ReadableProperties(NestedPropertyProto, qs, "valueBytes")
<1>1. t = Create(NestedDataProto, given)
  BY DEF WrittenData
<1> HIDE DEF t, qs
<1>2. /\ "classId" \in DOMAIN given /\ given["classId"] = d.classId
      /\ "objectVersion" \in DOMAIN given /\ given["objectVersion"] = d.version
      /\ "primaryKey" \in DOMAIN given /\ given["primaryKey"] = d.primaryKey
      /\ "deleted" \in DOMAIN given /\ given["deleted"] = d.deleted
      /\ "properties" \in DOMAIN given /\ given["properties"] = qs
  OBVIOUS
<1> HIDE DEF given
<1>3. /\ In("classId") = d.classId /\ In("objectVersion") = d.version
      /\ In("primaryKey") = d.primaryKey /\ In("deleted") = d.deleted
      /\ In("properties") = qs
  BY <1>1, <1>2, ReadCreate
<1> HIDE DEF In
<1>4. e = IF d.version # 0 /\ readable
          THEN [classId |-> d.classId, version |-> d.version,
                primaryKey |-> d.primaryKey, deleted |-> d.deleted, properties |-> read]
          ELSE Throws
  <2>1. e = IF In("objectVersion") # 0
               /\ ReadableProperties(NestedPropertyProto, In("properties"), "valueBytes")
            THEN [classId |-> In("classId"), version |-> In("objectVersion"),
                  primaryKey |-> In("primaryKey"), deleted |-> In("deleted"),
                  properties |-> ReadProperties(NestedPropertyProto, In("properties"),
                                                "valueBytes")]
            ELSE Throws
    BY DEF ReadData, In
  <2> QED
    BY <1>3, <2>1
<1> HIDE DEF readable, e
<1>5. e # Throws
  BY DEF e, t
<1>6. /\ d = [classId |-> d.classId, version |-> d.version, primaryKey |-> d.primaryKey,
              deleted |-> d.deleted, properties |-> d.properties]
      /\ SayableProperties(d.properties)
  BY DEF IsStored
<1>7. /\ readable
      /\ e = [classId |-> d.classId, version |-> d.version, primaryKey |-> d.primaryKey,
              deleted |-> d.deleted, properties |-> read]
  BY <1>4, <1>5
<1>8. SameProperties(d.properties, read)
  BY <1>6, <1>7, PropertiesFacts DEF readable, qs
<1>9. [d EXCEPT !.properties = <<>>] = [e EXCEPT !.properties = <<>>]
  BY <1>6, <1>7
<1>10. e.properties = read
  BY <1>7
<1> QED
  BY <1>8, <1>9, <1>10 DEF SameDelta, e, t

LEMMA DeltasRead ==
  ASSUME NEW ds, IsList(ds), \A i \in DOMAIN ds : IsDelta(ds[i]),
         ReadAllOf(ReadDelta, [i \in DOMAIN ds |-> WrittenDelta(ds[i])]) # Throws
  PROVE  LET es == ReadAllOf(ReadDelta, [i \in DOMAIN ds |-> WrittenDelta(ds[i])])
         IN  Len(es) = Len(ds) /\ \A i \in DOMAIN ds : SameDelta(ds[i], es[i])
<1> DEFINE ts == [i \in DOMAIN ds |-> WrittenDelta(ds[i])]
           all == [i \in DOMAIN ts |-> ReadDelta(ts[i])]
           n == Len(ds)
<1>1. n \in Nat /\ DOMAIN ds = 1..n
  BY ListFacts
<1>2. /\ DOMAIN all = 1..n /\ all = [i \in 1..n |-> all[i]]
      /\ \A i \in 1..n : all[i] = ReadDelta(WrittenDelta(ds[i]))
  BY <1>1
<1>3. Throws \notin ToSet(all) /\ ReadAllOf(ReadDelta, ts) = all
  BY DEF ReadAllOf
<1> HIDE DEF all, n
<1>4. Len(all) = n
  BY <1>1, <1>2, FunctionIsList
<1>5. ASSUME NEW i \in 1..n PROVE SameDelta(ds[i], all[i])
  <2>1. all[i] # Throws
    BY <1>2, <1>3 DEF ToSet
  <2> QED
    BY <1>1, <1>2, <2>1, DeltaFacts
<1> QED
  BY <1>1, <1>3, <1>4, <1>5 DEF n

LEMMA DataRead ==
  ASSUME NEW ds, IsList(ds), \A i \in DOMAIN ds : IsStored(ds[i]),
         ReadAllOf(ReadData, [i \in DOMAIN ds |-> WrittenData(ds[i])]) # Throws
  PROVE  LET es == ReadAllOf(ReadData, [i \in DOMAIN ds |-> WrittenData(ds[i])])
         IN  Len(es) = Len(ds) /\ \A i \in DOMAIN ds : SameDelta(ds[i], es[i])
<1> DEFINE ts == [i \in DOMAIN ds |-> WrittenData(ds[i])]
           all == [i \in DOMAIN ts |-> ReadData(ts[i])]
           n == Len(ds)
<1>1. n \in Nat /\ DOMAIN ds = 1..n
  BY ListFacts
<1>2. /\ DOMAIN all = 1..n /\ all = [i \in 1..n |-> all[i]]
      /\ \A i \in 1..n : all[i] = ReadData(WrittenData(ds[i]))
  BY <1>1
<1>3. Throws \notin ToSet(all) /\ ReadAllOf(ReadData, ts) = all
  BY DEF ReadAllOf
<1> HIDE DEF all, n
<1>4. Len(all) = n
  BY <1>1, <1>2, FunctionIsList
<1>5. ASSUME NEW i \in 1..n PROVE SameDelta(ds[i], all[i])
  <2>1. all[i] # Throws
    BY <1>2, <1>3 DEF ToSet
  <2> QED
    BY <1>1, <1>2, <2>1, DataFacts
<1> QED
  BY <1>1, <1>3, <1>4, <1>5 DEF n

\* An event with its source and its properties.
LEMMA EventFacts ==
  ASSUME NEW m, m.source.is \in {"Data", "Service"}, SayableProperties(m.properties),
         NEW deltas, ReadEvent(EventOf(m), deltas) # Throws
  PROVE  LET n == ReadEvent(EventOf(m), deltas)
         IN  /\ n.type = "MessageMessageProto" /\ n.deltas = deltas
             /\ n.classId = m.classId /\ n.sourceType = ValueTypes[m.source.is]
             /\ n.source = Reference(m.source)
             /\ SameProperties(m.properties, n.properties)
<1> DEFINE t == EventOf(m)
           n == ReadEvent(t, deltas)
           type == ValueTypes[m.source.is]
           schema == WorkerReferenceUnionProto[type]
           from == Reference(m.source)
           source == Create(schema, from)
           qs == PropertiesOf(PropertyProto, m.properties, "value")
           given == [classId |-> m.classId, sourceType |-> type, source |-> source,
                     properties |-> qs, referencedDataHandles |-> <<>>]
           In(f) == Read(MessageProto, t, f)
           read == ReadProperties(PropertyProto, qs, "value")
           readable == ReadableProperties(PropertyProto, qs, "value")
           back == [f \in {"classId", "primaryKey"} |-> Read(schema, source, f)]
<1>1. t = Create(MessageProto, given)
  BY DEF EventOf
<1> HIDE DEF t, type, source, qs
<1>2. /\ "classId" \in DOMAIN given /\ given["classId"] = m.classId
      /\ "sourceType" \in DOMAIN given /\ given["sourceType"] = type
      /\ "source" \in DOMAIN given /\ given["source"] = source
      /\ "properties" \in DOMAIN given /\ given["properties"] = qs
  OBVIOUS
<1> HIDE DEF given
<1>3. /\ In("classId") = m.classId /\ In("sourceType") = type
      /\ In("source") = source /\ In("properties") = qs
  BY <1>1, <1>2, ReadCreate
<1> HIDE DEF schema, In
<1>4. /\ "classId" \in DOMAIN from /\ "primaryKey" \in DOMAIN from
      /\ from = [f \in {"classId", "primaryKey"} |-> from[f]]
  BY DEF Reference
<1> HIDE DEF from
<1>5. /\ Read(schema, source, "classId") = from["classId"]
      /\ Read(schema, source, "primaryKey") = from["primaryKey"]
  BY <1>4, ReadCreate DEF source
<1>6. back = from
  BY <1>4, <1>5
<1>7. n = IF readable
          THEN [type |-> "MessageMessageProto", deltas |-> deltas, classId |-> m.classId,
                sourceType |-> type, source |-> from, properties |-> read]
          ELSE Throws
  <2>1. n = IF ReadableProperties(PropertyProto, In("properties"), "value")
            THEN [type |-> "MessageMessageProto", deltas |-> deltas,
                  classId |-> In("classId"), sourceType |-> In("sourceType"),
                  source |-> [f \in {"classId", "primaryKey"} |->
                     Read(WorkerReferenceUnionProto[In("sourceType")], In("source"), f)],
                  properties |-> ReadProperties(PropertyProto, In("properties"), "value")]
            ELSE Throws
    BY DEF ReadEvent, In
  <2>2. back = [f \in {"classId", "primaryKey"} |->
                  Read(WorkerReferenceUnionProto[type], source, f)]
    BY DEF schema
  <2> HIDE DEF back, n
  <2> QED
    BY <1>3, <1>6, <2>1, <2>2
<1> HIDE DEF readable, read, n
<1>8. readable
  BY <1>7 DEF n, t
<1>9. SameProperties(m.properties, read)
  BY <1>8, PropertiesFacts, ValueProtoFacts DEF readable, read, qs
<1> QED
  BY <1>7, <1>8, <1>9 DEF n, t, type, from

\* A message, if it can be read at all.
LEMMA MessageFacts ==
  ASSUME NEW m, IsMessage(m), ReadMessage(WrittenMessage(m)) # Throws
  PROVE  SameMessage(m, ReadMessage(WrittenMessage(m)))
<1> DEFINE t == WrittenMessage(m)
           n == ReadMessage(t)
           schema == UserMessageUnionProto[m.type]
           inner == MessageOf(m)
           value == Create(schema, inner)
           union == [valueType |-> m.type, value |-> value]
           wrapper == Create(UserMessageUnionWrapperProto, union)
           box == [bytes |-> wrapper]
           written == [i \in DOMAIN m.deltas |-> WrittenDelta(m.deltas[i])]
           deltas == ReadAllOf(ReadDelta, written)
           eventBox == [bytes |-> EventOf(m)]
           event == Create(MessageBytesProto, eventBox)
<1>1. t = Create(UserMessageUnionWrapperBytesProto, box)
  BY DEF WrittenMessage
<1> HIDE DEF t, wrapper
<1>2. "bytes" \in DOMAIN box /\ box["bytes"] = wrapper
  OBVIOUS
<1> HIDE DEF box, value
<1>3. /\ "valueType" \in DOMAIN union /\ union["valueType"] = m.type
      /\ "value" \in DOMAIN union /\ union["value"] = value
  OBVIOUS
<1>4. UserMessageUnionWrapperProto.fields["value"] # 0
  BY NullAssumption DEF UserMessageUnionWrapperProto, Table, NullAssumption
<1> HIDE DEF union
<1>5. Read(UserMessageUnionWrapperBytesProto, t, "bytes") = wrapper
  BY <1>1, <1>2, ReadCreate
<1>6. /\ Read(UserMessageUnionWrapperProto, wrapper, "valueType") = m.type
      /\ Read(UserMessageUnionWrapperProto, wrapper, "value") = value
  BY <1>3, <1>4, ReadCreate DEF wrapper
<1>7. /\ m.type \in {"DataUpdateMessageProto", "MessageMessageProto"}
      /\ IsList(m.deltas) /\ \A i \in DOMAIN m.deltas : IsDelta(m.deltas[i])
      /\ m.type = "MessageMessageProto" =>
           m.source.is \in {"Data", "Service"} /\ SayableProperties(m.properties)
  BY DEF IsMessage
<1>8. "deltas" \in DOMAIN inner /\ inner["deltas"] = written
  <2> HIDE DEF written, event
  <2>1. MessageOf(m) = IF m.type = "DataUpdateMessageProto" THEN [deltas |-> written]
                       ELSE [event |-> event, deltas |-> written]
    BY DEF MessageOf, written, event
  <2> QED
    BY <2>1
<1> HIDE DEF schema, inner, written
<1>9. Read(schema, value, "deltas") = written
  BY <1>8, ReadCreate DEF value
<1>10. n = IF deltas = Throws THEN Throws
           ELSE IF m.type = "DataUpdateMessageProto" THEN [type |-> m.type, deltas |-> deltas]
           ELSE ReadEvent(Read(MessageBytesProto, Read(MessageMessageProto, value, "event"),
                               "bytes"), deltas)
  BY <1>5, <1>6, <1>9 DEF ReadMessage, ReadAfter, schema
<1>11. deltas # Throws
  BY <1>10 DEF t
<1>12. /\ Len(deltas) = Len(m.deltas)
       /\ \A i \in DOMAIN m.deltas : SameDelta(m.deltas[i], deltas[i])
  BY <1>7, <1>11, DeltasRead DEF written
<1> HIDE DEF deltas, n
<1>13. CASE m.type = "DataUpdateMessageProto"
  <2>1. n.type = m.type /\ n.deltas = deltas
    BY <1>10, <1>11, <1>13
  <2> QED
    BY <1>12, <1>13, <2>1 DEF SameMessage, n, t
<1>14. CASE m.type = "MessageMessageProto"
  <2>1. inner = [event |-> event, deltas |-> written] /\ schema = MessageMessageProto
    BY <1>14 DEF MessageOf, inner, written, schema, UserMessageUnionProto
  <2>2. "event" \in DOMAIN inner /\ inner["event"] = event
    BY <2>1
  <2>3. "bytes" \in DOMAIN eventBox /\ eventBox["bytes"] = EventOf(m)
    OBVIOUS
  <2> HIDE DEF event, eventBox
  <2>4. Read(MessageMessageProto, value, "event") = event
    BY <2>1, <2>2, ReadCreate DEF value
  <2>5. Read(MessageBytesProto, event, "bytes") = EventOf(m)
    BY <2>3, ReadCreate DEF event
  <2>6. n = ReadEvent(EventOf(m), deltas)
    BY <1>10, <1>11, <1>14, <2>4, <2>5
  <2>7. ReadEvent(EventOf(m), deltas) # Throws
    BY <2>6 DEF n, t
  <2>8. /\ n.type = "MessageMessageProto" /\ n.deltas = deltas
        /\ n.classId = m.classId /\ n.sourceType = ValueTypes[m.source.is]
        /\ n.source = Reference(m.source)
        /\ SameProperties(m.properties, n.properties)
    BY <1>7, <1>14, <2>6, <2>7, EventFacts
  <2> QED
    BY <1>12, <1>14, <2>8 DEF SameMessage, n, t
<1> QED
  BY <1>7, <1>13, <1>14

\* Handling reorders messages and loses none.
LEMMA HandledFacts ==
  ASSUME NEW all, IsList(all), NEW op, Handled(all, op) # Throws,
         \A i \in DOMAIN all : all[i] # Throws =>
           all[i].type \in {"DataUpdateMessageProto", "MessageMessageProto"}
  PROVE  /\ \A i \in DOMAIN all : all[i] # Throws
         /\ Len(Handled(all, op)) = Len(all)
         /\ \A i \in DOMAIN all : \E j \in DOMAIN Handled(all, op) : Handled(all, op)[j] = all[i]
<1> DEFINE n == Len(all)
           E == {i \in DOMAIN all : all[i].type = "MessageMessageProto"}
           U == {i \in DOMAIN all : all[i].type = "DataUpdateMessageProto"}
           h == Handled(all, op)
<1>1. n \in Nat /\ DOMAIN all = 1..n
  BY ListFacts
<1> HIDE DEF n
<1>2. \A i \in DOMAIN all : all[i] # Throws
  BY DEF Handled, ToSet
<1>3. CASE op = "CallServiceMethod"
  <2>1. h = Pick(all, E) \o Pick(all, U)
    BY <1>3 DEF Handled, Select
  <2>2. E \in SUBSET (DOMAIN all) /\ U \in SUBSET (DOMAIN all)
    OBVIOUS
  <2>3. E \cup U = DOMAIN all /\ E \cap U = {}
    BY <1>2
  <2> HIDE DEF E, U, h
  <2>4. /\ IsList(Pick(all, E)) /\ Len(Pick(all, E)) = Cardinality(E)
        /\ ToSet(Pick(all, E)) = {all[i] : i \in E}
    BY <2>2, PickIsList
  <2>5. /\ IsList(Pick(all, U)) /\ Len(Pick(all, U)) = Cardinality(U)
        /\ ToSet(Pick(all, U)) = {all[i] : i \in U}
    BY <2>2, PickIsList
  <2>6. /\ Len(h) = Cardinality(E) + Cardinality(U)
        /\ ToSet(h) = {all[i] : i \in E} \cup {all[i] : i \in U}
    BY <2>1, <2>4, <2>5, ConcatIsList
  <2>7. Cardinality(E) + Cardinality(U) = n
    <3>1. IsFiniteSet(E) /\ IsFiniteSet(U)
      BY <2>2, PositionsFacts
    <3>2. Cardinality(E) \in Nat /\ Cardinality(U) \in Nat
      BY <3>1, FS_CardinalityType
    <3>3. Cardinality(E \cup U) = Cardinality(E) + Cardinality(U) - Cardinality(E \cap U)
      BY <3>1, FS_Union
    <3>4. Cardinality(E \cap U) = 0
      BY <2>3, FS_EmptySet
    <3>5. Cardinality(1..n) = n
      <4>1. 1 \in Int /\ n \in Int
        BY <1>1
      <4>2. Cardinality(1..n) = IF 1 > n THEN 0 ELSE n - 1 + 1
        BY <4>1, FS_Interval
      <4> QED
        BY <1>1, <4>2
    <3>6. Cardinality(E \cup U) = n
      BY <1>1, <2>3, <3>5
    <3> DEFINE e == Cardinality(E)
               u == Cardinality(U)
    <3>7. e \in Nat /\ u \in Nat /\ n = e + u - 0
      BY <3>2, <3>3, <3>4, <3>6
    <3> HIDE DEF e, u
    <3>8. e + u = n
      BY <3>7
    <3> QED
      BY <3>8 DEF e, u
  <2>8. ASSUME NEW i \in DOMAIN all
        PROVE  \E j \in DOMAIN h : h[j] = all[i]
    <3>1. i \in E \/ i \in U
      BY <2>3
    <3>2. all[i] \in ToSet(h)
      BY <2>6, <3>1
    <3> QED
      BY <3>2 DEF ToSet
  <2> QED
    BY <1>2, <2>6, <2>7, <2>8 DEF h, n
<1>4. CASE op # "CallServiceMethod"
  <2>1. h = all
    BY <1>2, <1>4 DEF Handled, ToSet
  <2> QED
    BY <1>2, <2>1
<1> QED
  BY <1>3, <1>4

\* The messages that come with an answer.
LEMMA MessagesFacts ==
  ASSUME NEW s, IsList(s.messages), \A i \in DOMAIN s.messages : IsMessage(s.messages[i]),
         NEW op, Handled(ReadMessages(s), op) # Throws
  PROVE  LET h == Handled(ReadMessages(s), op)
         IN  /\ Len(h) = Len(s.messages)
             /\ \A i \in DOMAIN s.messages : \E j \in DOMAIN h : SameMessage(s.messages[i], h[j])
<1> DEFINE all == ReadMessages(s)
           h == Handled(all, op)
           n == Len(s.messages)
<1>1. n \in Nat /\ DOMAIN s.messages = 1..n
  BY ListFacts
<1>2. /\ DOMAIN all = 1..n /\ all = [i \in 1..n |-> all[i]]
      /\ \A i \in 1..n : all[i] = ReadMessage(WrittenMessage(s.messages[i]))
  BY <1>1 DEF ReadMessages
<1> HIDE DEF all, n
<1>3. IsList(all) /\ Len(all) = n
  BY <1>1, <1>2, FunctionIsList
<1>4. ASSUME NEW i \in 1..n, all[i] # Throws
      PROVE  SameMessage(s.messages[i], all[i])
  BY <1>1, <1>2, <1>4, MessageFacts
<1>5. \A i \in DOMAIN all : all[i] # Throws =>
        all[i].type \in {"DataUpdateMessageProto", "MessageMessageProto"}
  BY <1>1, <1>2, <1>4 DEF SameMessage, IsMessage
<1>6. h # Throws
  BY DEF all
<1> HIDE DEF h
<1>7. /\ \A i \in DOMAIN all : all[i] # Throws
      /\ Len(h) = Len(all)
      /\ \A i \in DOMAIN all : \E j \in DOMAIN h : h[j] = all[i]
  BY <1>3, <1>5, <1>6, HandledFacts DEF h
<1>8. ASSUME NEW i \in 1..n
      PROVE  \E j \in DOMAIN h : SameMessage(s.messages[i], h[j])
  BY <1>2, <1>4, <1>7
<1> QED
  BY <1>1, <1>3, <1>7, <1>8 DEF h, all, n

\* What the client makes of an answer is what the worker meant by it.
LEMMA AnsweredAsMeant ==
  ASSUME heap \in Heaps, NEW c \in Calls, ~Refused(c), NEW s \in Meant(c), NEW out,
         out = ReadResponse(c.op, WrittenResponse(s)), out # Throws
  PROVE  /\ out.log = s.log
         /\ CASE s.type = "ErrorCodeResponseProto" ->
                    out = [platformException |-> s.code, log |-> s.log]
              [] s.type = "ExceptionResponseProto" ->
                    out.stack = OrEmpty(s.stack) /\ out.message = OrEmpty(s.message)
              [] OTHER ->
                    /\ s.type = ResponseTypes[c.op]
                    /\ c.op = "GetData" =>
                         /\ s.messages = <<>>
                         /\ Len(out.data) = Len(s.data)
                         /\ \A i \in DOMAIN s.data : SameDelta(s.data[i], out.data[i])
                    /\ c.op # "GetData" =>
                         /\ Len(out.messages) = Len(s.messages)
                         /\ \A i \in DOMAIN s.messages : \E j \in DOMAIN out.messages :
                              SameMessage(s.messages[i], out.messages[j])
<1> DEFINE t == WrittenResponse(s)
           op == c.op
           schema == UserResponseUnionProto[s.type]
<1>1. /\ IsList(s.messages) /\ \A i \in DOMAIN s.messages : IsMessage(s.messages[i])
      /\ ReadLog(t) = s.log
      /\ s.type = "GetDataResponseProto" =>
           IsList(s.data) /\ \A i \in DOMAIN s.data : IsStored(s.data[i])
  BY MeantFacts
<1>2. /\ ResponseType(t) = s.type
      /\ \A f : ResponseField(t, f) = Read(schema, Create(schema, ResponseOf(s)), f)
  BY ResponseFacts
<1>3. op \in DOMAIN ResponseTypes
  BY CallsAssumption DEF CallsAssumption
<1>4. CASE s.type = "ErrorCodeResponseProto"
  <2> DEFINE given == [errorCode |-> s.code]
  <2>1. ResponseOf(s) = given
    BY <1>4 DEF ResponseOf
  <2>2. "errorCode" \in DOMAIN given /\ given["errorCode"] = s.code
    OBVIOUS
  <2> HIDE DEF given, schema
  <2>3. ResponseField(t, "errorCode") = s.code
    BY <1>2, <2>1, <2>2, ReadCreate
  <2> HIDE DEF t
  <2>4. out = IF s.code = 0 THEN Throws ELSE [platformException |-> s.code, log |-> s.log]
    BY <1>1, <1>2, <1>4, <2>3 DEF ReadResponse, t
  <2> QED
    BY <1>4, <2>4
<1>5. CASE s.type = "ExceptionResponseProto"
  <2> DEFINE given == [stack |-> s.stack, message |-> s.message]
  <2>1. ResponseOf(s) = given
    BY <1>5 DEF ResponseOf
  <2>2. /\ "stack" \in DOMAIN given /\ given["stack"] = s.stack
        /\ "message" \in DOMAIN given /\ given["message"] = s.message
    OBVIOUS
  <2> HIDE DEF given, schema
  <2>3. ResponseField(t, "stack") = s.stack /\ ResponseField(t, "message") = s.message
    BY <1>2, <2>1, <2>2, ReadCreate
  <2> HIDE DEF t
  <2>4. out = [stack |-> OrEmpty(s.stack), message |-> OrEmpty(s.message), log |-> s.log]
    BY <1>1, <1>2, <1>5, <2>3 DEF ReadResponse, t
  <2> QED
    BY <1>5, <2>4
<1>6. CASE s.type \notin {"ErrorCodeResponseProto", "ExceptionResponseProto"}
  <2> DEFINE h == Handled(ReadMessages(s), op)
             data == ReadAllOf(ReadData, ResponseField(t, "data"))
             value == ResponseField(t, "returnValue")
  <2>1. /\ s.type = ResponseTypes[op]
        /\ op \in {"CallServiceMethod", "SaveData"} \/ s.messages = <<>>
        /\ h # Throws
        /\ op = "CallServiceMethod" =>
             out = [value |-> DeserializeValue[value], messages |-> h, log |-> s.log]
        /\ op = "GetData" => data # Throws /\ out = [data |-> data, log |-> s.log]
        /\ op \notin {"CallServiceMethod", "GetData"} => out = [messages |-> h, log |-> s.log]
    BY <1>1, <1>6, AnswerFacts
  <2>2. /\ Len(h) = Len(s.messages)
        /\ \A i \in DOMAIN s.messages : \E j \in DOMAIN h : SameMessage(s.messages[i], h[j])
    BY <1>1, <2>1, MessagesFacts
  <2> HIDE DEF h, value
  <2>3. CASE op = "GetData"
    <3> DEFINE written == [i \in DOMAIN s.data |-> WrittenData(s.data[i])]
               given == [data |-> written]
    <3>1. s.type = "GetDataResponseProto"
      BY <2>1, <2>3 DEF ResponseTypes
    <3>2. ResponseOf(s) = given
      BY <3>1 DEF ResponseOf
    <3> HIDE DEF written
    <3>3. "data" \in DOMAIN given /\ given["data"] = written
      OBVIOUS
    <3> HIDE DEF given, schema
    <3>4. ResponseField(t, "data") = written
      BY <1>2, <3>2, <3>3, ReadCreate
    <3>5. data = ReadAllOf(ReadData, written)
      BY <3>4
    <3>6. Len(data) = Len(s.data) /\ \A i \in DOMAIN s.data : SameDelta(s.data[i], data[i])
      BY <1>1, <2>1, <2>3, <3>1, <3>5, DataRead DEF written
    <3> HIDE DEF data, t
    <3>7. out.data = data /\ out.log = s.log /\ s.messages = <<>>
      BY <2>1, <2>3
    <3> QED
      BY <1>6, <2>1, <2>3, <3>6, <3>7
  <2>4. CASE op # "GetData"
    <3> HIDE DEF data, t
    <3>1. out.messages = h /\ out.log = s.log
      BY <2>1, <2>4
    <3> QED
      BY <1>6, <2>1, <2>2, <2>4, <3>1
  <2> QED
    BY <2>3, <2>4
<1> QED
  BY <1>4, <1>5, <1>6

\* A message that arrives by itself is handled for its own worker only.
LEMMA PushedAsMeant ==
  ASSUME NEW p \in Pushes, ReadPush(WrittenPush(p)) # Throws
  PROVE  p.worker = Worker /\ SameMessage(p, ReadPush(WrittenPush(p)))
<1> DEFINE t == WrittenPush(p)
           message == WrittenMessage(p)
           given == [logContext |-> "log", workerId |-> p.worker.id,
                     workerVersion |-> p.worker.version, message |-> message]
<1>1. IsMessage(p) /\ p.worker = [id |-> p.worker.id, version |-> p.worker.version]
  BY SaysAssumption DEF SaysAssumption
<1>2. t = Create(RiverUserMessageProto, given)
  BY DEF WrittenPush
<1> HIDE DEF t, message
<1>3. /\ "workerId" \in DOMAIN given /\ given["workerId"] = p.worker.id
      /\ "workerVersion" \in DOMAIN given /\ given["workerVersion"] = p.worker.version
      /\ "message" \in DOMAIN given /\ given["message"] = message
  OBVIOUS
<1> HIDE DEF given
<1>4. /\ Read(RiverUserMessageProto, t, "workerId") = p.worker.id
      /\ Read(RiverUserMessageProto, t, "workerVersion") = p.worker.version
      /\ Read(RiverUserMessageProto, t, "message") = message
  BY <1>2, <1>3, ReadCreate
<1>5. ReadPush(t) = IF p.worker = Worker THEN ReadMessage(message) ELSE Throws
  BY <1>1, <1>4 DEF ReadPush
<1>6. p.worker = Worker /\ ReadPush(t) = ReadMessage(message)
  BY <1>5 DEF t
<1>7. SameMessage(p, ReadMessage(message))
  BY <1>1, <1>6, MessageFacts DEF message, t
<1> QED
  BY <1>6, <1>7 DEF t

\* What the client makes of a response or a message is what the worker meant by it: an
\* error is never taken for success nor one kind of answer for another, and a message is
\* handled by a client of the same worker and version only (serde.ts:515-602,
\* river-client.ts:44-125).
THEOREM ReceivedAsMeantHolds == Spec => []ReceivedAsMeant
<1>1. Told => ReceivedAsMeant
  <2> SUFFICES ASSUME Told, pc = "done", outcome # Throws PROVE ReceivedAsMeant
    BY DEF ReceivedAsMeant
  <2>1. CASE call # Null /\ said # Null
    <3>1. /\ heap \in Heaps /\ call \in Calls /\ ~Refused(call) /\ said \in Meant(call)
          /\ outcome = ReadResponse(call.op, WrittenResponse(said))
      BY <2>1, ToldAnswer
    <3> QED
      BY <2>1, <3>1, AnsweredAsMeant DEF ReceivedAsMeant
  <2>2. CASE call = Null
    <3>1. said \in Pushes /\ outcome = ReadPush(WrittenPush(said))
      BY <2>2, NullAssumption DEF Told, AskedOf, NullAssumption
    <3>2. said.worker = Worker /\ SameMessage(said, outcome)
      BY <3>1, PushedAsMeant
    <3> QED
      BY <2>2, <3>2 DEF ReceivedAsMeant
  <2>3. CASE call # Null /\ said = Null
    BY <2>3 DEF ReceivedAsMeant
  <2> QED
    BY <2>1, <2>2, <2>3
<1> QED
  BY <1>1, ToldHolds, PTL

=============================================================================
