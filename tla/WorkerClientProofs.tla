------------------------- MODULE WorkerClientProofs -------------------------
(***************************************************************************)
(* Proofs about WorkerClient, for any programs that are deployed.          *)
(***************************************************************************)
EXTENDS WorkerClient, TLAPS, FiniteSetTheorems, SequenceTheorems, WellFoundedInduction

-----------------------------------------------------------------------------
(* Listings, and what is picked from a sequence.                           *)

\* The sets that say what is before an element grow from each to the next.
IsChain(upto) ==
    \A x, y \in DOMAIN upto :
      /\ x \in upto[x] /\ upto[x] \subseteq DOMAIN upto
      /\ x # y => \/ upto[x] \subseteq upto[y] /\ y \notin upto[x]
                  \/ upto[y] \subseteq upto[x] /\ x \notin upto[y]

LEMMA ListingFacts ==
  ASSUME NEW upto, IsFiniteSet(DOMAIN upto), IsChain(upto)
  PROVE  LET S == DOMAIN upto
             n == Cardinality(S)
             at == Listing(upto)
         IN  /\ n \in Nat /\ at \in [1..n -> S]
             /\ \A x \in S : \E k \in 1..n : at[k] = x
             /\ \A k, l \in 1..n : at[k] = at[l] => k = l
             /\ \A k, l \in 1..n : at[k] \in upto[at[l]] <=> k <= l
<1> DEFINE S == DOMAIN upto
           n == Cardinality(S)
           at == Listing(upto)
           rank == [x \in S |-> Cardinality(upto[x])]
<1>1. n \in Nat /\ IsFiniteSet(1..n) /\ Cardinality(1..n) = n
  <2>1. n \in Nat
    BY FS_CardinalityType
  <2> HIDE DEF n
  <2>2. 1 \in Int /\ n \in Int
    BY <2>1
  <2>3. IsFiniteSet(1..n) /\ Cardinality(1..n) = IF 1 > n THEN 0 ELSE n - 1 + 1
    BY <2>2, FS_Interval
  <2> QED
    BY <2>1, <2>3
<1>2. \A x \in S : /\ IsFiniteSet(upto[x]) /\ Cardinality(upto[x]) \in 1..n
  <2> SUFFICES ASSUME NEW x \in S
               PROVE  IsFiniteSet(upto[x]) /\ Cardinality(upto[x]) \in 1..n
    OBVIOUS
  <2>1. upto[x] \in SUBSET S /\ x \in upto[x]
    BY DEF IsChain
  <2>2. IsFiniteSet(upto[x]) /\ Cardinality(upto[x]) <= n
    BY <2>1, FS_Subset
  <2>3. Cardinality(upto[x]) \in Nat /\ Cardinality(upto[x]) # 0
    BY <2>1, <2>2, FS_CardinalityType, FS_EmptySet
  <2> HIDE DEF n
  <2> QED
    BY <1>1, <2>2, <2>3
<1>3. ASSUME NEW x \in S, NEW y \in S, upto[x] \subseteq upto[y], y \notin upto[x]
      PROVE  Cardinality(upto[x]) < Cardinality(upto[y])
  <2>1. upto[x] \in SUBSET upto[y] /\ upto[x] # upto[y]
    BY <1>3 DEF IsChain
  <2>2. /\ Cardinality(upto[x]) <= Cardinality(upto[y])
        /\ Cardinality(upto[x]) # Cardinality(upto[y])
    BY <1>2, <2>1, FS_Subset
  <2> QED
    BY <1>2, <2>2
<1>4. \A x, y \in S : x # y => rank[x] # rank[y]
  <2> SUFFICES ASSUME NEW x \in S, NEW y \in S, x # y
               PROVE  Cardinality(upto[x]) # Cardinality(upto[y])
    OBVIOUS
  <2>1. \/ Cardinality(upto[x]) < Cardinality(upto[y])
        \/ Cardinality(upto[y]) < Cardinality(upto[x])
    BY <1>3 DEF IsChain
  <2> QED
    BY <1>2, <2>1
<1>5. rank \in Injection(S, 1..n)
  BY <1>2, <1>4 DEF Injection, IsInjective
<1>6. rank \in Surjection(S, 1..n)
  <2> HIDE DEF rank, n, S
  <2>1. IsFiniteSet(S) /\ Cardinality(S) = Cardinality(1..n)
    BY <1>1 DEF S, n
  <2> QED
    BY <1>1, <1>5, <2>1, FS_Injection
<1>7. \A k \in 1..n : \E x \in S : Cardinality(upto[x]) = k
  BY <1>6 DEF Surjection
<1>8. \A k \in 1..n : at[k] \in S /\ Cardinality(upto[at[k]]) = k
  <2> SUFFICES ASSUME NEW k \in 1..n
               PROVE  at[k] \in S /\ Cardinality(upto[at[k]]) = k
    OBVIOUS
  <2>1. at[k] = CHOOSE x \in S : Cardinality(upto[x]) = k
    BY DEF Listing
  <2> HIDE DEF at
  <2> QED
    BY <1>7, <2>1
<1>9. at \in [1..n -> S]
  <2>1. at = [k \in 1..n |-> CHOOSE x \in S : Cardinality(upto[x]) = k]
    BY DEF Listing
  <2>2. at = [k \in 1..n |-> at[k]]
    BY <2>1
  <2> HIDE DEF at
  <2> QED
    BY <1>8, <2>2
<1> HIDE DEF at, n
<1>10. \A x \in S : \E k \in 1..n : at[k] = x
  BY <1>2, <1>4, <1>8
<1>11. \A k, l \in 1..n : at[k] = at[l] => k = l
  BY <1>8
<1>12. ASSUME NEW k \in 1..n, NEW l \in 1..n
       PROVE  at[k] \in upto[at[l]] <=> k <= l
  <2>1. CASE at[k] = at[l]
    BY <1>1, <1>8, <1>11, <2>1 DEF IsChain
  <2>2. CASE upto[at[k]] \subseteq upto[at[l]] /\ at[l] \notin upto[at[k]]
    <3>1. k < l
      BY <1>3, <1>8, <2>2
    <3>2. at[k] \in upto[at[l]]
      BY <1>8, <2>2 DEF IsChain
    <3> QED
      BY <1>1, <3>1, <3>2
  <2>3. CASE upto[at[l]] \subseteq upto[at[k]] /\ at[k] \notin upto[at[l]]
    <3>1. l < k
      BY <1>3, <1>8, <2>3
    <3> QED
      BY <1>1, <2>3, <3>1
  <2> QED
    BY <1>8, <2>1, <2>2, <2>3 DEF IsChain
<1> QED
  BY <1>1, <1>9, <1>10, <1>11, <1>12 DEF at, n

\* A function on the first numbers is a sequence.
LEMMA ListIsSequence ==
  ASSUME NEW n \in Nat, NEW s, s = [k \in 1..n |-> s[k]]
  PROVE  IsSequence(s) /\ Len(s) = n
<1>1. s \in [1..n -> ToSet(s)]
  BY DEF ToSet
<1>2. s \in Seq(ToSet(s))
  BY <1>1, SeqDef
<1> QED
  BY <1>1, <1>2, LenProperties DEF IsSequence

LEMMA SequenceFacts ==
  ASSUME NEW s, IsSequence(s)
  PROVE  Len(s) \in Nat /\ DOMAIN s = 1..Len(s) /\ s = [k \in 1..Len(s) |-> s[k]]
  BY LenProperties DEF IsSequence

LEMMA PickFacts ==
  ASSUME NEW s, IsSequence(s), NEW I \in SUBSET (DOMAIN s)
  PROVE  LET n == Cardinality(I)
             at == InOrder(I)
         IN  /\ n \in Nat /\ at \in [1..n -> I]
             /\ \A i \in I : \E k \in 1..n : at[k] = i
             /\ \A k, l \in 1..n : at[k] = at[l] => k = l
             /\ \A k, l \in 1..n : at[k] <= at[l] <=> k <= l
             /\ Pick(s, I) = [k \in 1..n |-> s[at[k]]]
<1> DEFINE upto == [i \in I |-> {j \in I : j <= i}]
           n == Cardinality(I)
           at == InOrder(I)
           m == Len(s)
<1>1. DOMAIN upto = I /\ m \in Nat /\ DOMAIN s = 1..m
  BY SequenceFacts
<1> HIDE DEF m
<1>2. IsFiniteSet(I)
  <2>1. 1 \in Int /\ m \in Int
    BY <1>1
  <2>2. IsFiniteSet(1..m) /\ I \in SUBSET (1..m)
    BY <1>1, <2>1, FS_Interval
  <2> QED
    BY <2>2, FS_Subset
<1>3. IsChain(upto)
  <2>1. \A x \in I : x \in upto[x] /\ upto[x] \subseteq I
    BY <1>1
  <2>2. ASSUME NEW x \in I, NEW y \in I, x < y
        PROVE  upto[x] \subseteq upto[y] /\ y \notin upto[x]
    <3>1. \A j \in I : j <= x => j <= y
      BY <1>1, <2>2
    <3>2. ~ (y <= x)
      BY <1>1, <2>2
    <3> QED
      BY <3>1, <3>2
  <2>3. \A x, y \in I : x # y => x < y \/ y < x
    BY <1>1
  <2> HIDE DEF upto
  <2> QED
    BY <1>1, <2>1, <2>2, <2>3 DEF IsChain
<1>4. at = Listing(upto)
  BY DEF InOrder
<1> HIDE DEF at
<1>5. /\ n \in Nat /\ at \in [1..n -> I]
      /\ \A i \in I : \E k \in 1..n : at[k] = i
      /\ \A k, l \in 1..n : at[k] = at[l] => k = l
      /\ \A k, l \in 1..n : at[k] \in upto[at[l]] <=> k <= l
  <2> HIDE DEF upto
  <2> QED
    BY <1>1, <1>2, <1>3, <1>4, ListingFacts
<1>6. \A k, l \in 1..n : at[k] <= at[l] <=> k <= l
  BY <1>5
<1>7. Pick(s, I) = [k \in 1..n |-> s[at[k]]]
  <2>1. DOMAIN at = 1..n
    BY <1>5
  <2> QED
    BY <2>1 DEF Pick, at, InOrder
<1> QED
  BY <1>5, <1>6, <1>7 DEF at

\* What is picked from a sequence, and in which order.
LEMMA PickIsSequence ==
  ASSUME NEW s, IsSequence(s), NEW I \in SUBSET (DOMAIN s)
  PROVE  /\ IsSequence(Pick(s, I)) /\ Len(Pick(s, I)) = Cardinality(I)
         /\ ToSet(Pick(s, I)) = {s[i] : i \in I}
         /\ Pick(s, I) = <<>> <=> I = {}
<1> DEFINE n == Cardinality(I)
           at == InOrder(I)
           p == Pick(s, I)
<1>1. Len(s) \in Nat /\ DOMAIN s = 1..Len(s)
  BY SequenceFacts
<1>2. /\ n \in Nat /\ at \in [1..n -> I]
      /\ \A i \in I : \E k \in 1..n : at[k] = i
      /\ p = [k \in 1..n |-> s[at[k]]]
  BY PickFacts
<1> HIDE DEF n, at, p
<1>3. p = [k \in 1..n |-> p[k]]
  BY <1>2
<1>4. IsSequence(p) /\ Len(p) = n
  BY <1>2, <1>3, ListIsSequence
<1>5. ToSet(p) = {s[i] : i \in I}
  BY <1>2 DEF ToSet
<1>6. p = <<>> <=> I = {}
  <2>1. p \in Seq(ToSet(p))
    BY <1>4 DEF IsSequence
  <2>2. p = <<>> <=> Len(p) = 0
    BY <2>1, EmptySeq
  <2>3. I = {} <=> 1..n = {}
    BY <1>2
  <2>4. n = 0 <=> 1..n = {}
    BY <1>2
  <2> QED
    BY <1>4, <2>2, <2>3, <2>4
<1> QED
  BY <1>4, <1>5, <1>6 DEF n, p

-----------------------------------------------------------------------------
(* The declarations of a program.                                          *)

\* All that the order of the declarations needs to know.
HasDecls(p) == IsSequence(p) /\ \A i \in DOMAIN p : IsSequence(p[i].decls)

\* What the parser finds of a kind.
Seen(d, is) == d.is = is /\ ~d.byDefault

PlacesInOrder(p, is) ==
    Listing([x \in Places(p, is) |-> {y \in Places(p, is) : NotAfter(y, x)}])

At(p, x) == InFile(p[x[1]].decls[x[2]], x[1])

LEMMA FinitePlaces ==
  ASSUME NEW p, HasDecls(p), NEW is
  PROVE  /\ IsFiniteSet(Places(p, is))
         /\ \A x : x \in Places(p, is) <=>
              \E i \in DOMAIN p : \E j \in DOMAIN p[i].decls :
                 x = <<i, j>> /\ Seen(p[i].decls[j], is)
         /\ \A x \in Places(p, is) : x = <<x[1], x[2]>> /\ x[1] \in Nat /\ x[2] \in Nat
<1> DEFINE Lines == [i \in DOMAIN p |-> {i} \X DOMAIN p[i].decls]
           All == {Lines[i] : i \in DOMAIN p}
<1>1. Len(p) \in Nat /\ DOMAIN p = 1..Len(p) /\ IsFiniteSet(DOMAIN p)
  <2>1. Len(p) \in Nat /\ DOMAIN p = 1..Len(p)
    BY SequenceFacts DEF HasDecls
  <2>2. 1 \in Int /\ Len(p) \in Int
    BY <2>1
  <2> QED
    BY <2>1, <2>2, FS_Interval
<1>2. \A i \in DOMAIN p : IsFiniteSet(Lines[i])
  <2> SUFFICES ASSUME NEW i \in DOMAIN p PROVE IsFiniteSet({i} \X DOMAIN p[i].decls)
    OBVIOUS
  <2> DEFINE n == Len(p[i].decls)
  <2>1. n \in Nat /\ DOMAIN p[i].decls = 1..n
    BY SequenceFacts DEF HasDecls
  <2> HIDE DEF n
  <2>2. 1 \in Int /\ n \in Int
    BY <2>1
  <2>3. IsFiniteSet(1..n) /\ IsFiniteSet({i})
    BY <2>2, FS_Interval, FS_Singleton
  <2> QED
    BY <2>1, <2>3, FS_Product
<1>3. IsFiniteSet(All)
  <2>1. Lines \in Surjection(DOMAIN p, All)
    BY DEF Surjection
  <2> HIDE DEF Lines, All
  <2> QED
    BY <1>1, <2>1, FS_Surjection
<1>4. IsFiniteSet(UNION All)
  <2>1. \A L \in All : IsFiniteSet(L)
    BY <1>2
  <2> HIDE DEF All
  <2> QED
    BY <1>3, <2>1, FS_UNION
<1>5. Places(p, is) = {x \in UNION All : Seen(p[x[1]].decls[x[2]], is)}
  <2>1. All = {{i} \X DOMAIN p[i].decls : i \in DOMAIN p}
    OBVIOUS
  <2> HIDE DEF All
  <2> QED
    BY <2>1 DEF Places, Seen
<1>6. IsFiniteSet(Places(p, is))
  <2> HIDE DEF All
  <2>1. Places(p, is) \in SUBSET UNION All
    BY <1>5
  <2> QED
    BY <1>4, <2>1, FS_Subset
<1>7. ASSUME NEW x
      PROVE  x \in Places(p, is) <=>
               \E i \in DOMAIN p : \E j \in DOMAIN p[i].decls :
                 x = <<i, j>> /\ Seen(p[i].decls[j], is)
  <2>1. x \in UNION All <=> \E i \in DOMAIN p : \E j \in DOMAIN p[i].decls : x = <<i, j>>
    OBVIOUS
  <2> HIDE DEF All
  <2> QED
    BY <1>5, <2>1
<1>8. \A x \in Places(p, is) : x = <<x[1], x[2]>> /\ x[1] \in Nat /\ x[2] \in Nat
  <2> SUFFICES ASSUME NEW x \in Places(p, is)
               PROVE  x = <<x[1], x[2]>> /\ x[1] \in Nat /\ x[2] \in Nat
    OBVIOUS
  <2>1. PICK i \in DOMAIN p : \E j \in DOMAIN p[i].decls : x = <<i, j>>
    BY <1>7
  <2>2. PICK j \in DOMAIN p[i].decls : x = <<i, j>>
    BY <2>1
  <2>3. Len(p[i].decls) \in Nat /\ DOMAIN p[i].decls = 1..Len(p[i].decls)
    BY SequenceFacts DEF HasDecls
  <2>4. i \in Nat /\ j \in Nat
    BY <1>1, <2>3
  <2> QED
    BY <2>2, <2>4
<1> QED
  BY <1>6, <1>7, <1>8

LEMMA DeclsFacts ==
  ASSUME NEW p, HasDecls(p), NEW is
  PROVE  LET S == Places(p, is)
             n == Cardinality(S)
             at == PlacesInOrder(p, is)
         IN  /\ n \in Nat /\ at \in [1..n -> S]
             /\ \A x \in S : \E k \in 1..n : at[k] = x
             /\ \A k, l \in 1..n : at[k] = at[l] => k = l
             /\ Decls(p, is) = [k \in 1..n |-> At(p, at[k])]
<1> DEFINE S == Places(p, is)
           n == Cardinality(S)
           at == PlacesInOrder(p, is)
           upto == [x \in S |-> {y \in S : NotAfter(y, x)}]
<1>1. DOMAIN upto = S /\ \A x \in S : upto[x] = {y \in S : NotAfter(y, x)}
  OBVIOUS
<1>2. \A x \in S : x = <<x[1], x[2]>> /\ x[1] \in Nat /\ x[2] \in Nat
  BY FinitePlaces
<1>3. IsChain(upto)
  <2> HIDE DEF S, upto
  <2>1. \A x \in S : x \in upto[x] /\ upto[x] \subseteq S
    BY <1>1, <1>2 DEF NotAfter
  <2>2. ASSUME NEW x \in S, NEW y \in S, NotAfter(x, y), x # y
        PROVE  upto[x] \subseteq upto[y] /\ y \notin upto[x]
    <3>1. ~ NotAfter(y, x)
      BY <1>2, <2>2 DEF NotAfter
    <3>2. \A z \in S : NotAfter(z, x) => NotAfter(z, y)
      BY <1>2, <2>2 DEF NotAfter
    <3> QED
      BY <1>1, <3>1, <3>2
  <2>3. \A x, y \in S : NotAfter(x, y) \/ NotAfter(y, x)
    BY <1>2 DEF NotAfter
  <2> QED
    BY <1>1, <2>1, <2>2, <2>3 DEF IsChain
<1>4. at = Listing(upto) /\ IsFiniteSet(S)
  BY FinitePlaces DEF PlacesInOrder
<1>5. /\ n \in Nat /\ at \in [1..n -> S]
      /\ \A x \in S : \E k \in 1..n : at[k] = x
      /\ \A k, l \in 1..n : at[k] = at[l] => k = l
  <2> HIDE DEF upto, at, S
  <2> QED
    BY <1>1, <1>3, <1>4, ListingFacts
<1>6. Decls(p, is) = [k \in 1..n |-> At(p, at[k])]
  <2>1. DOMAIN at = 1..n
    BY <1>5
  <2>2. Decls(p, is) = [k \in DOMAIN at |-> InFile(p[at[k][1]].decls[at[k][2]], at[k][1])]
    BY DEF Decls, PlacesInOrder
  <2> HIDE DEF at, S
  <2> QED
    BY <2>1, <2>2 DEF At
<1> QED
  BY <1>5, <1>6

\* The declarations are a sequence of those at the places, each once.
LEMMA DeclsAreSequence ==
  ASSUME NEW p, HasDecls(p), NEW is
  PROVE  /\ IsSequence(Decls(p, is))
         /\ ToSet(Decls(p, is)) = {At(p, x) : x \in Places(p, is)}
<1> DEFINE S == Places(p, is)
           n == Cardinality(S)
           at == PlacesInOrder(p, is)
           s == Decls(p, is)
<1>1. /\ n \in Nat /\ at \in [1..n -> S]
      /\ \A x \in S : \E k \in 1..n : at[k] = x
      /\ s = [k \in 1..n |-> At(p, at[k])]
  BY DeclsFacts
<1> HIDE DEF S, n, at, s
<1>2. s = [k \in 1..n |-> s[k]]
  BY <1>1
<1>3. IsSequence(s)
  BY <1>1, <1>2, ListIsSequence
<1>4. ToSet(s) = {At(p, x) : x \in S}
  BY <1>1 DEF ToSet
<1> QED
  BY <1>3, <1>4 DEF s, S

\* Names are not taken if there are as many of them as declarations.
LEMMA NamesTaken ==
  ASSUME NEW s, IsSequence(s)
  PROVE  NamesAreTaken(s) <=> Cardinality({s[i].name : i \in DOMAIN s}) # Len(s)
<1> DEFINE S == DOMAIN s
           T == {s[i].name : i \in S}
           f == [i \in S |-> s[i].name]
<1>1. Len(s) \in Nat /\ S = 1..Len(s)
  BY SequenceFacts
<1>2. IsFiniteSet(S) /\ Cardinality(S) = Len(s)
  <2>1. 1 \in Int /\ Len(s) \in Int
    BY <1>1
  <2>2. /\ IsFiniteSet(1..Len(s))
        /\ Cardinality(1..Len(s)) = IF 1 > Len(s) THEN 0 ELSE Len(s) - 1 + 1
    BY <2>1, FS_Interval
  <2> QED
    BY <1>1, <2>2
<1>3. f \in Surjection(S, T)
  BY DEF Surjection
<1>4. f \in Injection(S, T) <=> ~ NamesAreTaken(s)
  BY DEF Injection, IsInjective, NamesAreTaken
<1> HIDE DEF f, S, T
<1>5. Cardinality(T) = Cardinality(S) <=> f \in Injection(S, T)
  BY <1>2, <1>3, FS_Surjection
<1> QED
  BY <1>2, <1>4, <1>5 DEF T, S

\* The fields of a declaration with its file.
LEMMA InFileFields ==
  ASSUME NEW d, NEW i
  PROVE  /\ d.is = "class" /\ DOMAIN d = {"is", "name", "byDefault", "base", "ctor", "members"} =>
              LET e == InFile(d, i)
              IN  /\ e.is = d.is /\ e.name = d.name /\ e.base = d.base /\ e.ctor = d.ctor
                  /\ e.members = d.members /\ e.file = i
         /\ DOMAIN d = {"is", "name", "byDefault", "plain"} =>
              LET e == InFile(d, i) IN e.is = d.is /\ e.name = d.name /\ e.plain = d.plain
  BY DEF InFile

LEMMA TakenPlaces ==
  ASSUME NEW p, HasDecls(p), NEW is
  PROVE  NamesAreTaken(Decls(p, is)) <=>
           \E x, y \in Places(p, is) : x # y /\ At(p, x).name = At(p, y).name
<1> DEFINE S == Places(p, is)
           n == Cardinality(S)
           at == PlacesInOrder(p, is)
           s == Decls(p, is)
<1>1. /\ n \in Nat /\ at \in [1..n -> S]
      /\ \A x \in S : \E k \in 1..n : at[k] = x
      /\ \A k, l \in 1..n : at[k] = at[l] => k = l
      /\ s = [k \in 1..n |-> At(p, at[k])]
  BY DeclsFacts
<1> HIDE DEF S, n, at, s
<1>2. ASSUME NamesAreTaken(s)
      PROVE  \E x, y \in S : x # y /\ At(p, x).name = At(p, y).name
  <2>1. PICK k \in 1..n, l \in 1..n : k # l /\ s[k].name = s[l].name
    BY <1>1, <1>2 DEF NamesAreTaken
  <2> QED
    BY <1>1, <2>1
<1>3. ASSUME NEW x \in S, NEW y \in S, x # y, At(p, x).name = At(p, y).name
      PROVE  NamesAreTaken(s)
  <2>1. PICK k \in 1..n : at[k] = x
    BY <1>1
  <2>2. PICK l \in 1..n : at[l] = y
    BY <1>1
  <2>3. k # l /\ k \in DOMAIN s /\ l \in DOMAIN s /\ s[k] = At(p, x) /\ s[l] = At(p, y)
    BY <1>1, <1>3, <2>1, <2>2
  <2> QED
    BY <1>3, <2>3 DEF NamesAreTaken
<1> QED
  BY <1>2, <1>3 DEF s, S

-----------------------------------------------------------------------------
(* What runs in the worker.                                                *)

IsClassDecl(d) == IsDeclaration(d) /\ d.is = "class"

LEMMA ClassDeclFacts ==
  ASSUME NEW d, IsClassDecl(d)
  PROVE  /\ DOMAIN d = {"is", "name", "byDefault", "base", "ctor", "members"} /\ d.is = "class"
         /\ d.ctor \in {Null, "odd", "bad", "good"}
         /\ IsSequence(d.members) /\ \A i \in DOMAIN d.members : IsMember(d.members[i])
<1>1. DOMAIN d # {"is", "name", "byDefault", "plain"} \/ d.is # "function"
  BY DEF IsClassDecl
<1> QED
  BY <1>1 DEF IsClassDecl, IsDeclaration, ToSet

Kept(d) == {i \in DOMAIN d.members : d.members[i].kind # "property"}

\* A member keeps its name and all else but async.
SameButAsync(a, b) ==
    /\ a.kind = b.kind /\ a.name = b.name /\ a.static = b.static /\ a.promise = b.promise
    /\ a.computed = b.computed /\ a.plain = b.plain

LEMMA WorkerMembersFacts ==
  ASSUME NEW d, IsClassDecl(d)
  PROVE  LET n == Cardinality(Kept(d))
             at == InOrder(Kept(d))
             w == WorkerMembers(d)
         IN  /\ n \in Nat /\ at \in [1..n -> Kept(d)]
             /\ \A i \in Kept(d) : \E k \in 1..n : at[k] = i
             /\ \A k, l \in 1..n : at[k] <= at[l] <=> k <= l
             /\ IsSequence(w) /\ DOMAIN w = 1..n
             /\ \A k \in 1..n : SameButAsync(w[k], d.members[at[k]])
<1> DEFINE n == Cardinality(Kept(d))
           at == InOrder(Kept(d))
           w == WorkerMembers(d)
           s == Pick(d.members, Kept(d))
<1>1. IsSequence(d.members) /\ Kept(d) \in SUBSET (DOMAIN d.members)
  BY ClassDeclFacts DEF Kept
<1>2. /\ n \in Nat /\ at \in [1..n -> Kept(d)]
      /\ \A i \in Kept(d) : \E k \in 1..n : at[k] = i
      /\ \A k, l \in 1..n : at[k] <= at[l] <=> k <= l
      /\ s = [k \in 1..n |-> d.members[at[k]]]
  BY <1>1, PickFacts
<1>3. w = [i \in DOMAIN s |-> [s[i] EXCEPT !.async = @ /\ ~HasBaseClass("Service", d)]]
  BY DEF WorkerMembers, Select, Kept
<1> HIDE DEF n, at, w, s
<1>4. DOMAIN w = 1..n /\ w = [k \in 1..n |-> w[k]]
  BY <1>2, <1>3
<1>5. IsSequence(w)
  BY <1>2, <1>4, ListIsSequence
<1>6. ASSUME NEW k \in 1..n
      PROVE  SameButAsync(w[k], d.members[at[k]])
  <2>1. at[k] \in DOMAIN d.members /\ s[k] = d.members[at[k]]
    BY <1>2 DEF Kept
  <2>2. IsMember(s[k])
    BY <2>1, ClassDeclFacts
  <2>3. w[k] = [s[k] EXCEPT !.async = @ /\ ~HasBaseClass("Service", d)]
    BY <1>2, <1>3
  <2> QED
    BY <2>1, <2>2, <2>3 DEF SameButAsync, IsMember
<1> QED
  BY <1>2, <1>4, <1>5, <1>6 DEF n, at, w

-----------------------------------------------------------------------------
(* The files of a client.                                                  *)

\* Files are only written to a directory that holds those of the version being
\* written: it was emptied after that version was asked for.
WrittenVersion ==
    /\ connect = [pc |-> connect.pc, version |-> connect.version, left |-> connect.left]
    /\ connect.pc = "write" => \A f \in DOMAIN dir : dir[f].version = connect.version
    /\ ClientIsOfOneVersion

LEMMA WrittenVersionInit == Init => WrittenVersion
  BY DEF Init, NotConnecting, WrittenVersion, ClientIsOfOneVersion

LEMMA WrittenVersionNext == WrittenVersion /\ [Next]_vars => WrittenVersion'
<1> SUFFICES ASSUME WrittenVersion, [Next]_vars
             PROVE  WrittenVersion'
  OBVIOUS
<1>1. ASSUME UNCHANGED <<connect, dir>>
      PROVE  WrittenVersion'
  BY <1>1 DEF WrittenVersion, ClientIsOfOneVersion
<1>2. CASE \E p \in IF jayne.version = 0 THEN Programs ELSE NextPrograms : Stage(p)
  BY <1>1, <1>2 DEF Stage
<1>3. CASE Compile
  BY <1>1, <1>3 DEF Compile
<1>4. CASE Deploy
  BY <1>1, <1>4 DEF Deploy
<1>5. CASE Again
  BY <1>1, <1>5 DEF Again
<1>6. CASE Ask
  BY <1>6 DEF Ask, WrittenVersion, ClientIsOfOneVersion
<1>7. CASE RemoveFile
  <2>1. CASE DOMAIN dir = {}
    BY <1>7, <2>1 DEF RemoveFile, WrittenVersion, ClientIsOfOneVersion
  <2>2. CASE DOMAIN dir # {}
    <3>1. /\ connect.pc = "remove" /\ connect' = connect
          /\ dir' = [g \in DOMAIN dir' |-> dir[g]] /\ DOMAIN dir' \subseteq DOMAIN dir
      BY <1>7, <2>2 DEF RemoveFile
    <3> QED
      BY <3>1 DEF WrittenVersion, ClientIsOfOneVersion
  <2> QED
    BY <2>1, <2>2
<1>8. CASE Write
  <2>1. CASE connect.left = <<>>
    BY <1>8, <2>1 DEF Write, NotConnecting, WrittenVersion, ClientIsOfOneVersion
  <2>2. CASE connect.left # <<>>
    <3> DEFINE w == Head(connect.left)
               written == [version |-> connect.version, content |-> w.content]
    <3>1. /\ connect.pc = "write" /\ connect' = [connect EXCEPT !.left = Tail(@)]
          /\ dir' = [f \in DOMAIN dir \cup {w.file} |-> IF f = w.file THEN written ELSE dir[f]]
      BY <1>8, <2>2 DEF Write
    <3>2. connect' = [pc |-> connect.pc, version |-> connect.version, left |-> Tail(connect.left)]
      BY <3>1 DEF WrittenVersion
    <3>3. \A f \in DOMAIN dir' : dir'[f].version = connect.version
      <4> SUFFICES ASSUME NEW f \in DOMAIN dir'
                   PROVE  dir'[f].version = connect.version
        OBVIOUS
      <4>1. CASE f = w.file
        BY <3>1, <4>1
      <4>2. CASE f # w.file
        BY <3>1, <4>2 DEF WrittenVersion
      <4> QED
        BY <4>1, <4>2
    <3> QED
      BY <3>2, <3>3 DEF WrittenVersion, ClientIsOfOneVersion
  <2> QED
    BY <2>1, <2>2
<1>9. CASE Kill
  BY <1>9 DEF Kill, NotConnecting, WrittenVersion, ClientIsOfOneVersion
<1>10. CASE \E f \in IndexFiles : Load(f)
  BY <1>1, <1>10 DEF Load
<1>11. CASE Restart
  BY <1>1, <1>11 DEF Restart
<1>12. CASE UNCHANGED vars
  BY <1>1, <1>12 DEF vars
<1> QED
  BY <1>2, <1>3, <1>4, <1>5, <1>6, <1>7, <1>8, <1>9, <1>10, <1>11, <1>12 DEF Next

\* The files of a client are never of two versions of the worker, whatever is
\* deployed and wherever connecting is interrupted.
THEOREM OneVersion == Spec => []ClientIsOfOneVersion
<1>1. WrittenVersion => ClientIsOfOneVersion
  BY DEF WrittenVersion
<1> QED
  BY WrittenVersionInit, WrittenVersionNext, <1>1, PTL DEF Spec

-----------------------------------------------------------------------------
(* What is compiled.                                                       *)

WorkerDecl(d) == IF d.is = "class" THEN [d EXCEPT !.members = WorkerMembers(d)] ELSE d

\* The modules that are not declarations of types.
Code(p) == {i \in DOMAIN p : ~IsTypeDef(p[i])}

Schema(p) ==
    LET code == SchemaFiles(StageTransformer(p))
    IN  WithMembers(code, [c \in ClassesAsWritten(code) |-> WorkerMembers(c)])

LEMMA ProgramFacts ==
  ASSUME NEW p, IsProgram(p)
  PROVE  /\ IsSequence(p) /\ HasDecls(p)
         /\ \A i \in DOMAIN p :
              /\ IsFile(p[i]) /\ DOMAIN p[i] = {"dir", "name", "ext", "imports", "decls", "text"}
              /\ \A j \in DOMAIN p[i].decls : IsDeclaration(p[i].decls[j])
              /\ i \notin Code(p) => DOMAIN p[i].decls = {}
<1>1. IsSequence(p) /\ \A i \in DOMAIN p : IsFile(p[i])
  BY DEF IsProgram, ToSet
<1>2. ASSUME NEW i \in DOMAIN p
      PROVE  /\ DOMAIN p[i] = {"dir", "name", "ext", "imports", "decls", "text"}
             /\ IsSequence(p[i].decls)
             /\ \A j \in DOMAIN p[i].decls : IsDeclaration(p[i].decls[j])
             /\ i \notin Code(p) => DOMAIN p[i].decls = {}
  BY <1>1 DEF IsFile, ToSet, Code
<1> QED
  BY <1>1, <1>2 DEF HasDecls

LEMMA StagedFacts ==
  ASSUME NEW p, IsProgram(p)
  PROVE  LET s == StageTransformer(p)
         IN  /\ IsSequence(s) /\ DOMAIN s = DOMAIN p
             /\ \A i \in DOMAIN p :
                  /\ DOMAIN s[i] = {"dir", "name", "ext", "imports", "decls", "text"}
                  /\ s[i].dir = p[i].dir /\ s[i].name = p[i].name /\ s[i].ext = p[i].ext
                  /\ s[i].decls = p[i].decls /\ s[i].text = p[i].text
<1> DEFINE s == StageTransformer(p)
           imports(i) == [j \in DOMAIN p[i].imports |->
                            GetUpdatedPath(p, p[i].dir, p[i].imports[j])]
<1>1. s = [i \in DOMAIN p |-> [p[i] EXCEPT !.imports = imports(i)]]
  BY DEF StageTransformer
<1> HIDE DEF s, imports
<1>2. Len(p) \in Nat /\ DOMAIN p = 1..Len(p)
  BY ProgramFacts, SequenceFacts
<1>3. DOMAIN s = 1..Len(p) /\ s = [k \in 1..Len(p) |-> s[k]]
  BY <1>1, <1>2
<1>4. IsSequence(s)
  BY <1>2, <1>3, ListIsSequence
<1>5. ASSUME NEW i \in DOMAIN p
      PROVE  /\ DOMAIN s[i] = {"dir", "name", "ext", "imports", "decls", "text"}
             /\ s[i].dir = p[i].dir /\ s[i].name = p[i].name /\ s[i].ext = p[i].ext
             /\ s[i].decls = p[i].decls /\ s[i].text = p[i].text
  BY <1>1, ProgramFacts
<1> QED
  BY <1>2, <1>3, <1>4, <1>5 DEF s

LEMMA SchemaFacts ==
  ASSUME NEW p, IsProgram(p)
  PROVE  LET n == Cardinality(Code(p))
             at == InOrder(Code(p))
             s == Schema(p)
         IN  /\ n \in Nat /\ at \in [1..n -> Code(p)]
             /\ \A i \in Code(p) : \E k \in 1..n : at[k] = i
             /\ \A k, l \in 1..n : at[k] = at[l] => k = l
             /\ DOMAIN s = 1..n /\ HasDecls(s)
             /\ \A k \in 1..n :
                  /\ s[k].name = p[at[k]].name /\ s[k].text = p[at[k]].text
                  /\ DOMAIN s[k].decls = DOMAIN p[at[k]].decls
                  /\ \A j \in DOMAIN s[k].decls : s[k].decls[j] = WorkerDecl(p[at[k]].decls[j])
             /\ SchemaFiles(p) = <<>> <=> SchemaFiles(StageTransformer(p)) = <<>>
<1> DEFINE n == Cardinality(Code(p))
           at == InOrder(Code(p))
           s == Schema(p)
           q == StageTransformer(p)
           code == SchemaFiles(q)
           members == [c \in ClassesAsWritten(code) |-> WorkerMembers(c)]
<1>1. /\ IsSequence(q) /\ DOMAIN q = DOMAIN p
      /\ \A i \in DOMAIN p :
           /\ DOMAIN q[i] = {"dir", "name", "ext", "imports", "decls", "text"}
           /\ q[i].name = p[i].name /\ q[i].ext = p[i].ext /\ q[i].decls = p[i].decls
           /\ q[i].text = p[i].text
  BY StagedFacts
<1>2. /\ IsSequence(p) /\ Code(p) \in SUBSET (DOMAIN p)
      /\ \A i \in DOMAIN p : IsSequence(p[i].decls)
  BY ProgramFacts DEF Code, HasDecls
<1>3. Code(p) = {i \in DOMAIN q : ~IsTypeDef(q[i])}
  BY <1>1 DEF Code, IsTypeDef
<1>4. code = Pick(q, Code(p)) /\ SchemaFiles(p) = Pick(p, Code(p))
  BY <1>3 DEF SchemaFiles, Select, Code
<1>5. /\ n \in Nat /\ at \in [1..n -> Code(p)]
      /\ \A i \in Code(p) : \E k \in 1..n : at[k] = i
      /\ \A k, l \in 1..n : at[k] = at[l] => k = l
      /\ code = [k \in 1..n |-> q[at[k]]]
  BY <1>1, <1>2, <1>4, PickFacts
<1>6. SchemaFiles(p) = <<>> <=> code = <<>>
  BY <1>1, <1>2, <1>4, PickIsSequence
<1>7. s = [i \in DOMAIN code |->
            [code[i] EXCEPT
               !.decls = [j \in DOMAIN code[i].decls |->
                  LET d == code[i].decls[j]
                  IN  IF d.is = "class" THEN [d EXCEPT !.members = members[d]] ELSE d]]]
  BY DEF Schema, WithMembers
<1> HIDE DEF n, at, s, q
<1>8. ASSUME NEW k \in 1..n
      PROVE  /\ DOMAIN s[k] = {"dir", "name", "ext", "imports", "decls", "text"}
             /\ s[k].name = p[at[k]].name /\ s[k].text = p[at[k]].text
             /\ DOMAIN s[k].decls = DOMAIN p[at[k]].decls
             /\ s[k].decls = [j \in DOMAIN p[at[k]].decls |-> WorkerDecl(p[at[k]].decls[j])]
             /\ \A j \in DOMAIN s[k].decls : s[k].decls[j] = WorkerDecl(p[at[k]].decls[j])
  <2>1. at[k] \in DOMAIN p /\ code[k] = q[at[k]] /\ k \in DOMAIN code
    BY <1>2, <1>5
  <2>2. code[k].decls = p[at[k]].decls /\ code[k].name = p[at[k]].name
        /\ code[k].text = p[at[k]].text
        /\ DOMAIN code[k] = {"dir", "name", "ext", "imports", "decls", "text"}
    BY <1>1, <2>1
  <2>3. ASSUME NEW j \in DOMAIN p[at[k]].decls, p[at[k]].decls[j].is = "class"
        PROVE  members[p[at[k]].decls[j]] = WorkerMembers(p[at[k]].decls[j])
    <3>1. p[at[k]].decls[j] \in ClassesAsWritten(code)
      BY <2>1, <2>2, <2>3 DEF ClassesAsWritten, ToSet
    <3> QED
      BY <3>1
  <2> HIDE DEF members, code
  <2>4. s[k] = [code[k] EXCEPT
               !.decls = [j \in DOMAIN p[at[k]].decls |->
                  LET d == p[at[k]].decls[j]
                  IN  IF d.is = "class" THEN [d EXCEPT !.members = members[d]] ELSE d]]
    BY <1>7, <2>1, <2>2
  <2>5. s[k].decls = [j \in DOMAIN p[at[k]].decls |->
                  LET d == p[at[k]].decls[j]
                  IN  IF d.is = "class" THEN [d EXCEPT !.members = members[d]] ELSE d]
    BY <2>2, <2>4
  <2>6. s[k].decls = [j \in DOMAIN p[at[k]].decls |-> WorkerDecl(p[at[k]].decls[j])]
    BY <2>3, <2>5 DEF WorkerDecl
  <2> QED
    BY <2>2, <2>4, <2>6
<1> HIDE DEF code
<1>9. DOMAIN s = 1..n /\ s = [k \in 1..n |-> s[k]]
  BY <1>5, <1>7
<1>10. IsSequence(s)
  BY <1>5, <1>9, ListIsSequence
<1>11. ASSUME NEW k \in 1..n
       PROVE  IsSequence(s[k].decls)
  <2> DEFINE ds == s[k].decls
             old == p[at[k]].decls
  <2>1. IsSequence(old)
    BY <1>2, <1>5
  <2>2. DOMAIN ds = DOMAIN old /\ ds = [j \in DOMAIN old |-> ds[j]]
    BY <1>8
  <2>3. Len(old) \in Nat /\ DOMAIN old = 1..Len(old)
    BY <2>1, SequenceFacts
  <2> HIDE DEF ds, old
  <2>4. ds = [j \in 1..Len(old) |-> ds[j]]
    BY <2>2, <2>3
  <2>5. IsSequence(ds)
    BY <2>3, <2>4, ListIsSequence
  <2> QED
    BY <2>5 DEF ds
<1>12. HasDecls(s)
  BY <1>9, <1>10, <1>11 DEF HasDecls
<1> QED
  BY <1>5, <1>6, <1>8, <1>9, <1>12 DEF n, at, s, code, q


LEMMA WorkerDeclFacts ==
  ASSUME NEW d, IsDeclaration(d)
  PROVE  LET w == WorkerDecl(d)
         IN  /\ DOMAIN w = DOMAIN d /\ w.is = d.is /\ w.name = d.name
             /\ w.byDefault = d.byDefault /\ (d.is # "class" => w = d)
             /\ IsClassDecl(d) => w.base = d.base /\ w.ctor = d.ctor /\ w.members = WorkerMembers(d)
<1>1. CASE d.is = "class"
  <2>1. IsClassDecl(d) /\ WorkerDecl(d) = [d EXCEPT !.members = WorkerMembers(d)]
    BY <1>1 DEF IsClassDecl, WorkerDecl
  <2>2. DOMAIN d = {"is", "name", "byDefault", "base", "ctor", "members"}
    BY <2>1, ClassDeclFacts
  <2> QED
    BY <1>1, <2>1, <2>2
<1>2. CASE d.is # "class"
  BY <1>2 DEF WorkerDecl, IsClassDecl
<1> QED
  BY <1>1, <1>2

\* Where a declaration of the compiled program was written.
Source(p, x) == <<InOrder(Code(p))[x[1]], x[2]>>

DeclAt(p, x) == p[x[1]].decls[x[2]]

LEMMA PlaceFacts ==
  ASSUME NEW p, HasDecls(p), NEW is, NEW x
  PROVE  x \in Places(p, is) <=> /\ x = <<x[1], x[2]>> /\ x[1] \in DOMAIN p
                                 /\ x[2] \in DOMAIN p[x[1]].decls /\ Seen(DeclAt(p, x), is)
<1>1. ASSUME x \in Places(p, is)
      PROVE  /\ x = <<x[1], x[2]>> /\ x[1] \in DOMAIN p
             /\ x[2] \in DOMAIN p[x[1]].decls /\ Seen(DeclAt(p, x), is)
  <2>1. PICK i \in DOMAIN p : \E j \in DOMAIN p[i].decls : x = <<i, j>> /\ Seen(p[i].decls[j], is)
    BY <1>1, FinitePlaces
  <2> QED
    BY <2>1 DEF DeclAt
<1>2. ASSUME x = <<x[1], x[2]>>, x[1] \in DOMAIN p, x[2] \in DOMAIN p[x[1]].decls,
             Seen(DeclAt(p, x), is)
      PROVE  x \in Places(p, is)
  BY <1>2, FinitePlaces DEF DeclAt
<1> QED
  BY <1>1, <1>2

LEMMA PlaceFields ==
  ASSUME NEW p, HasDecls(p), NEW is, NEW x \in Places(p, is)
  PROVE  /\ x = <<x[1], x[2]>> /\ x[1] \in DOMAIN p
         /\ x[2] \in DOMAIN p[x[1]].decls /\ Seen(DeclAt(p, x), is)
  BY PlaceFacts

LEMMA SchemaPlaces ==
  ASSUME NEW p, IsProgram(p), NEW is
  PROVE  /\ \A x \in Places(Schema(p), is) :
              Source(p, x) \in Places(p, is)
              /\ DeclAt(Schema(p), x) = WorkerDecl(DeclAt(p, Source(p, x)))
         /\ \A y \in Places(p, is) : \E x \in Places(Schema(p), is) : y = Source(p, x)
         /\ \A x, y \in Places(Schema(p), is) : Source(p, x) = Source(p, y) => x = y
<1> DEFINE n == Cardinality(Code(p))
           at == InOrder(Code(p))
           s == Schema(p)
<1>1. /\ at \in [1..n -> Code(p)]
      /\ \A i \in Code(p) : \E k \in 1..n : at[k] = i
      /\ \A k, l \in 1..n : at[k] = at[l] => k = l
      /\ DOMAIN s = 1..n /\ HasDecls(s)
      /\ \A k \in 1..n :
           /\ DOMAIN s[k].decls = DOMAIN p[at[k]].decls
           /\ \A j \in DOMAIN s[k].decls : s[k].decls[j] = WorkerDecl(p[at[k]].decls[j])
  BY SchemaFacts
<1>2. HasDecls(p) /\ Code(p) \subseteq DOMAIN p
      /\ \A i \in DOMAIN p : \A j \in DOMAIN p[i].decls : i \in Code(p) /\ IsDeclaration(p[i].decls[j])
  BY ProgramFacts DEF Code
<1>3. \A x : Source(p, x) = <<at[x[1]], x[2]>>
  BY DEF Source
<1> HIDE DEF n, at, s
<1>4. ASSUME NEW k \in 1..n, NEW j \in DOMAIN p[at[k]].decls
      PROVE  Seen(s[k].decls[j], is) <=> Seen(p[at[k]].decls[j], is)
  BY <1>1, <1>2, WorkerDeclFacts DEF Seen
<1>5. ASSUME NEW x \in Places(s, is)
      PROVE  Source(p, x) \in Places(p, is) /\ DeclAt(s, x) = WorkerDecl(DeclAt(p, Source(p, x)))
  <2>0. HasDecls(s) /\ DOMAIN s = 1..n
    BY <1>1
  <2>1. x[1] \in 1..n /\ x[2] \in DOMAIN s[x[1]].decls /\ Seen(DeclAt(s, x), is)
    BY <2>0, PlaceFields
  <2>2. /\ DeclAt(s, x) = WorkerDecl(p[at[x[1]]].decls[x[2]])
        /\ Seen(p[at[x[1]]].decls[x[2]], is)
        /\ at[x[1]] \in DOMAIN p /\ x[2] \in DOMAIN p[at[x[1]]].decls
    BY <1>1, <1>2, <1>4, <2>1 DEF DeclAt
  <2>3. <<at[x[1]], x[2]>>[1] = at[x[1]] /\ <<at[x[1]], x[2]>>[2] = x[2]
    OBVIOUS
  <2> QED
    BY <1>2, <1>3, <2>2, <2>3, PlaceFacts DEF DeclAt
<1>6. ASSUME NEW y \in Places(p, is)
      PROVE  \E x \in Places(s, is) : y = Source(p, x)
  <2>1. /\ y = <<y[1], y[2]>> /\ y[1] \in DOMAIN p /\ y[2] \in DOMAIN p[y[1]].decls
        /\ Seen(p[y[1]].decls[y[2]], is)
    BY <1>2, PlaceFacts DEF DeclAt
  <2>2. PICK k \in 1..n : at[k] = y[1]
    BY <1>1, <1>2, <2>1
  <2> DEFINE x == <<k, y[2]>>
  <2>3. x[1] = k /\ x[2] = y[2] /\ x = <<x[1], x[2]>>
    OBVIOUS
  <2> HIDE DEF x
  <2>4. Seen(DeclAt(s, x), is) /\ x[2] \in DOMAIN s[x[1]].decls /\ x[1] \in DOMAIN s
    BY <1>1, <1>4, <2>1, <2>2, <2>3 DEF DeclAt
  <2>5. x \in Places(s, is)
    BY <1>1, <2>3, <2>4, PlaceFacts
  <2> QED
    BY <1>3, <2>1, <2>2, <2>3, <2>5
<1>7. ASSUME NEW x \in Places(s, is), NEW y \in Places(s, is), Source(p, x) = Source(p, y)
      PROVE  x = y
  <2>0. HasDecls(s) /\ DOMAIN s = 1..n
    BY <1>1
  <2>1. /\ x = <<x[1], x[2]>> /\ y = <<y[1], y[2]>> /\ x[1] \in 1..n /\ y[1] \in 1..n
    BY <2>0, PlaceFields
  <2>2. at[x[1]] = at[y[1]] /\ x[2] = y[2]
    BY <1>3, <1>7
  <2> QED
    BY <1>1, <2>1, <2>2
<1> QED
  BY <1>5, <1>6, <1>7 DEF s

LEMMA AtFields ==
  ASSUME NEW p, HasDecls(p), NEW is, NEW x \in Places(p, is)
  PROVE  /\ DOMAIN DeclAt(p, x) = {"is", "name", "byDefault", "base", "ctor", "members"} /\ is = "class" =>
              /\ At(p, x).name = DeclAt(p, x).name /\ At(p, x).base = DeclAt(p, x).base
              /\ At(p, x).ctor = DeclAt(p, x).ctor /\ At(p, x).members = DeclAt(p, x).members
              /\ At(p, x).file = x[1]
         /\ DOMAIN DeclAt(p, x) = {"is", "name", "byDefault", "plain"} =>
              At(p, x).name = DeclAt(p, x).name /\ At(p, x).plain = DeclAt(p, x).plain
<1> DEFINE d == DeclAt(p, x)
           e == At(p, x)
<1>1. d.is = is /\ e = InFile(d, x[1])
  BY PlaceFacts DEF Seen, At, DeclAt
<1> HIDE DEF d, e
<1>2. CASE DOMAIN d = {"is", "name", "byDefault", "base", "ctor", "members"} /\ is = "class"
  <2>1. /\ e.name = d.name /\ e.base = d.base /\ e.ctor = d.ctor
        /\ e.members = d.members /\ e.file = x[1]
    BY <1>1, <1>2, InFileFields
  <2>2. DOMAIN d # {"is", "name", "byDefault", "plain"}
    BY <1>2
  <2> QED
    BY <2>1, <2>2 DEF d, e
<1>3. CASE DOMAIN d = {"is", "name", "byDefault", "plain"}
  <2>1. e.name = d.name /\ e.plain = d.plain
    BY <1>1, <1>3, InFileFields
  <2>2. DOMAIN d # {"is", "name", "byDefault", "base", "ctor", "members"}
    BY <1>3
  <2> QED
    BY <2>1, <2>2 DEF d, e
<1> QED
  BY <1>2, <1>3 DEF d, e

\* The names of the declarations are as they were written.
LEMMA NamesAreAsWritten ==
  ASSUME NEW p, IsProgram(p), NEW is \in {"class", "function"}
  PROVE  NamesAreTaken(Decls(Schema(p), is)) <=> NamesAreTaken(Decls(p, is))
<1> DEFINE s == Schema(p)
           S == Places(s, is)
           T == Places(p, is)
<1>1. HasDecls(p) /\ HasDecls(s)
  BY ProgramFacts, SchemaFacts
<1>2. /\ \A x \in S : Source(p, x) \in T /\ DeclAt(s, x) = WorkerDecl(DeclAt(p, Source(p, x)))
      /\ \A y \in T : \E x \in S : y = Source(p, x)
      /\ \A x, y \in S : Source(p, x) = Source(p, y) => x = y
  BY SchemaPlaces
<1>3. \A y \in T : At(p, y).name = DeclAt(p, y).name /\ IsDeclaration(DeclAt(p, y))
  <2> SUFFICES ASSUME NEW y \in T
               PROVE  At(p, y).name = DeclAt(p, y).name /\ IsDeclaration(DeclAt(p, y))
    OBVIOUS
  <2>1. DeclAt(p, y).is = is /\ IsDeclaration(DeclAt(p, y))
    BY <1>1, PlaceFacts, ProgramFacts DEF DeclAt, Seen
  <2>2. \/ DOMAIN DeclAt(p, y) = {"is", "name", "byDefault", "plain"}
        \/ DOMAIN DeclAt(p, y) = {"is", "name", "byDefault", "base", "ctor", "members"} /\ is = "class"
    BY <2>1 DEF IsDeclaration
  <2> QED
    BY <1>1, <2>1, <2>2, AtFields
<1>4. \A x \in S : At(s, x).name = At(p, Source(p, x)).name
  <2> SUFFICES ASSUME NEW x \in S
               PROVE  At(s, x).name = At(p, Source(p, x)).name
    OBVIOUS
  <2> DEFINE d == DeclAt(p, Source(p, x))
  <2>1. DeclAt(s, x) = WorkerDecl(d) /\ IsDeclaration(d) /\ At(p, Source(p, x)).name = d.name
    BY <1>2, <1>3
  <2>2. DOMAIN DeclAt(s, x) = DOMAIN d /\ DeclAt(s, x).name = d.name /\ DeclAt(s, x).is = d.is
    BY <2>1, WorkerDeclFacts
  <2>3. DeclAt(s, x).is = is
    BY <1>1, PlaceFacts DEF Seen
  <2>4. \/ DOMAIN d = {"is", "name", "byDefault", "plain"}
        \/ DOMAIN d = {"is", "name", "byDefault", "base", "ctor", "members"} /\ is = "class"
    BY <2>1, <2>2, <2>3 DEF IsDeclaration
  <2> HIDE DEF d
  <2>5. At(s, x).name = DeclAt(s, x).name
    BY <1>1, <2>2, <2>4, AtFields
  <2> QED
    BY <2>1, <2>2, <2>5
<1> HIDE DEF s, S, T
<1>5. (\E x, y \in S : x # y /\ At(s, x).name = At(s, y).name)
        <=> \E x, y \in T : x # y /\ At(p, x).name = At(p, y).name
  <2>1. ASSUME NEW x \in S, NEW y \in S, x # y, At(s, x).name = At(s, y).name
        PROVE  \E v, w \in T : v # w /\ At(p, v).name = At(p, w).name
    BY <1>2, <1>4, <2>1
  <2>2. ASSUME NEW v \in T, NEW w \in T, v # w, At(p, v).name = At(p, w).name
        PROVE  \E x, y \in S : x # y /\ At(s, x).name = At(s, y).name
    BY <1>2, <1>4, <2>2
  <2> QED
    BY <2>1, <2>2
<1> QED
  BY <1>1, <1>5, TakenPlaces DEF s, S, T


-----------------------------------------------------------------------------
(* What is refused.                                                        *)

LEMMA DuplicatesAreAsWritten ==
  ASSUME NEW d, IsClassDecl(d)
  PROVE  DuplicateMethods(WorkerDecl(d)) <=> DuplicateMethods(d)
<1> DEFINE n == Cardinality(Kept(d))
           at == InOrder(Kept(d))
           w == WorkerMembers(d)
           Twice(a, b) == /\ a.name = b.name /\ a.kind # "property"
                          /\ a.kind = b.kind \/ (IsAccessor(b) /\ a.kind = "method")
<1>1. /\ n \in Nat /\ at \in [1..n -> Kept(d)]
      /\ \A i \in Kept(d) : \E k \in 1..n : at[k] = i
      /\ \A k, l \in 1..n : at[k] <= at[l] <=> k <= l
      /\ DOMAIN w = 1..n
      /\ \A k \in 1..n : w[k].kind = d.members[at[k]].kind /\ w[k].name = d.members[at[k]].name
  BY WorkerMembersFacts DEF SameButAsync
<1>2. WorkerDecl(d).members = w
  BY WorkerDeclFacts DEF IsClassDecl
<1>3. Kept(d) \subseteq DOMAIN d.members /\ DOMAIN d.members \subseteq Nat
  BY ClassDeclFacts, SequenceFacts DEF Kept
<1>4. DuplicateMethods(d) <=> \E i, j \in DOMAIN d.members : i < j /\ Twice(d.members[i], d.members[j])
  BY DEF DuplicateMethods
<1>5. DuplicateMethods(WorkerDecl(d)) <=> \E k, l \in 1..n : k < l /\ Twice(w[k], w[l])
  BY <1>1, <1>2 DEF DuplicateMethods
<1> HIDE DEF n, at, w
<1>6. \A k, l \in 1..n : Twice(w[k], w[l]) <=> Twice(d.members[at[k]], d.members[at[l]])
  BY <1>1 DEF IsAccessor
<1>7. \A k, l \in 1..n : at[k] < at[l] <=> k < l
  <2> SUFFICES ASSUME NEW k \in 1..n, NEW l \in 1..n
               PROVE  at[k] < at[l] <=> k < l
    OBVIOUS
  <2>1. at[k] \in Nat /\ at[l] \in Nat /\ (at[l] <= at[k] <=> l <= k)
    BY <1>1, <1>3
  <2> QED
    BY <1>1, <2>1
<1>8. \A i, j \in DOMAIN d.members :
        Twice(d.members[i], d.members[j]) => i \in Kept(d) /\ j \in Kept(d)
  BY DEF Kept, IsAccessor
<1> HIDE DEF Twice
<1>9. (\E k, l \in 1..n : k < l /\ Twice(w[k], w[l]))
        => \E i, j \in DOMAIN d.members : i < j /\ Twice(d.members[i], d.members[j])
  BY <1>1, <1>3, <1>6, <1>7
<1>10. ASSUME NEW i \in DOMAIN d.members, NEW j \in DOMAIN d.members, i < j,
              Twice(d.members[i], d.members[j])
       PROVE  \E k, l \in 1..n : k < l /\ Twice(w[k], w[l])
  <2>1. PICK k \in 1..n : at[k] = i
    BY <1>1, <1>8, <1>10
  <2>2. PICK l \in 1..n : at[l] = j
    BY <1>1, <1>8, <1>10
  <2> QED
    BY <1>6, <1>7, <1>10, <2>1, <2>2
<1> QED
  BY <1>4, <1>5, <1>9, <1>10

LEMMA CalledFacts ==
  ASSUME NEW c, IsSequence(c.members)
  PROVE  /\ IsSequence(Called(c))
         /\ ToSet(Called(c)) = {m \in ToSet(c.members) : ~m.static /\ ~m.computed}
         /\ Called(c) = <<>> <=> ~ \E m \in ToSet(c.members) : ~m.static /\ ~m.computed
<1> DEFINE I == {i \in DOMAIN c.members : ~c.members[i].static /\ ~c.members[i].computed}
<1>1. Called(c) = Pick(c.members, I)
  BY DEF Called, Select
<1>2. I \in SUBSET (DOMAIN c.members)
  OBVIOUS
<1> HIDE DEF I
<1>3. /\ IsSequence(Called(c)) /\ ToSet(Called(c)) = {c.members[i] : i \in I}
      /\ Called(c) = <<>> <=> I = {}
  BY <1>1, <1>2, PickIsSequence
<1> QED
  BY <1>3 DEF I, ToSet

\* What the compiler asks of a class is what IsAllowed says.
LEMMA AllowedClasses ==
  ASSUME NEW d
  PROVE  IsAllowed(d) <=> StageErrors(d) = {}
  BY DEF IsAllowed, StageErrors, HasBaseClass

\* What the parser and the serializer ask of a class that the compiler lets through is
\* what IsProper says.
LEMMA ProperClasses ==
  ASSUME NEW d, IsClassDecl(d), StageErrors(d) = {}
  PROVE  IsProper(d) <=>
           ~BadClass(WorkerDecl(d)) /\ (d.base # "Service" => d.ctor # Null)
<1> DEFINE w == WorkerDecl(d)
           M == ToSet(d.members)
           Callable(m) == ~m.static /\ ~m.computed
           Methods == {m \in M : m.kind # "property"}
<1>1. /\ w.base = d.base /\ w.ctor = d.ctor /\ w.members = WorkerMembers(d)
      /\ DuplicateMethods(w) <=> DuplicateMethods(d)
  BY WorkerDeclFacts, DuplicatesAreAsWritten DEF IsClassDecl
<1>2. \A m \in M : d.base = "Service" => ~IsAccessor(m)
  BY DEF StageErrors, HasBaseClass
<1>3. /\ IsSequence(w.members)
      /\ \A m \in Methods : \E v \in ToSet(w.members) : SameButAsync(v, m)
      /\ \A v \in ToSet(w.members) : \E m \in Methods : SameButAsync(v, m)
  <2> DEFINE n == Cardinality(Kept(d))
             at == InOrder(Kept(d))
             ms == WorkerMembers(d)
  <2>1. /\ at \in [1..n -> Kept(d)]
        /\ \A i \in Kept(d) : \E k \in 1..n : at[k] = i
        /\ IsSequence(ms) /\ DOMAIN ms = 1..n
        /\ \A k \in 1..n : SameButAsync(ms[k], d.members[at[k]])
    BY WorkerMembersFacts
  <2> HIDE DEF n, at, ms
  <2>2. ASSUME NEW i \in DOMAIN d.members, d.members[i].kind # "property"
        PROVE  \E v \in ToSet(ms) : SameButAsync(v, d.members[i])
    <3>1. PICK k \in 1..n : at[k] = i
      BY <2>1, <2>2 DEF Kept
    <3>2. ms[k] \in ToSet(ms)
      BY <2>1 DEF ToSet
    <3> QED
      BY <2>1, <3>1, <3>2
  <2>3. ASSUME NEW k \in 1..n
        PROVE  d.members[at[k]] \in Methods
    BY <2>1 DEF Kept, ToSet
  <2> QED
    BY <1>1, <2>1, <2>2, <2>3 DEF ms, ToSet
<1> HIDE DEF w, M
<1>4. CASE d.base # "Service"
  <2>1. (\E v \in ToSet(w.members) : ~v.plain) <=> \E m \in Methods : ~m.plain
    BY <1>3 DEF SameButAsync
  <2> HIDE DEF Methods
  <2>2. BadClass(w) <=> \/ d.base = Expression \/ \E m \in Methods : ~m.plain
                        \/ d.base = "Data" /\ d.ctor = Null
                        \/ d.ctor = "odd" \/ DuplicateMethods(d)
    BY <1>1, <1>4, <2>1 DEF BadClass, Parsed, HasBaseClass
  <2>3. IsProper(d) <=> /\ d.base # Expression /\ d.ctor # Null /\ d.ctor # "odd"
                        /\ ~DuplicateMethods(d) /\ \A m \in Methods : m.plain
    BY <1>4 DEF IsProper, Methods, M
  <2> QED
    BY <1>4, <2>2, <2>3 DEF w
<1>5. CASE d.base = "Service"
  <2> DEFINE called == {m \in Methods : ~m.static /\ ~m.computed}
  <2>1. /\ ToSet(Called(w)) = {v \in ToSet(w.members) : Callable(v)}
        /\ Called(w) = <<>> <=> ~ \E v \in ToSet(w.members) : Callable(v)
    BY <1>3, CalledFacts
  <2>2. (\E v \in ToSet(w.members) : Callable(v)) <=> called # {}
    BY <1>3 DEF SameButAsync
  <2>3. (\E v \in ToSet(Called(w)) : ~v.plain) <=> \E m \in called : ~m.plain
    BY <1>3, <2>1 DEF SameButAsync
  <2>4. ~ \E v \in ToSet(Called(w)) : IsAccessor(v)
    BY <1>2, <1>3, <1>5, <2>1 DEF SameButAsync, IsAccessor
  <2>5. "good" # Null
    BY NullAssumption
  <2> HIDE DEF called
  <2>6. BadClass(w) <=> \/ d.base = Expression \/ \E m \in called : ~m.plain
                        \/ d.ctor # "good" \/ called = {}
    BY <1>1, <1>5, <2>1, <2>2, <2>3, <2>4 DEF BadClass, Parsed, HasBaseClass
  <2>7. IsProper(d) <=> /\ d.base # Expression /\ d.ctor = "good"
                        /\ called # {} /\ \A m \in called : m.plain
    BY <1>5, <2>5 DEF IsProper, called, Methods, M
  <2> QED
    BY <1>5, <2>6, <2>7 DEF w
<1> QED
  BY <1>4, <1>5

LEMMA SameClass ==
  ASSUME NEW c, NEW d, c.base = d.base, c.ctor = d.ctor, c.members = d.members
  PROVE  /\ StageErrors(c) = StageErrors(d)
         /\ IsProper(c) <=> IsProper(d)
         /\ BadClass(c) <=> BadClass(d)
<1>1. StageErrors(c) = StageErrors(d)
  BY DEF StageErrors, HasBaseClass
<1>2. IsProper(c) <=> IsProper(d)
  BY DEF IsProper, DuplicateMethods
<1>3. BadClass(c) <=> BadClass(d)
  BY DEF BadClass, Parsed, HasBaseClass, DuplicateMethods, Called
<1> QED
  BY <1>1, <1>2, <1>3


\* Names and bases are text.
IsText(d) == d.name # Null /\ [base |-> d.base] # Null

\* The serializer asks every class that is not a service for its constructor.
LEMMA SerializedClasses ==
  ASSUME NEW q, IsSequence(Classes(q)), \A c \in ToSet(Classes(q)) : IsText(c), NEW ids
  PROVE  CanSerialize(q, ids) <=>
           \A c \in ToSet(Classes(q)) : c.base # "Service" => c.ctor # Null
<1> DEFINE C == ToSet(Classes(q))
           OfKind(c, base) == c.base = base \/ (base = "none" /\ c.base \notin Bases)
<1>1. ASSUME NEW base
      PROVE  /\ ToSet(ClassesOf(q, base)) = {c \in C : OfKind(c, base)}
             /\ ToSet(Tables(ClassesOf(q, base), ids)) = {ClassTable(c, ids) : c \in ToSet(ClassesOf(q, base))}
  <2> DEFINE I == {i \in DOMAIN Classes(q) : OfKind(Classes(q)[i], base)}
  <2>1. ClassesOf(q, base) = Pick(Classes(q), I)
    BY DEF ClassesOf, Select
  <2>2. I \in SUBSET (DOMAIN Classes(q))
    OBVIOUS
  <2> HIDE DEF I
  <2>3. ToSet(ClassesOf(q, base)) = {Classes(q)[i] : i \in I}
    BY <2>1, <2>2, PickIsSequence
  <2> QED
    BY <2>3 DEF I, ToSet, Tables
<1>2. ASSUME NEW c \in C
      PROVE  /\ ClassTable(c, ids).className = c.name
             /\ ClassTable(c, ids).sourceCode = [base |-> c.base]
             /\ ClassTable(c, ids).ctor = Constructor(c)
  BY DEF ClassTable
<1>3. ASSUME NEW c \in C
      PROVE  Constructor(c) # Null <=> c.ctor # Null
  BY NullAssumption DEF Constructor
<1>4. ASSUME NEW c \in C, NEW schema \in {FreeClassProto, DataClassProto, MessageClassProto}
      PROVE  CanCreate(schema, ClassTable(c, ids)) <=> c.ctor # Null
  <2> DEFINE t == ClassTable(c, ids)
  <2>1. t.className # Null /\ t.sourceCode # Null
    BY <1>2 DEF IsText
  <2>2. \/ schema.required = {"ctor", "sourceCode"}
        \/ schema.required = {"className", "sourceCode", "ctor"}
    BY DEF FreeClassProto, DataClassProto, MessageClassProto, Table
  <2>3. t.ctor # Null <=> c.ctor # Null
    BY <1>2, <1>3
  <2> HIDE DEF t
  <2>4. CanCreate(schema, t) <=> t.ctor # Null
    BY <2>1, <2>2 DEF CanCreate
  <2> QED
    BY <2>3, <2>4 DEF t
<1>5. ASSUME NEW base, NEW schema \in {FreeClassProto, DataClassProto, MessageClassProto}
      PROVE  (\A t \in ToSet(Tables(ClassesOf(q, base), ids)) : CanCreate(schema, t))
               <=> \A c \in C : OfKind(c, base) => c.ctor # Null
  BY <1>1, <1>4
<1>6. CanSerialize(q, ids) <=>
        /\ \A c \in C : OfKind(c, "none") => c.ctor # Null
        /\ \A c \in C : OfKind(c, "Data") => c.ctor # Null
        /\ \A c \in C : OfKind(c, "Message") => c.ctor # Null
  <2>1. CanSerialize(q, ids) <=>
          /\ \A t \in ToSet(Tables(ClassesOf(q, "none"), ids)) : CanCreate(FreeClassProto, t)
          /\ \A t \in ToSet(Tables(ClassesOf(q, "Data"), ids)) : CanCreate(DataClassProto, t)
          /\ \A t \in ToSet(Tables(ClassesOf(q, "Message"), ids)) : CanCreate(MessageClassProto, t)
    BY DEF CanSerialize
  <2> QED
    BY <1>5, <2>1
<1>7. \A c \in C : c.base # "Service" <=>
        OfKind(c, "none") \/ OfKind(c, "Data") \/ OfKind(c, "Message")
  <2>1. Bases = {"Service", "Data", "Message"} /\ "none" # "Service"
    BY DEF Bases
  <2> QED
    BY <2>1
<1> QED
  BY <1>6, <1>7

\* The compiler has seen every class that the parser finds.
LEMMA PlaceIsWritten ==
  ASSUME NEW p, HasDecls(p), NEW x \in Places(p, "class")
  PROVE  DeclAt(p, x) \in ClassesAsWritten(p)
  BY PlaceFields DEF ClassesAsWritten, DeclAt, ToSet, Seen

\* What may be deployed.
Deployable == Programs \cup NextPrograms

LEMMA DeployableFacts ==
  ASSUME NEW p \in Deployable
  PROVE  IsProgram(p) /\ \A x \in Places(p, "class") : IsClassDecl(DeclAt(p, x)) /\ IsText(DeclAt(p, x))
<1>1. IsProgram(p) /\ HasDecls(p)
  BY ProgramsAssumption, ProgramFacts DEF Deployable
<1>2. ASSUME NEW x \in Places(p, "class")
      PROVE  IsClassDecl(DeclAt(p, x)) /\ IsText(DeclAt(p, x))
  <2>1. x[1] \in DOMAIN p /\ x[2] \in DOMAIN p[x[1]].decls /\ DeclAt(p, x).is = "class"
    BY <1>1, PlaceFields DEF Seen
  <2>2. p[x[1]] \in ToSet(p) /\ DeclAt(p, x) \in ToSet(p[x[1]].decls)
    BY <2>1 DEF ToSet, DeclAt
  <2>3. IsText(DeclAt(p, x))
    BY <2>1, <2>2, NullAssumption DEF IsText, Deployable
  <2>4. IsDeclaration(DeclAt(p, x))
    BY <1>1, <2>1, ProgramFacts DEF DeclAt
  <2> QED
    BY <2>1, <2>3, <2>4 DEF IsClassDecl
<1> QED
  BY <1>1, <1>2

\* The files that are deployed have code in them, which nothing bars, if the compiler
\* finds none that is empty and the parser none that is barred.
LEMMA TextFacts ==
  ASSUME NEW p, IsProgram(p)
  PROVE  (\A m \in ToSet(SchemaFiles(p)) : m.text = "code") <=>
           /\ EmptyFiles(SchemaFiles(StageTransformer(p))) = {}
           /\ ~ \E m \in ToSet(Schema(p)) : m.text = "barred"
<1> DEFINE C == Code(p)
           n == Cardinality(C)
           at == InOrder(C)
           q == StageTransformer(p)
           s == Schema(p)
<1>1. /\ at \in [1..n -> C]
      /\ \A i \in C : \E k \in 1..n : at[k] = i
      /\ DOMAIN s = 1..n /\ \A k \in 1..n : s[k].text = p[at[k]].text
  BY SchemaFacts
<1>2. /\ IsSequence(q) /\ DOMAIN q = DOMAIN p
      /\ \A i \in DOMAIN p : q[i].text = p[i].text /\ q[i].ext = p[i].ext
  BY StagedFacts
<1>3. IsSequence(p) /\ C \in SUBSET (DOMAIN p)
      /\ \A i \in C : p[i].text \in {"code", "empty", "barred"}
  BY ProgramFacts DEF Code, IsFile
<1>4. C = {i \in DOMAIN q : ~IsTypeDef(q[i])}
  BY <1>2 DEF Code, IsTypeDef
<1>5. SchemaFiles(q) = Pick(q, C) /\ SchemaFiles(p) = Pick(p, C)
  BY <1>4 DEF SchemaFiles, Select, Code
<1> HIDE DEF C, n, at, q, s
<1>6. ToSet(SchemaFiles(p)) = {p[i] : i \in C} /\ ToSet(SchemaFiles(q)) = {q[i] : i \in C}
  BY <1>2, <1>3, <1>5, PickIsSequence
<1>7. EmptyFiles(SchemaFiles(q)) = {} <=> \A i \in C : p[i].text # "empty"
  <2>1. \A i \in C : q[i].text = p[i].text
    BY <1>2, <1>3
  <2> QED
    BY <1>6, <2>1 DEF EmptyFiles
<1>8. (\E m \in ToSet(s) : m.text = "barred") <=> \E i \in C : p[i].text = "barred"
  <2>1. (\E m \in ToSet(s) : m.text = "barred") <=> \E k \in 1..n : s[k].text = "barred"
    BY <1>1 DEF ToSet
  <2> QED
    BY <1>1, <2>1
<1>9. (\A m \in ToSet(SchemaFiles(p)) : m.text = "code") <=> \A i \in C : p[i].text = "code"
  BY <1>6
<1>10. (\A i \in C : p[i].text = "code") <=> \A i \in C : p[i].text # "empty" /\ p[i].text # "barred"
  BY <1>3
<1> QED
  BY <1>7, <1>8, <1>9, <1>10 DEF q, s

\* The functions that the parser finds are as they were written.
LEMMA FunctionsAreAsWritten ==
  ASSUME NEW p, IsProgram(p)
  PROVE  (\A f \in ToSet(Functions(p)) : f.plain) <=> ~ \E f \in ToSet(Functions(Schema(p))) : ~f.plain
<1> DEFINE s == Schema(p)
           S == Places(s, "function")
           T == Places(p, "function")
<1>1. HasDecls(p) /\ HasDecls(s)
  BY ProgramFacts, SchemaFacts
<1>2. ToSet(Functions(p)) = {At(p, y) : y \in T} /\ ToSet(Functions(s)) = {At(s, x) : x \in S}
  BY <1>1, DeclsAreSequence DEF Functions
<1>3. /\ \A x \in S : Source(p, x) \in T /\ DeclAt(s, x) = WorkerDecl(DeclAt(p, Source(p, x)))
      /\ \A y \in T : \E x \in S : y = Source(p, x)
  BY SchemaPlaces
<1>4. ASSUME NEW y \in T
      PROVE  /\ At(p, y).plain = DeclAt(p, y).plain
             /\ DOMAIN DeclAt(p, y) = {"is", "name", "byDefault", "plain"}
             /\ WorkerDecl(DeclAt(p, y)) = DeclAt(p, y)
  <2>1. DeclAt(p, y).is = "function" /\ IsDeclaration(DeclAt(p, y))
    BY <1>1, PlaceFacts, ProgramFacts DEF DeclAt, Seen
  <2>2. DOMAIN DeclAt(p, y) = {"is", "name", "byDefault", "plain"}
    BY <2>1 DEF IsDeclaration
  <2> QED
    BY <1>1, <2>1, <2>2, AtFields DEF WorkerDecl
<1>5. ASSUME NEW x \in S
      PROVE  At(s, x).plain = At(p, Source(p, x)).plain
  <2>1. DeclAt(s, x) = DeclAt(p, Source(p, x))
        /\ DOMAIN DeclAt(s, x) = {"is", "name", "byDefault", "plain"}
    BY <1>3, <1>4
  <2>2. At(s, x).plain = DeclAt(s, x).plain
    BY <1>1, <2>1, AtFields
  <2> QED
    BY <1>3, <1>4, <2>1, <2>2
<1> HIDE DEF s, S, T
<1>6. (\E x \in S : ~At(s, x).plain) <=> \E y \in T : ~At(p, y).plain
  BY <1>3, <1>5
<1> QED
  BY <1>2, <1>6 DEF s

\* Compiler, parser and serializer accept what keeps the rules, and nothing else.
LEMMA ValidPrograms ==
  ASSUME NEW p \in Deployable, ~DuplicateFiles(p),
         \A c \in ClassesAsWritten(p) : StageErrors(c) = {}, NEW ids
  PROVE  IsValid(p) <=> /\ SchemaFiles(StageTransformer(p)) # <<>>
                        /\ EmptyFiles(SchemaFiles(StageTransformer(p))) = {}
                        /\ ~BadCode(Schema(p)) /\ CanSerialize(Schema(p), ids)
<1> DEFINE s == Schema(p)
           T == Places(p, "class")
           S == Places(s, "class")
           Fine(d) == ~BadClass(WorkerDecl(d)) /\ (d.base # "Service" => d.ctor # Null)
<1>1. IsProgram(p) /\ HasDecls(p) /\ HasDecls(s)
  BY DeployableFacts, ProgramFacts, SchemaFacts
<1>2. \A y \in T : IsClassDecl(DeclAt(p, y)) /\ IsText(DeclAt(p, y))
  BY DeployableFacts
<1>3. /\ IsSequence(Classes(p)) /\ ToSet(Classes(p)) = {At(p, y) : y \in T}
      /\ IsSequence(Classes(s)) /\ ToSet(Classes(s)) = {At(s, x) : x \in S}
      /\ IsSequence(Functions(p)) /\ IsSequence(Functions(s))
  BY <1>1, DeclsAreSequence DEF Classes, Functions
<1>4. /\ \A x \in S : Source(p, x) \in T /\ DeclAt(s, x) = WorkerDecl(DeclAt(p, Source(p, x)))
      /\ \A y \in T : \E x \in S : y = Source(p, x)
  BY <1>1, SchemaPlaces
<1> HIDE DEF s, S, T
<1>5. ASSUME NEW y \in T
      PROVE  /\ At(p, y).base = DeclAt(p, y).base /\ At(p, y).ctor = DeclAt(p, y).ctor
             /\ At(p, y).members = DeclAt(p, y).members
  BY <1>1, <1>2, AtFields, ClassDeclFacts DEF T
<1>6. ASSUME NEW x \in S
      PROVE  LET d == DeclAt(p, Source(p, x))
             IN  /\ At(s, x).base = d.base /\ At(s, x).ctor = d.ctor /\ At(s, x).name = d.name
                 /\ BadClass(At(s, x)) <=> BadClass(WorkerDecl(d))
                 /\ IsText(At(s, x))
  <2> DEFINE d == DeclAt(p, Source(p, x))
             w == WorkerDecl(d)
  <2>1. IsClassDecl(d) /\ IsText(d) /\ DeclAt(s, x) = w
    BY <1>2, <1>4
  <2> HIDE DEF d
  <2>2. DOMAIN w = {"is", "name", "byDefault", "base", "ctor", "members"} /\ w.name = d.name
        /\ w.base = d.base /\ w.ctor = d.ctor
    BY <2>1, WorkerDeclFacts, ClassDeclFacts DEF IsClassDecl
  <2> HIDE DEF w
  <2>3. /\ At(s, x).name = w.name /\ At(s, x).base = w.base
        /\ At(s, x).ctor = w.ctor /\ At(s, x).members = w.members
    BY <1>1, <2>1, <2>2, AtFields DEF S
  <2>4. BadClass(At(s, x)) <=> BadClass(w)
    BY <2>3, SameClass
  <2>5. IsText(At(s, x))
    BY <2>1, <2>2, <2>3 DEF IsText
  <2> QED
    BY <2>2, <2>3, <2>4, <2>5 DEF d, w
<1>7. (\A c \in ToSet(Classes(p)) : IsProper(c)) <=> \A y \in T : Fine(DeclAt(p, y))
  <2>1. ASSUME NEW y \in T
        PROVE  IsProper(At(p, y)) <=> Fine(DeclAt(p, y))
    <3>1. DeclAt(p, y) \in ClassesAsWritten(p)
      BY <1>1, PlaceIsWritten DEF T
    <3>2. /\ StageErrors(DeclAt(p, y)) = {}
          /\ IsProper(At(p, y)) <=> IsProper(DeclAt(p, y))
      BY <1>5, <3>1, SameClass
    <3> QED
      BY <1>2, <3>2, ProperClasses
  <2> HIDE DEF Fine
  <2> QED
    BY <1>3, <2>1
<1>8. CanSerialize(s, ids) <=> \A x \in S : At(s, x).base # "Service" => At(s, x).ctor # Null
  <2>1. \A c \in ToSet(Classes(s)) : IsText(c)
    BY <1>3, <1>6
  <2>2. CanSerialize(s, ids) <=> \A c \in ToSet(Classes(s)) : c.base # "Service" => c.ctor # Null
    BY <1>3, <2>1, SerializedClasses
  <2> QED
    BY <1>3, <2>2
<1>9. (\E c \in ToSet(Classes(s)) : BadClass(c)) <=> \E x \in S : BadClass(At(s, x))
  BY <1>3
<1>10. (\A y \in T : Fine(DeclAt(p, y))) <=>
         /\ ~ \E c \in ToSet(Classes(s)) : BadClass(c)
         /\ CanSerialize(s, ids)
  <2>1. \A x \in S : Fine(DeclAt(p, Source(p, x))) <=>
          ~BadClass(At(s, x)) /\ (At(s, x).base # "Service" => At(s, x).ctor # Null)
    BY <1>6
  <2>2. (\A y \in T : Fine(DeclAt(p, y))) <=> \A x \in S : Fine(DeclAt(p, Source(p, x)))
    <3> HIDE DEF Fine
    <3> QED
      BY <1>4
  <2> HIDE DEF Fine
  <2> QED
    BY <1>8, <1>9, <2>1, <2>2
<1>11. /\ NamesAreTaken(Classes(s)) <=> NamesAreTaken(Classes(p))
       /\ NamesAreTaken(Functions(s)) <=> NamesAreTaken(Functions(p))
  BY <1>1, NamesAreAsWritten DEF Classes, Functions, s
<1>12. (\A decls \in {Classes(p), Functions(p)} :
          Cardinality({decls[i].name : i \in DOMAIN decls}) = Len(decls))
         <=> ~NamesAreTaken(Classes(s)) /\ ~NamesAreTaken(Functions(s))
  <2>1. /\ NamesAreTaken(Classes(p)) <=>
             Cardinality({Classes(p)[i].name : i \in DOMAIN Classes(p)}) # Len(Classes(p))
        /\ NamesAreTaken(Functions(p)) <=>
             Cardinality({Functions(p)[i].name : i \in DOMAIN Functions(p)}) # Len(Functions(p))
    BY <1>3, NamesTaken
  <2> QED
    BY <1>11, <2>1
<1>13. SchemaFiles(p) = <<>> <=> SchemaFiles(StageTransformer(p)) = <<>>
  BY <1>1, SchemaFacts
<1>14. \A c \in ClassesAsWritten(p) : IsAllowed(c)
  BY AllowedClasses
<1>15. BadCode(s) <=> \/ NamesAreTaken(Classes(s)) \/ NamesAreTaken(Functions(s))
                      \/ \E c \in ToSet(Classes(s)) : BadClass(c)
                      \/ \E f \in ToSet(Functions(s)) : ~f.plain
                      \/ \E m \in ToSet(s) : m.text = "barred"
  BY DEF BadCode
<1>16. IsValid(p) <=> /\ SchemaFiles(p) # <<>> /\ \A m \in ToSet(SchemaFiles(p)) : m.text = "code"
                      /\ \A c \in ToSet(Classes(p)) : IsProper(c)
                      /\ \A f \in ToSet(Functions(p)) : f.plain
                      /\ \A decls \in {Classes(p), Functions(p)} :
                           Cardinality({decls[i].name : i \in DOMAIN decls}) = Len(decls)
  BY <1>14 DEF IsValid
<1>17. /\ (\A m \in ToSet(SchemaFiles(p)) : m.text = "code") <=>
            /\ EmptyFiles(SchemaFiles(StageTransformer(p))) = {}
            /\ ~ \E m \in ToSet(s) : m.text = "barred"
       /\ (\A f \in ToSet(Functions(p)) : f.plain) <=> ~ \E f \in ToSet(Functions(s)) : ~f.plain
  BY <1>1, TextFacts, FunctionsAreAsWritten DEF s
<1> QED
  BY <1>7, <1>10, <1>12, <1>13, <1>15, <1>16, <1>17 DEF s


-----------------------------------------------------------------------------
(* The deployment under way.                                               *)

\* What the client declares of a program.
ClientDecl(p) ==
    LET staged == StageTransformer(p)
    IN  WithMembers(staged, [c \in ClassesAsWritten(staged) |-> ClientMembers(c)])

Passes(p) == ~DuplicateFiles(p) /\ \A c \in ClassesAsWritten(p) : StageErrors(c) = {}

\* What is built is made of the program that is deployed.
BuildIsOfItsProgram ==
    LET p == build.program
    IN  /\ build = [pc |-> build.pc, program |-> p, schema |-> build.schema, decl |-> build.decl]
        /\ build.pc \in {"idle", "staged", "compiled"}
        /\ build.pc # "idle" => p \in Deployable /\ Passes(p)
        /\ build.pc = "staged" => build.schema = StageTransformer(p)
        /\ build.pc = "compiled" =>
             /\ SchemaFiles(StageTransformer(p)) # <<>>
             /\ EmptyFiles(SchemaFiles(StageTransformer(p))) = {}
             /\ build.schema = Schema(p) /\ build.decl = ClientDecl(p)

BuildInv == BuildIsOfItsProgram /\ RefusedForCause

LEMMA BuildInvInit == Init => BuildInv
  BY DEF Init, Idle, BuildInv, BuildIsOfItsProgram, RefusedForCause

LEMMA IdleIsOfItsProgram == build' = Idle => BuildIsOfItsProgram'
  BY DEF Idle, BuildIsOfItsProgram

LEMMA StageKeepsBuildInv ==
  ASSUME BuildInv, NEW p \in Deployable, Stage(p)
  PROVE  BuildInv'
<1>1. CASE ~Passes(p)
  <2>1. outcome' = [program |-> p, cause |-> "compiler"] /\ build' = Idle
    BY <1>1 DEF Stage, Passes
  <2>2. ~IsValid(p)
    <3>1. CASE DuplicateFiles(p)
      BY <3>1 DEF IsValid
    <3>2. ASSUME NEW c \in ClassesAsWritten(p), StageErrors(c) # {}
          PROVE  ~IsAllowed(c)
      BY <3>2, AllowedClasses
    <3> QED
      BY <1>1, <3>1, <3>2 DEF IsValid, Passes
  <2>3. "compiler" # Null
    BY NullAssumption
  <2>4. RefusedForCause'
    BY <2>1, <2>2, <2>3 DEF RefusedForCause
  <2> QED
    BY <2>1, <2>4, IdleIsOfItsProgram DEF BuildInv
<1>2. CASE Passes(p)
  <2>1. /\ build' = [Idle EXCEPT !.pc = "staged", !.program = p, !.schema = StageTransformer(p)]
        /\ outcome' = outcome
    BY <1>2 DEF Stage, Passes
  <2>2. build' = [pc |-> "staged", program |-> p, schema |-> StageTransformer(p), decl |-> Null]
    BY <2>1 DEF Idle
  <2>3. BuildIsOfItsProgram'
    BY <1>2, <2>2 DEF BuildIsOfItsProgram
  <2>4. RefusedForCause'
    BY <2>1 DEF BuildInv, RefusedForCause
  <2> QED
    BY <2>3, <2>4 DEF BuildInv
<1> QED
  BY <1>1, <1>2

LEMMA CompileKeepsBuildInv ==
  ASSUME BuildInv, Compile
  PROVE  BuildInv'
<1> DEFINE p == build.program
           staged == StageTransformer(p)
           code == SchemaFiles(staged)
           worker == WithMembers(code, [c \in ClassesAsWritten(code) |-> WorkerMembers(c)])
           client == WithMembers(build.schema,
                       [c \in ClassesAsWritten(build.schema) |-> ClientMembers(c)])
<1>1. build.pc = "staged" /\ build.schema = staged /\ p \in Deployable /\ Passes(p)
  BY DEF Compile, BuildInv, BuildIsOfItsProgram
<1>2. CASE Finish("typescript")
  BY <1>2, IdleIsOfItsProgram DEF Finish, BuildInv, RefusedForCause
<1>3. CASE (code = <<>> \/ EmptyFiles(code) # {}) /\ Finish("empty")
  <2>1. ~IsValid(p)
    <3>1. IsProgram(p)
      BY <1>1, DeployableFacts
    <3>2. CASE code = <<>>
      <4>1. SchemaFiles(p) = <<>>
        BY <3>1, <3>2, SchemaFacts
      <4> QED
        BY <4>1 DEF IsValid
    <3>3. CASE EmptyFiles(code) # {}
      <4>1. ~ \A m \in ToSet(SchemaFiles(p)) : m.text = "code"
        BY <3>1, <3>3, TextFacts
      <4> QED
        BY <4>1 DEF IsValid
    <3> QED
      BY <1>3, <3>2, <3>3
  <2>2. "empty" # Null
    BY NullAssumption
  <2>3. RefusedForCause'
    BY <1>3, <2>1, <2>2 DEF Finish, RefusedForCause
  <2> QED
    BY <1>3, <2>3, IdleIsOfItsProgram DEF Finish, BuildInv
<1>4. CASE /\ code # <<>> /\ EmptyFiles(code) = {} /\ outcome' = outcome
           /\ build' = [build EXCEPT !.pc = "compiled", !.schema = worker, !.decl = client]
  <2>1. worker = Schema(p) /\ client = ClientDecl(p)
    BY <1>1 DEF Schema, ClientDecl
  <2>2. build = [pc |-> build.pc, program |-> p, schema |-> build.schema, decl |-> build.decl]
    BY DEF BuildInv, BuildIsOfItsProgram
  <2> HIDE DEF p, code, worker, client
  <2>3. build' = [pc |-> "compiled", program |-> p, schema |-> Schema(p), decl |-> ClientDecl(p)]
    <3> DEFINE one == [build EXCEPT !.pc = "compiled"]
               two == [one EXCEPT !.schema = worker]
    <3>1. one = [pc |-> "compiled", program |-> p, schema |-> build.schema, decl |-> build.decl]
      BY <2>2
    <3>2. build' = [two EXCEPT !.decl = client]
      BY <1>4
    <3> HIDE DEF one
    <3>3. two = [pc |-> "compiled", program |-> p, schema |-> worker, decl |-> build.decl]
      BY <3>1
    <3> HIDE DEF two
    <3> QED
      BY <2>1, <3>2, <3>3
  <2>4. /\ SchemaFiles(StageTransformer(p)) # <<>>
        /\ EmptyFiles(SchemaFiles(StageTransformer(p))) = {}
    BY <1>4 DEF code
  <2>5. BuildIsOfItsProgram'
    BY <1>1, <2>3, <2>4 DEF BuildIsOfItsProgram
  <2>6. RefusedForCause'
    BY <1>4 DEF BuildInv, RefusedForCause
  <2> QED
    BY <2>5, <2>6 DEF BuildInv
<1> QED
  BY <1>1, <1>2, <1>3, <1>4 DEF Compile

LEMMA DeployKeepsBuildInv ==
  ASSUME BuildInv, Deploy
  PROVE  BuildInv'
<1> DEFINE p == build.program
           ids == ClassIds(ManagedNames(build.schema))
<1>1. /\ p \in Deployable /\ Passes(p)
      /\ SchemaFiles(StageTransformer(p)) # <<>> /\ build.schema = Schema(p)
      /\ EmptyFiles(SchemaFiles(StageTransformer(p))) = {}
  BY DEF Deploy, BuildInv, BuildIsOfItsProgram
<1>2. IsValid(p) <=> ~BadCode(build.schema) /\ CanSerialize(build.schema, ids)
  BY <1>1, ValidPrograms DEF Passes
<1>3. "malformed" # Null /\ "failure" # Null
  BY NullAssumption
<1>4. \E cause : /\ Finish(cause) /\ cause \in {"malformed", "failure", Null}
                 /\ cause = Null <=> IsValid(p)
  <2> HIDE DEF ids
  <2>1. CASE BadCode(build.schema)
    BY <1>2, <1>3, <2>1 DEF Deploy
  <2>2. CASE ~BadCode(build.schema) /\ ~CanSerialize(build.schema, ids)
    BY <1>2, <1>3, <2>2 DEF Deploy, ids
  <2>3. CASE ~BadCode(build.schema) /\ CanSerialize(build.schema, ids)
    BY <1>2, <2>3 DEF Deploy, ids
  <2> QED
    BY <2>1, <2>2, <2>3
<1>5. PICK cause : Finish(cause) /\ (cause = Null <=> IsValid(p))
  BY <1>4
<1>6. RefusedForCause'
  BY <1>5 DEF Finish, RefusedForCause
<1> QED
  BY <1>5, <1>6, IdleIsOfItsProgram DEF Finish, BuildInv

LEMMA BuildInvNext == BuildInv /\ [Next]_vars => BuildInv'
<1> SUFFICES ASSUME BuildInv, [Next]_vars
             PROVE  BuildInv'
  OBVIOUS
<1>1. ASSUME UNCHANGED <<build, outcome>>
      PROVE  BuildInv'
  BY <1>1 DEF BuildInv, BuildIsOfItsProgram, RefusedForCause
<1>2. CASE \E p \in IF jayne.version = 0 THEN Programs ELSE NextPrograms : Stage(p)
  <2>1. PICK p \in Deployable : Stage(p)
    BY <1>2 DEF Deployable
  <2> QED
    BY <2>1, StageKeepsBuildInv
<1>3. CASE Compile
  BY <1>3, CompileKeepsBuildInv
<1>4. CASE Deploy
  BY <1>4, DeployKeepsBuildInv
<1>5. CASE Again
  BY <1>5 DEF Again, BuildInv, BuildIsOfItsProgram, RefusedForCause
<1>6. CASE Ask
  BY <1>1, <1>6 DEF Ask
<1>7. CASE RemoveFile
  BY <1>1, <1>7 DEF RemoveFile
<1>8. CASE Write
  BY <1>1, <1>8 DEF Write
<1>9. CASE Kill
  BY <1>1, <1>9 DEF Kill
<1>10. CASE \E f \in IndexFiles : Load(f)
  BY <1>1, <1>10 DEF Load
<1>11. CASE Restart
  BY <1>1, <1>11 DEF Restart
<1>12. CASE UNCHANGED vars
  BY <1>1, <1>12 DEF vars
<1> QED
  BY <1>2, <1>3, <1>4, <1>5, <1>6, <1>7, <1>8, <1>9, <1>10, <1>11, <1>12 DEF Next

LEMMA BuildIsInvariant == Spec => []BuildInv
  BY BuildInvInit, BuildInvNext, PTL DEF Spec

\* A worker is deployed only if its source keeps the compiler's rules for all classes
\* and Jayne's for those that are no default export, whichever of the compiler, the
\* parser and the serializer looks after each, and only TypeScript refuses one that
\* does.
THEOREM OnlyTheInvalidAreRefused == Spec => []RefusedForCause
<1>1. BuildInv => RefusedForCause
  BY DEF BuildInv
<1> QED
  BY BuildIsInvariant, <1>1, PTL


-----------------------------------------------------------------------------
(* Paths.                                                                  *)

\* The directories that are passed when the steps are taken.
Walks(w, from, steps) ==
    w = [i \in 0..Len(steps) |-> IF i = 0 THEN from ELSE StepFrom(w[i - 1], steps[i])]

LEMMA ResolveWalks ==
  ASSUME NEW from, NEW steps, Len(steps) \in Nat, NEW w, Walks(w, from, steps)
  PROVE  Resolve(from, steps) = w[Len(steps)]
<1> DEFINE n == Len(steps)
           at == CHOOSE f : Walks(f, from, steps)
<1>1. Resolve(from, steps) = at[n]
  BY DEF Resolve, Walks
<1>2. Walks(at, from, steps)
  OBVIOUS
<1> HIDE DEF at
<1>3. \A i \in 0..n : at[i] = w[i]
  <2> DEFINE B == {i \in 0..n : at[i] # w[i]}
  <2> SUFFICES ASSUME B # {} PROVE FALSE
    OBVIOUS
  <2>1. B \subseteq Nat
    OBVIOUS
  <2>2. PICK m \in B : \A b \in B : ~ (<<b, m>> \in OpToRel(<, Nat))
    <3> HIDE DEF B
    <3> QED
      BY <2>1, NatLessThanWellFounded, WFMin
  <2>3. \A b \in B : ~ (b < m)
    BY <2>2, <2>1 DEF OpToRel
  <2>4. m # 0
    BY <1>2 DEF Walks
  <2>5. m - 1 \in 0..n /\ at[m - 1] = w[m - 1]
    BY <2>3, <2>4
  <2>6. at[m] = StepFrom(at[m - 1], steps[m]) /\ w[m] = StepFrom(w[m - 1], steps[m])
    BY <1>2, <2>4 DEF Walks
  <2> QED
    BY <2>5, <2>6
<1> QED
  BY <1>1, <1>3

LEMMA SubSeqIs ==
  ASSUME NEW V, NEW s \in Seq(V), NEW k \in 0..Len(s)
  PROVE  SubSeq(s, 1, k) = [i \in 1..k |-> s[i]]
  BY LenProperties

LEMMA AppendIs ==
  ASSUME NEW V, NEW s \in Seq(V), NEW x \in V
  PROVE  /\ Append(s, x) \in Seq(V) /\ Len(Append(s, x)) = Len(s) + 1
         /\ Append(s, x)[Len(s) + 1] = x
         /\ \A i \in 1..Len(s) : Append(s, x)[i] = s[i]
  BY LenProperties

\* What two directories have in common.
LEMMA CommonDirectories ==
  ASSUME NEW V, NEW s \in Seq(V), NEW t \in Seq(V)
  PROVE  LET c == Len(LongestCommonPrefix({s, t}))
         IN  c \in 0..Len(s) /\ c <= Len(t) /\ \A i \in 1..c : s[i] = t[i]
<1> DEFINE C == CommonPrefixes({s, t})
           longest == LongestCommonPrefix({s, t})
           Rest == {Len(s) - Len(q) : q \in C}
<1>1. Len(s) \in Nat /\ Len(t) \in Nat
  BY LenProperties
<1>2. \A q \in C : /\ q \in Seq(V) /\ Len(q) \in 0..Len(s) /\ Len(q) <= Len(t)
                   /\ \A i \in 1..Len(q) : s[i] = t[i]
  <2> SUFFICES ASSUME NEW q \in C
               PROVE  /\ q \in Seq(V) /\ Len(q) \in 0..Len(s) /\ Len(q) <= Len(t)
                      /\ \A i \in 1..Len(q) : s[i] = t[i]
    OBVIOUS
  <2>1. PICK r \in {s, t} : \E l \in 0..Len(r) : q = SubSeq(r, 1, l)
    BY DEF CommonPrefixes, Prefixes
  <2>2. PICK l \in 0..Len(r) : q = SubSeq(r, 1, l)
    BY <2>1
  <2>3. q \in Seq(V) /\ Len(q) = l
    BY <1>1, <2>2
  <2>4. /\ Len(q) <= Len(s) /\ SubSeq(q, 1, Len(q)) = SubSeq(s, 1, Len(q))
        /\ Len(q) <= Len(t) /\ SubSeq(q, 1, Len(q)) = SubSeq(t, 1, Len(q))
    BY DEF CommonPrefixes, IsPrefix
  <2>5. Len(q) \in 0..Len(s) /\ Len(q) \in 0..Len(t)
    BY <1>1, <2>3, <2>4
  <2>6. [i \in 1..Len(q) |-> s[i]] = [i \in 1..Len(q) |-> t[i]]
    BY <2>4, <2>5, SubSeqIs
  <2>7. \A i \in 1..Len(q) : [j \in 1..Len(q) |-> s[j]][i] = [j \in 1..Len(q) |-> t[j]][i]
    BY <2>6
  <2> QED
    BY <2>3, <2>5, <2>7
<1>3. <<>> \in C
  <2>1. SubSeq(s, 1, 0) = <<>> /\ SubSeq(t, 1, 0) = <<>> /\ SubSeq(<<>>, 1, 0) = <<>>
    BY SubSeqEmpty
  <2>2. <<>> \in Prefixes(s)
    BY <1>1, <2>1 DEF Prefixes
  <2>3. IsPrefix(<<>>, s) /\ IsPrefix(<<>>, t)
    BY <1>1, <2>1 DEF IsPrefix
  <2> QED
    BY <2>2, <2>3 DEF CommonPrefixes
<1>4. \E q \in C : \A r \in C : Len(r) <= Len(q)
  <2>1. Rest \subseteq Nat /\ Rest # {}
    <3> HIDE DEF C
    <3>1. \A q \in C : Len(s) - Len(q) \in Nat
      BY <1>1, <1>2
    <3> QED
      BY <1>3, <3>1
  <2>2. PICK m \in Rest : \A b \in Rest : ~ (<<b, m>> \in OpToRel(<, Nat))
    <3> HIDE DEF Rest
    <3> QED
      BY <2>1, NatLessThanWellFounded, WFMin
  <2>3. \A b \in Rest : ~ (b < m)
    BY <2>2, <2>1 DEF OpToRel
  <2>4. PICK q \in C : m = Len(s) - Len(q)
    OBVIOUS
  <2>5. ASSUME NEW r \in C
        PROVE  Len(r) <= Len(q)
    <3>1. ~ (Len(s) - Len(r) < Len(s) - Len(q))
      BY <2>3, <2>4
    <3> QED
      BY <1>1, <1>2, <3>1
  <2> QED
    BY <2>5
<1>5. longest \in C
  <2>1. longest = CHOOSE q \in C : \A r \in C : Len(r) <= Len(q)
    BY DEF LongestCommonPrefix
  <2> HIDE DEF longest, C
  <2> QED
    BY <1>4, <2>1
<1> HIDE DEF longest, C
<1> QED
  BY <1>2, <1>5 DEF longest


\* A file is found by the path to it that is relative to a directory.
LEMMA RelativeLeadsThere ==
  ASSUME NEW V, NEW from \in Seq(V), NEW to \in Seq(V), NEW name \in V, ".." \in V,
         \A i \in 1..Len(to) : to[i] \notin {".", ".."}, name \notin {".", ".."}
  PROVE  Resolve(from, Append(Relative(from, to), name)) = Append(to, name)
<1> DEFINE c == Len(LongestCommonPrefix({from, to}))
           Lf == Len(from)
           Lt == Len(to)
           up == Lf - c
           m == Lt - c
           n == up + m + 1
           path == Append(to, name)
           climb == [i \in 1..up |-> ".."]
           rest == SubSeq(to, c + 1, Lt)
           steps == Append(Relative(from, to), name)
           w == [i \in 0..n |-> IF i <= up THEN SubSeq(from, 1, Lf - i)
                                ELSE SubSeq(path, 1, c + i - up)]
<1>1. Lf \in Nat /\ Lt \in Nat /\ c \in 0..Lf /\ c <= Lt /\ \A i \in 1..c : from[i] = to[i]
  <2>1. Lf \in Nat /\ Lt \in Nat
    BY LenProperties
  <2>2. c \in 0..Lf /\ c <= Lt /\ \A i \in 1..c : from[i] = to[i]
    BY CommonDirectories
  <2> QED
    BY <2>1, <2>2
<1>0. up \in Nat /\ m \in Nat /\ n \in Nat /\ n = up + m + 1 /\ Lf = c + up /\ Lt = c + m /\ c \in Nat
  BY <1>1
<1>2. /\ path \in Seq(V) /\ Len(path) = Lt + 1 /\ path[Lt + 1] = name
      /\ \A i \in 1..Lt : path[i] = to[i]
  BY AppendIs
<1>3. Relative(from, to) = climb \o rest
  BY DEF Relative
<1> HIDE DEF c, path, up, m, n
<1>4. climb \in Seq(V) /\ Len(climb) = up /\ \A i \in 1..up : climb[i] = ".."
  <2>1. up \in Nat
    BY <1>0
  <2>2. climb \in [1..up -> V]
    OBVIOUS
  <2> QED
    BY <2>1, <2>2, SeqDef, LenProperties
<1>5. rest \in Seq(V) /\ Len(rest) = m /\ \A i \in 1..m : rest[i] = to[c + i]
  <2>1. c + 1 \in Int /\ Lt \in Int /\ \A i \in (c + 1)..Lt : to[i] \in V
    BY <1>1, ElementOfSeq
  <2>2. /\ rest \in Seq(V) /\ Len(rest) = IF c + 1 <= Lt THEN Lt - (c + 1) + 1 ELSE 0
        /\ \A i \in 1..(Lt - (c + 1) + 1) : rest[i] = to[(c + 1) + i - 1]
    BY <2>1, SubSeqProperties
  <2>3. Lt - (c + 1) + 1 = m /\ (c + 1 <= Lt \/ m = 0) /\ \A i \in 1..m : (c + 1) + i - 1 = c + i
    BY <1>0
  <2> QED
    BY <1>0, <2>2, <2>3
<1> HIDE DEF climb, rest
<1> DEFINE both == climb \o rest
<1>6. /\ both \in Seq(V) /\ Len(both) = up + m
      /\ \A i \in 1..up : both[i] = ".."
      /\ \A i \in (up + 1)..(up + m) : both[i] = path[c + i - up]
  <2>1. /\ both \in Seq(V) /\ Len(both) = up + m
        /\ \A i \in 1..(up + m) : both[i] = IF i <= up THEN climb[i] ELSE rest[i - up]
    <3>1. climb \in Seq(V) /\ rest \in Seq(V)
      BY <1>4, <1>5
    <3>2. /\ both \in Seq(V) /\ Len(both) = Len(climb) + Len(rest)
          /\ \A i \in 1..(Len(climb) + Len(rest)) :
               both[i] = IF i <= Len(climb) THEN climb[i] ELSE rest[i - Len(climb)]
      BY <3>1, ConcatProperties
    <3> HIDE DEF both
    <3>3. Len(climb) = up /\ Len(rest) = m
      BY <1>4, <1>5
    <3> QED
      BY <3>2, <3>3
  <2> HIDE DEF both
  <2>2. \A i \in 1..m : rest[i] = path[c + i]
    BY <1>0, <1>2, <1>5
  <2>3. ASSUME NEW i \in 1..up
        PROVE  both[i] = ".."
    BY <1>0, <1>4, <2>1
  <2>4. ASSUME NEW i \in (up + 1)..(up + m)
        PROVE  both[i] = path[c + i - up]
    <3> DEFINE j == i - up
    <3>1. j \in 1..m /\ c + j = c + i - up /\ i \in 1..(up + m) /\ ~(i <= up)
      BY <1>0
    <3>2. both[i] = rest[j]
      BY <2>1, <3>1
    <3> HIDE DEF j
    <3> QED
      BY <2>2, <3>1, <3>2
  <2> QED
    BY <2>1, <2>3, <2>4
<1> HIDE DEF both
<1>7. /\ steps \in Seq(V) /\ Len(steps) = n
      /\ \A i \in 1..up : steps[i] = ".."
      /\ \A i \in (up + 1)..n : steps[i] = path[c + i - up]
  <2>1. steps = Append(both, name)
    BY <1>3 DEF both
  <2> HIDE DEF steps
  <2>2. /\ steps \in Seq(V) /\ Len(steps) = n /\ steps[n] = name
        /\ \A i \in 1..(up + m) : steps[i] = both[i]
    BY <1>0, <1>6, <2>1, AppendIs
  <2>3. ASSUME NEW i \in (up + 1)..n
        PROVE  steps[i] = path[c + i - up]
    <3>1. CASE i = n
      <4>1. c + i - up = Lt + 1
        BY <1>0, <3>1
      <4> QED
        BY <1>2, <2>2, <3>1, <4>1
    <3>2. CASE i # n
      BY <1>0, <1>6, <2>2, <3>2
    <3> QED
      BY <3>1, <3>2
  <2> QED
    BY <1>0, <1>6, <2>2, <2>3
<1> HIDE DEF steps
<1>8. ASSUME NEW i \in (up + 1)..n
      PROVE  steps[i] \notin {".", ".."}
  <2> DEFINE k == c + i - up
  <2>1. steps[i] = path[k] /\ (k \in 1..Lt \/ k = Lt + 1)
    BY <1>0, <1>7
  <2> HIDE DEF k
  <2> QED
    BY <1>2, <2>1
<1>9. w[0] = from
  <2>1. 0 \in 0..n /\ 0 <= up /\ Lf - 0 = Lf
    BY <1>0
  <2> QED
    BY <2>1, SubSeqFull
<1>10. ASSUME NEW i \in 1..n
       PROVE  w[i] = StepFrom(w[i - 1], steps[i])
  <2>1. CASE i <= up
    <3> DEFINE s == SubSeq(from, 1, Lf - (i - 1))
               k == Lf - i
    <3>1. w[i - 1] = s /\ w[i] = SubSeq(from, 1, k) /\ steps[i] = ".."
      BY <1>0, <1>7, <2>1
    <3>2. k \in 0..Lf /\ Lf - (i - 1) = k + 1 /\ k + 1 \in 0..Lf
      BY <1>0, <2>1
    <3>3. s \in Seq(V) /\ Len(s) = k + 1 /\ \A j \in 1..(k + 1) : s[j] = from[j]
      BY <3>2, SubSeqIs
    <3> HIDE DEF s, k
    <3>4. Front(s) = [j \in 1..k |-> s[j]]
      BY <3>2, <3>3, SubSeqIs DEF Front
    <3>5. SubSeq(from, 1, k) = [j \in 1..k |-> from[j]]
      BY <3>2, SubSeqIs
    <3>6. Front(s) = SubSeq(from, 1, k)
      BY <3>2, <3>3, <3>4, <3>5
    <3> QED
      BY <3>1, <3>6 DEF StepFrom
  <2>2. CASE i > up
    <3> DEFINE k == c + i - up
               s == SubSeq(path, 1, k - 1)
    <3>1. k \in 1..Len(path) /\ k - 1 \in 0..Len(path) /\ k \in 0..Len(path)
      BY <1>0, <1>2, <2>2
    <3>2. w[i] = SubSeq(path, 1, k) /\ steps[i] = path[k]
      BY <1>0, <1>7, <2>2
    <3>3. w[i - 1] = s
      <4>1. CASE i - 1 = up
        <5>1. w[i - 1] = SubSeq(from, 1, c) /\ k - 1 = c /\ c \in 0..Len(from)
          BY <1>0, <4>1
        <5>2. \A j \in 1..c : from[j] = path[j]
          BY <1>0, <1>1, <1>2
        <5>3. SubSeq(from, 1, c) = [j \in 1..c |-> from[j]]
          BY <5>1, SubSeqIs
        <5>4. s = [j \in 1..c |-> path[j]]
          BY <1>2, <3>1, <5>1, SubSeqIs
        <5> QED
          BY <5>1, <5>2, <5>3, <5>4
      <4>2. CASE i - 1 # up
        <5>1. i - 1 \in 0..n /\ ~(i - 1 <= up) /\ c + (i - 1) - up = k - 1
          BY <1>0, <2>2, <4>2
        <5> QED
          BY <5>1
      <4> QED
        BY <4>1, <4>2
    <3>4. s \in Seq(V) /\ Len(s) = k - 1 /\ \A j \in 1..(k - 1) : s[j] = path[j]
      BY <1>2, <3>1, SubSeqIs
    <3> HIDE DEF s, k
    <3>5. Append(s, path[k]) = SubSeq(path, 1, k)
      <4>1. k \in 1..k /\ path[k] \in V
        BY <1>2, <3>1, ElementOfSeq
      <4> DEFINE a == Append(s, path[k])
                 b == SubSeq(path, 1, k)
      <4>2. a \in Seq(V) /\ Len(a) = k /\ a[k] = path[k] /\ \A j \in 1..(k - 1) : a[j] = path[j]
        BY <3>1, <3>4, <4>1, AppendIs
      <4>3. b \in Seq(V) /\ Len(b) = k /\ \A j \in 1..k : b[j] = path[j]
        BY <1>2, <3>1, SubSeqIs
      <4> HIDE DEF a, b
      <4>4. \A j \in 1..Len(a) : a[j] = b[j]
        BY <3>1, <4>2, <4>3
      <4> QED
        BY <4>2, <4>3, <4>4, SeqEqual DEF a, b
    <3>6. steps[i] # "." /\ steps[i] # ".."
      <4>1. i \in (up + 1)..n
        BY <1>0, <2>2
      <4> QED
        BY <1>8, <4>1
    <3> QED
      BY <3>2, <3>3, <3>5, <3>6 DEF StepFrom
  <2> QED
    BY <1>0, <2>1, <2>2
<1>11. Walks(w, from, steps)
  <2>1. DOMAIN w = 0..Len(steps) /\ w = [i \in 0..Len(steps) |-> w[i]]
    BY <1>7
  <2> HIDE DEF w
  <2>2. \A i \in 0..n : w[i] = IF i = 0 THEN from ELSE StepFrom(w[i - 1], steps[i])
    BY <1>0, <1>9, <1>10
  <2> QED
    BY <1>7, <2>1, <2>2 DEF Walks
<1>12. Resolve(from, steps) = w[n]
  <2> HIDE DEF w
  <2>1. Len(steps) = n /\ Len(steps) \in Nat
    BY <1>0, <1>7
  <2>2. Resolve(from, steps) = w[Len(steps)]
    BY <1>11, <2>1, ResolveWalks
  <2> QED
    BY <2>1, <2>2
<1>13. w[n] = path
  <2>1. n \in 0..n /\ ~(n <= up) /\ c + n - up = Len(path)
    BY <1>0, <1>2
  <2>2. w[n] = SubSeq(path, 1, Len(path))
    BY <2>1
  <2> QED
    BY <1>2, <2>2, SubSeqFull
<1> QED
  BY <1>12, <1>13 DEF steps, path


LEMMA MinOfNumbers ==
  ASSUME NEW I \in SUBSET Nat, I # {}
  PROVE  Min(I) \in I /\ \A i \in I : Min(I) <= i
<1>1. PICK m \in I : \A i \in I : ~ (<<i, m>> \in OpToRel(<, Nat))
  BY NatLessThanWellFounded, WFMin
<1>2. \A i \in I : ~ (i < m)
  BY <1>1 DEF OpToRel
<1>3. \A i \in I : m <= i
  BY <1>2
<1> QED
  BY <1>3 DEF Min

\* What the staged import is, for an import of no runtime.
LEMMA UpdatedPathFacts ==
  ASSUME NEW p, IsProgram(p), NEW from, NEW import, ~import.ext,
         NEW V, Resolve(from, import.steps) \in Seq(V),
         \A s \in ToSet(Resolve(from, import.steps)) : s \notin RuntimeNames
  PROVE  LET res == Resolve(from, import.steps)
             updated == GetUpdatedPath(p, from, import)
         IN  \/ /\ \A u \in ToSet(p) : ModulePath(u) # res
                /\ updated = import
             \/ \E u \in ToSet(p) :
                  /\ ModulePath(u) = res
                  /\ ~IsTypeDef(u) =>
                       updated = [steps |-> Append(Relative(from, u.dir), u.name), ext |-> TRUE]
<1> DEFINE res == Resolve(from, import.steps)
           updated == GetUpdatedPath(p, from, import)
           R == {i \in 1..Len(res) : res[i] \in RuntimeNames}
           F == {i \in 1..Len(p) : ModulePath(p[i]) = res}
           runtime == SelectInSeq(res, LAMBDA s : s \in RuntimeNames)
           found == SelectInSeq(p, LAMBDA m : ModulePath(m) = res)
<1>1. Len(p) \in Nat /\ DOMAIN p = 1..Len(p)
  BY ProgramFacts, SequenceFacts
<1>2. runtime = 0
  <2>1. R = {}
    BY LenProperties DEF ToSet
  <2>2. runtime = IF R # {} THEN Min(R) ELSE 0
    BY DEF SelectInSeq
  <2> HIDE DEF runtime, R
  <2> QED
    BY <2>1, <2>2
<1>3. found = IF F # {} THEN Min(F) ELSE 0
  BY DEF SelectInSeq
<1>4. updated = CASE ~import.ext /\ runtime > 0 -> [steps |-> SubSeq(res, runtime, Len(res)), ext |-> FALSE]
                  [] ~import.ext /\ runtime = 0 /\ found > 0 ->
                       IF IsTypeDef(p[found]) THEN import
                       ELSE [steps |-> Append(Relative(from, p[found].dir), p[found].name), ext |-> TRUE]
                  [] OTHER -> import
  BY DEF GetUpdatedPath
<1> HIDE DEF updated, runtime, found
<1>5. CASE F = {}
  <2>1. updated = import
    BY <1>2, <1>3, <1>4, <1>5
  <2>2. \A u \in ToSet(p) : ModulePath(u) # res
    BY <1>1, <1>5 DEF ToSet
  <2> QED
    BY <2>1, <2>2 DEF updated
<1>6. CASE F # {}
  <2>1. Min(F) \in F
    BY <1>1, <1>6, MinOfNumbers
  <2>2. found \in 1..Len(p) /\ ModulePath(p[found]) = res
    BY <1>3, <1>6, <2>1
  <2>3. found > 0 /\ ~(runtime > 0)
    BY <1>1, <1>2, <2>2
  <2>4. ~IsTypeDef(p[found]) =>
          updated = [steps |-> Append(Relative(from, p[found].dir), p[found].name), ext |-> TRUE]
    BY <1>2, <1>4, <2>3
  <2>5. p[found] \in ToSet(p)
    BY <1>1, <2>2 DEF ToSet
  <2> QED
    BY <2>2, <2>4, <2>5 DEF updated
<1> QED
  BY <1>5, <1>6

LEMMA ImportReachesItsModule ==
  ASSUME NEW p, IsProgram(p), NEW m \in ToSet(p), NEW import, IsImport(import), ~import.ext,
         \A s \in ToSet(Resolve(m.dir, import.steps)) : s \notin RuntimeNames,
         NEW t \in Targets(p, m.dir, import.steps), ~IsTypeDef(t),
         Cardinality(Targets(p, m.dir, import.steps)) = 1
  PROVE  Resolve(m.dir, GetUpdatedPath(p, m.dir, import).steps) = Append(t.dir, t.name)
<1> DEFINE res == Resolve(m.dir, import.steps)
           T == Targets(p, m.dir, import.steps)
           V == ToSet(m.dir) \cup ToSet(t.dir) \cup {"..", t.name}
           Is(u) == res = Append(u.dir, u.name) \/ (u.name = "index" /\ res = u.dir)
<1>1. T = {u \in ToSet(p) : Is(u)} /\ t \in ToSet(p) /\ Is(t)
  BY DEF Targets
<1>2. IsFile(m) /\ IsFile(t)
  BY <1>1 DEF IsProgram
<1>3. m.dir \in Seq(V) /\ t.dir \in Seq(V) /\ t.name \in V
  <2>1. m.dir \in Seq(ToSet(m.dir)) /\ t.dir \in Seq(ToSet(t.dir))
    BY <1>2 DEF IsFile, IsSequence
  <2>2. ToSet(m.dir) \subseteq V /\ ToSet(t.dir) \subseteq V
    OBVIOUS
  <2> HIDE DEF V
  <2> QED
    BY <2>1, <2>2, SeqMonotonic DEF V
<1>4. res \in Seq(V)
  <2> HIDE DEF V
  <2>1. Append(t.dir, t.name) \in Seq(V)
    BY <1>3
  <2> QED
    BY <1>1, <1>3, <2>1
<1>5. \A u \in ToSet(p) : ModulePath(u) = res => u \in T
  BY <1>1 DEF ModulePath
<1>6. \A u \in T : u = t
  <2>1. IsFiniteSet(T)
    <3>1. Len(p) \in Nat /\ DOMAIN p = 1..Len(p)
      BY ProgramFacts, SequenceFacts
    <3>2. 1 \in Int /\ Len(p) \in Int
      BY <3>1
    <3>3. IsFiniteSet(DOMAIN p)
      BY <3>1, <3>2, FS_Interval
    <3> DEFINE f == [i \in DOMAIN p |-> p[i]]
    <3>4. f \in Surjection(DOMAIN p, ToSet(p))
      BY DEF Surjection, ToSet
    <3>5. IsFiniteSet(ToSet(p))
      <4> HIDE DEF f
      <4> QED
        BY <3>3, <3>4, FS_Surjection
    <3>6. T \in SUBSET ToSet(p)
      BY <1>1
    <3> QED
      BY <3>5, <3>6, FS_Subset
  <2> HIDE DEF T
  <2>2. \E x : T = {x}
    BY <2>1, FS_Singleton DEF T
  <2> QED
    BY <2>2 DEF T
<1> HIDE DEF T
<1>7. \/ /\ \A u \in ToSet(p) : ModulePath(u) # res
         /\ GetUpdatedPath(p, m.dir, import) = import
      \/ \E u \in ToSet(p) :
           /\ ModulePath(u) = res
           /\ ~IsTypeDef(u) =>
                GetUpdatedPath(p, m.dir, import)
                  = [steps |-> Append(Relative(m.dir, u.dir), u.name), ext |-> TRUE]
  <2> HIDE DEF V
  <2> QED
    BY <1>4, UpdatedPathFacts
<1>8. CASE /\ \A u \in ToSet(p) : ModulePath(u) # res
           /\ GetUpdatedPath(p, m.dir, import) = import
  <2>1. res = Append(t.dir, t.name)
    BY <1>1, <1>8 DEF ModulePath
  <2> QED
    BY <1>8, <2>1
<1>9. CASE \E u \in ToSet(p) :
             /\ ModulePath(u) = res
             /\ ~IsTypeDef(u) =>
                  GetUpdatedPath(p, m.dir, import)
                    = [steps |-> Append(Relative(m.dir, u.dir), u.name), ext |-> TRUE]
  <2>1. PICK u \in ToSet(p) :
             /\ ModulePath(u) = res
             /\ ~IsTypeDef(u) =>
                  GetUpdatedPath(p, m.dir, import)
                    = [steps |-> Append(Relative(m.dir, u.dir), u.name), ext |-> TRUE]
    BY <1>9
  <2>2. u = t
    BY <1>5, <1>6, <2>1
  <2>3. GetUpdatedPath(p, m.dir, import).steps = Append(Relative(m.dir, t.dir), t.name)
    BY <2>1, <2>2
  <2>4. /\ \A i \in 1..Len(t.dir) : t.dir[i] \notin {".", ".."}
        /\ t.name \notin {".", ".."}
    BY <1>2, SequenceFacts DEF IsFile, ToSet
  <2>5. Resolve(m.dir, Append(Relative(m.dir, t.dir), t.name)) = Append(t.dir, t.name)
    <3>1. ".." \in V
      OBVIOUS
    <3> HIDE DEF V
    <3> QED
      BY <1>3, <2>4, <3>1, RelativeLeadsThere
  <2> QED
    BY <2>3, <2>5
<1> QED
  BY <1>7, <1>8, <1>9

\* The paths that the compiler leaves in import declarations lead to the very file
\* that the imported module is compiled to, in any tree of modules.
THEOREM ImportsLeadToTheirModule == Spec => []ImportsReachTheirModule
<1>1. BuildInv => ImportsReachTheirModule
  <2> SUFFICES ASSUME BuildInv, build.pc = "staged",
                      NEW i \in DOMAIN build.program, NEW j \in DOMAIN build.program[i].imports,
                      ~build.program[i].imports[j].ext,
                      \A s \in ToSet(Resolve(build.program[i].dir, build.program[i].imports[j].steps)) :
                        s \notin RuntimeNames,
                      NEW t \in Targets(build.program, build.program[i].dir,
                                        build.program[i].imports[j].steps),
                      ~IsTypeDef(t),
                      Cardinality(Targets(build.program, build.program[i].dir,
                                          build.program[i].imports[j].steps)) = 1
               PROVE  Resolve(build.program[i].dir, build.schema[i].imports[j].steps)
                        = Append(t.dir, t.name)
    BY DEF ImportsReachTheirModule
  <2> DEFINE p == build.program
             m == p[i]
             import == m.imports[j]
  <2>1. p \in Deployable /\ build.schema = StageTransformer(p)
    BY DEF BuildInv, BuildIsOfItsProgram
  <2>2. IsProgram(p)
    BY <2>1, DeployableFacts
  <2>3. m \in ToSet(p) /\ DOMAIN m = {"dir", "name", "ext", "imports", "decls", "text"} /\ IsFile(m)
    BY <2>2, ProgramFacts DEF ToSet
  <2>4. IsImport(import)
    BY <2>3 DEF IsFile, ToSet
  <2>5. build.schema[i].imports[j] = GetUpdatedPath(p, m.dir, import)
    <3> DEFINE imports == [k \in DOMAIN m.imports |-> GetUpdatedPath(p, m.dir, m.imports[k])]
    <3>1. build.schema[i] = [m EXCEPT !.imports = imports]
      BY <2>1 DEF StageTransformer
    <3>2. build.schema[i].imports = imports
      <4> HIDE DEF imports, m
      <4> QED
        BY <2>3, <3>1
    <3> QED
      BY <3>2
  <2>6. /\ ~import.ext /\ t \in Targets(p, m.dir, import.steps) /\ ~IsTypeDef(t)
        /\ \A s \in ToSet(Resolve(m.dir, import.steps)) : s \notin RuntimeNames
        /\ Cardinality(Targets(p, m.dir, import.steps)) = 1
    OBVIOUS
  <2>7. m \in ToSet(p)
    BY <2>3
  <2>8. Resolve(m.dir, GetUpdatedPath(p, m.dir, import).steps) = Append(t.dir, t.name)
    <3> HIDE DEF p, m, import
    <3> QED
      BY <2>2, <2>4, <2>6, <2>7, ImportReachesItsModule
  <2> QED
    BY <2>5, <2>8
<1> QED
  BY BuildIsInvariant, <1>1, PTL


-----------------------------------------------------------------------------
(* The index of a version of the worker.                                   *)

LEMMA ReadsWhatIsWritten ==
  ASSUME NEW schema, NEW given, NEW f \in DOMAIN given, f # "value"
  PROVE  Read(schema, Create(schema, given), f) = given[f]
  BY DEF Read, Create, IsDefault

\* The tables of the classes of a kind as the index has them.
Written(schema, q, base, ids) ==
    LET classes == ClassesOf(q, base)
    IN  [i \in DOMAIN classes |-> Create(schema, ClassTable(classes[i], ids))]

WrittenServices(q, ids) ==
    LET classes == ClassesOf(q, "Service")
    IN  [i \in DOMAIN classes |-> Create(ServiceClassProto, ServiceTable(classes[i], ids))]

LEMMA IndexFields ==
  ASSUME NEW q, NEW version, NEW ids
  PROVE  LET Of(f) == Read(WorkerIndexProto, SerializeWorkerIndex(q, version, ids), f)
         IN  /\ Of("workerId") = WorkerId /\ Of("workerVersion") = version
             /\ Of("freeClasses") = Written(FreeClassProto, q, "none", ids)
             /\ Of("dataClasses") = Written(DataClassProto, q, "Data", ids)
             /\ Of("messageClasses") = Written(MessageClassProto, q, "Message", ids)
             /\ Of("serviceClasses") = WrittenServices(q, ids)
<1> DEFINE service == ClassesOf(q, "Service")
           function == Functions(q)
           Vector(schema, base) ==
             LET tables == Tables(ClassesOf(q, base), ids)
             IN  [i \in DOMAIN tables |-> Create(schema, tables[i])]
           names == [i \in DOMAIN q |->
              Create(WorkerFileNameProto, [fileNameId |-> i, fileName |-> q[i].name])]
           functions == [i \in DOMAIN function |->
              Create(FreeFunctionProto, [sourceCode |-> function[i], arguments |-> <<>>,
                 functionName |-> function[i].name, returnType |-> "any"])]
           services == [i \in DOMAIN service |->
              Create(ServiceClassProto, ServiceTable(service[i], ids))]
           none == Vector(FreeClassProto, "none")
           data == Vector(DataClassProto, "Data")
           message == Vector(MessageClassProto, "Message")
           given == [isDebug |-> TRUE, workerId |-> WorkerId, workerVersion |-> version,
                     workerName |-> WorkerName, workerLanguage |-> 0, fileNames |-> names,
                     freeFunctions |-> functions, freeClasses |-> none,
                     serviceClasses |-> services, dataClasses |-> data,
                     messageClasses |-> message]
<1>1. SerializeWorkerIndex(q, version, ids) = Create(WorkerIndexProto, given)
  BY DEF SerializeWorkerIndex
<1>2. \A schema, base : Vector(schema, base) = Written(schema, q, base, ids)
  BY DEF Written, Tables
<1>3. services = WrittenServices(q, ids)
  BY DEF WrittenServices
<1>4. none = Written(FreeClassProto, q, "none", ids) /\ data = Written(DataClassProto, q, "Data", ids)
      /\ message = Written(MessageClassProto, q, "Message", ids)
  BY <1>2
<1> HIDE DEF names, functions, services, none, data, message
<1>5. /\ given.workerId = WorkerId /\ given.workerVersion = version
      /\ given.freeClasses = none /\ given.dataClasses = data
      /\ given.messageClasses = message /\ given.serviceClasses = services
      /\ {"workerId", "workerVersion", "freeClasses", "dataClasses", "messageClasses",
          "serviceClasses"} \subseteq DOMAIN given
  OBVIOUS
<1> HIDE DEF given
<1>6. \A f \in DOMAIN given : f # "value" =>
        Read(WorkerIndexProto, SerializeWorkerIndex(q, version, ids), f) = given[f]
  BY <1>1, ReadsWhatIsWritten
<1> QED
  BY <1>3, <1>4, <1>5, <1>6

LEMMA ClassTableReads ==
  ASSUME NEW c, NEW ids, c.base \in {"Data", "Message"},
         NEW schema \in {DataClassProto, MessageClassProto}
  PROVE  LET table == Create(schema, ClassTable(c, ids))
         IN  /\ Read(schema, table, "className") = c.name
             /\ Read(schema, table, "classId") = ids[c.name]
<1> DEFINE given == ClassTable(c, ids)
<1>1. /\ given["className"] = c.name /\ given["classId"] = ids[c.name]
      /\ "className" \in DOMAIN given /\ "classId" \in DOMAIN given
  BY DEF ClassTable, Bases
<1> HIDE DEF given
<1>2. Read(schema, Create(schema, given), "className") = given["className"]
  BY <1>1, ReadsWhatIsWritten
<1>3. Read(schema, Create(schema, given), "classId") = given["classId"]
  BY <1>1, ReadsWhatIsWritten
<1> QED
  BY <1>1, <1>2, <1>3 DEF given

LEMMA ServiceTableReads ==
  ASSUME NEW c, NEW ids
  PROVE  LET table == Create(ServiceClassProto, ServiceTable(c, ids))
         IN  /\ Read(ServiceClassProto, table, "className") = c.name
             /\ Read(ServiceClassProto, table, "classId") = ids[c.name]
             /\ Read(ServiceClassProto, table, "methods") = [i \in DOMAIN Called(c) |-> ServiceMethod(c, i)]
<1> DEFINE given == ServiceTable(c, ids)
           methods == [i \in DOMAIN Called(c) |-> ServiceMethod(c, i)]
<1>1. /\ given = [classId |-> ids[c.name], className |-> c.name, fileNameId |-> c.file,
                  methods |-> methods]
  BY DEF ServiceTable
<1> HIDE DEF methods, given
<1>2. /\ given["className"] = c.name /\ given["classId"] = ids[c.name] /\ given["methods"] = methods
      /\ {"className", "classId", "methods"} \subseteq DOMAIN given
  BY <1>1
<1>3. \A f \in DOMAIN given : f # "value" =>
        Read(ServiceClassProto, Create(ServiceClassProto, given), f) = given[f]
  BY ReadsWhatIsWritten
<1> QED
  BY <1>2, <1>3 DEF given, methods

LEMMA ServiceMethodReads ==
  ASSUME NEW c, NEW i
  PROVE  /\ Read(ServiceMethodProto, ServiceMethod(c, i), "methodId") = UserMethodIdStart + i - 1
         /\ Read(ServiceMethodProto, ServiceMethod(c, i), "methodName") = Called(c)[i].name
<1> DEFINE given == [methodId |-> UserMethodIdStart + i - 1, methodName |-> Called(c)[i].name,
                     arguments |-> <<>>, returnType |-> "any"]
<1>1. /\ given["methodId"] = UserMethodIdStart + i - 1 /\ given["methodName"] = Called(c)[i].name
      /\ "methodId" \in DOMAIN given /\ "methodName" \in DOMAIN given
  OBVIOUS
<1>2. ServiceMethod(c, i) = Create(ServiceMethodProto, given)
  BY DEF ServiceMethod
<1> HIDE DEF given
<1>3. \A f \in DOMAIN given : f # "value" =>
        Read(ServiceMethodProto, ServiceMethod(c, i), f) = given[f]
  BY <1>2, ReadsWhatIsWritten
<1> QED
  BY <1>1, <1>3


LEMMA ClassesOfFacts ==
  ASSUME NEW q, HasDecls(q), NEW base
  PROVE  /\ IsSequence(ClassesOf(q, base))
         /\ base \in Bases => ToSet(ClassesOf(q, base)) = {c \in ToSet(Classes(q)) : c.base = base}
<1> DEFINE I == {i \in DOMAIN Classes(q) :
                   Classes(q)[i].base = base \/ (base = "none" /\ Classes(q)[i].base \notin Bases)}
<1>1. ClassesOf(q, base) = Pick(Classes(q), I)
  BY DEF ClassesOf, Select
<1>2. I \in SUBSET (DOMAIN Classes(q)) /\ IsSequence(Classes(q))
  BY DeclsAreSequence DEF Classes
<1> HIDE DEF I
<1>3. IsSequence(ClassesOf(q, base)) /\ ToSet(ClassesOf(q, base)) = {Classes(q)[i] : i \in I}
  BY <1>1, <1>2, PickIsSequence
<1>4. base \in Bases => I = {i \in DOMAIN Classes(q) : Classes(q)[i].base = base}
  BY DEF I, Bases
<1> QED
  BY <1>3, <1>4 DEF ToSet

LEMMA ManagedNamesFacts ==
  ASSUME NEW q, HasDecls(q)
  PROVE  ToSet(ManagedNames(q)) = {c.name : c \in {d \in ToSet(Classes(q)) : d.base \in Bases}}
<1> DEFINE I == {i \in DOMAIN Classes(q) : Classes(q)[i].base \in Bases}
           managed == Pick(Classes(q), I)
<1>1. ManagedNames(q) = [i \in DOMAIN managed |-> managed[i].name]
  BY DEF ManagedNames, Select
<1>2. I \in SUBSET (DOMAIN Classes(q)) /\ IsSequence(Classes(q))
  BY DeclsAreSequence DEF Classes
<1>3. ToSet(managed) = {Classes(q)[i] : i \in I}
  <2> HIDE DEF I
  <2> QED
    BY <1>2, PickIsSequence
<1>4. ToSet(managed) = {d \in ToSet(Classes(q)) : d.base \in Bases}
  BY <1>3 DEF ToSet
<1> HIDE DEF managed
<1>5. ToSet(ManagedNames(q)) = {c.name : c \in ToSet(managed)}
  BY <1>1 DEF ToSet
<1> QED
  BY <1>4, <1>5

\* A class of the compiled program is one that was written.
Compiled(c, d) ==
    /\ c.name = d.name /\ c.base = d.base /\ c.ctor = d.ctor /\ c.members = WorkerMembers(d)

LEMMA SchemaClasses ==
  ASSUME NEW p \in Deployable
  PROVE  LET S == ToSet(Classes(Schema(p)))
             T == Places(p, "class")
         IN  /\ \A c \in S : \E y \in T : Compiled(c, DeclAt(p, y))
             /\ \A y \in T : \E c \in S : Compiled(c, DeclAt(p, y))
             /\ ToSet(Classes(p)) = {At(p, y) : y \in T}
             /\ \A y \in T : /\ IsClassDecl(DeclAt(p, y)) /\ At(p, y).name = DeclAt(p, y).name
                             /\ At(p, y).base = DeclAt(p, y).base
                             /\ At(p, y).members = DeclAt(p, y).members
<1> DEFINE s == Schema(p)
           T == Places(p, "class")
           X == Places(s, "class")
<1>1. IsProgram(p) /\ HasDecls(p) /\ HasDecls(s)
  BY DeployableFacts, ProgramFacts, SchemaFacts
<1>2. \A y \in T : IsClassDecl(DeclAt(p, y)) /\ IsDeclaration(DeclAt(p, y))
  BY DeployableFacts DEF IsClassDecl
<1>3. ToSet(Classes(p)) = {At(p, y) : y \in T} /\ ToSet(Classes(s)) = {At(s, x) : x \in X}
  BY <1>1, DeclsAreSequence DEF Classes
<1>4. /\ \A x \in X : Source(p, x) \in T /\ DeclAt(s, x) = WorkerDecl(DeclAt(p, Source(p, x)))
      /\ \A y \in T : \E x \in X : y = Source(p, x)
  BY <1>1, SchemaPlaces
<1> HIDE DEF s, X, T
<1>5. ASSUME NEW y \in T
      PROVE  /\ At(p, y).name = DeclAt(p, y).name /\ At(p, y).base = DeclAt(p, y).base
             /\ At(p, y).members = DeclAt(p, y).members
  BY <1>1, <1>2, AtFields, ClassDeclFacts DEF T
<1>6. ASSUME NEW x \in X
      PROVE  Compiled(At(s, x), DeclAt(p, Source(p, x)))
  <2> DEFINE d == DeclAt(p, Source(p, x))
             w == WorkerDecl(d)
  <2>1. IsClassDecl(d) /\ IsDeclaration(d) /\ DeclAt(s, x) = w
    BY <1>2, <1>4
  <2> HIDE DEF d
  <2>2. DOMAIN w = {"is", "name", "byDefault", "base", "ctor", "members"} /\ w.name = d.name
        /\ w.base = d.base /\ w.ctor = d.ctor /\ w.members = WorkerMembers(d)
    BY <2>1, WorkerDeclFacts, ClassDeclFacts
  <2> HIDE DEF w
  <2>3. /\ At(s, x).name = w.name /\ At(s, x).base = w.base
        /\ At(s, x).ctor = w.ctor /\ At(s, x).members = w.members
    BY <1>1, <2>1, <2>2, AtFields DEF X
  <2> QED
    BY <2>2, <2>3 DEF Compiled, d
<1> QED
  BY <1>2, <1>3, <1>4, <1>5, <1>6 DEF s, T

-----------------------------------------------------------------------------
(* The classes that a client registers.                                    *)

LEMMA ConcatIsSequence ==
  ASSUME NEW a, NEW b, IsSequence(a), IsSequence(b)
  PROVE  IsSequence(a \o b) /\ ToSet(a \o b) = ToSet(a) \cup ToSet(b)
<1> DEFINE V == ToSet(a) \cup ToSet(b)
           s == a \o b
<1>1. a \in Seq(V) /\ b \in Seq(V)
  <2>1. a \in Seq(ToSet(a)) /\ b \in Seq(ToSet(b)) /\ ToSet(a) \subseteq V /\ ToSet(b) \subseteq V
    BY DEF IsSequence
  <2> HIDE DEF V
  <2> QED
    BY <2>1, SeqMonotonic
<1>2. /\ Len(a) \in Nat /\ DOMAIN a = 1..Len(a) /\ Len(b) \in Nat /\ DOMAIN b = 1..Len(b)
  BY SequenceFacts
<1> HIDE DEF V
<1>3. /\ s \in Seq(V) /\ Len(s) = Len(a) + Len(b)
      /\ \A i \in 1..(Len(a) + Len(b)) : s[i] = IF i <= Len(a) THEN a[i] ELSE b[i - Len(a)]
  BY <1>1, ConcatProperties
<1> HIDE DEF s
<1>4. DOMAIN s = 1..(Len(a) + Len(b))
  BY <1>3, LenProperties
<1>5. ASSUME NEW x \in ToSet(s) PROVE x \in ToSet(a) \cup ToSet(b)
  <2>1. PICK i \in 1..(Len(a) + Len(b)) : s[i] = x
    BY <1>4 DEF ToSet
  <2>2. CASE i <= Len(a)
    <3>1. i \in DOMAIN a /\ a[i] = x
      BY <1>2, <1>3, <2>1, <2>2
    <3> QED
      BY <3>1 DEF ToSet
  <2>3. CASE ~(i <= Len(a))
    <3>1. i - Len(a) \in DOMAIN b /\ b[i - Len(a)] = x
      BY <1>2, <1>3, <2>1, <2>3
    <3> QED
      BY <3>1 DEF ToSet
  <2> QED
    BY <2>2, <2>3
<1>6. ASSUME NEW i \in DOMAIN a PROVE a[i] \in ToSet(s)
  <2>1. i \in DOMAIN s /\ s[i] = a[i]
    BY <1>2, <1>3, <1>4
  <2> QED
    BY <2>1 DEF ToSet
<1>7. ASSUME NEW i \in DOMAIN b PROVE b[i] \in ToSet(s)
  <2>1. Len(a) + i \in DOMAIN s /\ ~(Len(a) + i <= Len(a)) /\ (Len(a) + i) - Len(a) = i
    BY <1>2, <1>4
  <2>2. s[Len(a) + i] = b[i]
    BY <1>3, <1>4, <2>1
  <2> QED
    BY <2>1, <2>2 DEF ToSet
<1>8. ToSet(s) = ToSet(a) \cup ToSet(b)
  BY <1>5, <1>6, <1>7 DEF ToSet
<1> QED
  BY <1>3, <1>8 DEF IsSequence, s, V

\* A version that was deployed: its program and the ids of its classes.
IsGeneration(h) ==
    /\ h.program \in Deployable /\ Passes(h.program) /\ ~BadCode(Schema(h.program))
    /\ DOMAIN h.ids = ToSet(ManagedNames(Schema(h.program)))

IndexAt(h, v) == SerializeWorkerIndex(Schema(h.program), v, h.ids)

\* What is registered of a client stands for a class of the version.
StandsFor(c, h, v) ==
    /\ c.key.workerKey = WorkerKey(IndexAt(h, v))
    /\ c.name \in DOMAIN h.ids /\ h.ids[c.name] = c.key.classId
    /\ \E w \in ToSet(Classes(h.program)) : w.name = c.name /\ w.base = c.key.kind

\* The tables of a kind of classes that are registered.
TablesOf(index, kind) ==
    Read(WorkerIndexProto, index,
         CASE kind = "Data" -> "dataClasses" [] kind = "Message" -> "messageClasses"
           [] OTHER -> "serviceClasses")
SchemaOf(kind) ==
    CASE kind = "Data" -> DataClassProto [] kind = "Message" -> MessageClassProto
      [] OTHER -> ServiceClassProto

LEMMA RegistrationFacts ==
  ASSUME NEW h, IsGeneration(h), NEW v, NEW kind \in Bases
  PROVE  LET index == IndexAt(h, v)
             q == Schema(h.program)
             r == Registrations(index, kind, SchemaOf(kind), TablesOf(index, kind))
         IN  /\ IsSequence(r) /\ \A c \in ToSet(r) : StandsFor(c, h, v)
             /\ {c.name : c \in ToSet(r)} = {c.name : c \in {d \in ToSet(Classes(q)) : d.base = kind}}
<1> DEFINE p == h.program
           q == Schema(p)
           index == IndexAt(h, v)
           tables == TablesOf(index, kind)
           classes == ClassesOf(q, kind)
           schema == SchemaOf(kind)
           r == Registrations(index, kind, schema, tables)
<1>1. IsProgram(p) /\ HasDecls(q) /\ p \in Deployable /\ DOMAIN h.ids = ToSet(ManagedNames(q))
  BY DeployableFacts, SchemaFacts DEF IsGeneration
<1>2. /\ IsSequence(classes) /\ ToSet(classes) = {c \in ToSet(Classes(q)) : c.base = kind}
  BY <1>1, ClassesOfFacts
<1>3. /\ kind = "Service" => tables = WrittenServices(q, h.ids) /\ schema = ServiceClassProto
      /\ kind = "Data" => tables = Written(DataClassProto, q, "Data", h.ids) /\ schema = DataClassProto
      /\ kind = "Message" =>
           tables = Written(MessageClassProto, q, "Message", h.ids) /\ schema = MessageClassProto
  BY IndexFields DEF IndexAt, TablesOf, SchemaOf
<1>4. Len(classes) \in Nat /\ DOMAIN classes = 1..Len(classes)
  BY <1>2, SequenceFacts
<1> HIDE DEF q, p, schema, index
<1>5. /\ DOMAIN tables = DOMAIN classes
      /\ \A i \in DOMAIN classes :
           /\ Read(schema, tables[i], "className") = classes[i].name
           /\ Read(schema, tables[i], "classId") = h.ids[classes[i].name]
  <2> HIDE DEF tables
  <2>1. CASE kind = "Service"
    <3>1. tables = [i \in DOMAIN classes |-> Create(ServiceClassProto, ServiceTable(classes[i], h.ids))]
      BY <1>3, <2>1 DEF WrittenServices
    <3> HIDE DEF classes
    <3> QED
      BY <1>3, <2>1, <3>1, ServiceTableReads
  <2>2. CASE kind # "Service"
    <3>1. kind \in {"Data", "Message"} /\ schema \in {DataClassProto, MessageClassProto}
      BY <1>3, <2>2 DEF Bases
    <3>2. tables = [i \in DOMAIN classes |-> Create(schema, ClassTable(classes[i], h.ids))]
      BY <1>3, <3>1 DEF Written
    <3>3. \A i \in DOMAIN classes : classes[i].base = kind
      BY <1>2 DEF ToSet
    <3> HIDE DEF classes
    <3>4. ASSUME NEW i \in DOMAIN classes
          PROVE  /\ Read(schema, tables[i], "className") = classes[i].name
                 /\ Read(schema, tables[i], "classId") = h.ids[classes[i].name]
      <4>1. classes[i].base \in {"Data", "Message"} /\ tables[i] = Create(schema, ClassTable(classes[i], h.ids))
        BY <3>1, <3>2, <3>3
      <4> QED
        BY <3>1, <4>1, ClassTableReads
    <3> QED
      BY <3>2, <3>4
  <2> QED
    BY <2>1, <2>2
<1> HIDE DEF tables, classes
<1>6. r = [i \in DOMAIN classes |->
             [name |-> classes[i].name, base |-> kind,
              key |-> [kind |-> kind, workerKey |-> WorkerKey(index),
                       classId |-> h.ids[classes[i].name]]]]
  BY <1>5 DEF Registrations
<1> HIDE DEF r
<1>7. IsSequence(r)
  <2>1. r = [i \in 1..Len(classes) |-> r[i]]
    BY <1>4, <1>6
  <2> QED
    BY <1>4, <2>1, ListIsSequence
<1>8. ASSUME NEW i \in DOMAIN classes
      PROVE  StandsFor(r[i], h, v) /\ r[i].name = classes[i].name
  <2>1. /\ r[i].name = classes[i].name /\ r[i].key.workerKey = WorkerKey(index)
        /\ r[i].key.classId = h.ids[classes[i].name] /\ r[i].key.kind = kind
    BY <1>6
  <2>2. classes[i] \in ToSet(Classes(q)) /\ classes[i].base = kind
    BY <1>2 DEF ToSet
  <2>3. classes[i].name \in DOMAIN h.ids
    BY <1>1, <2>2, ManagedNamesFacts
  <2>4. PICK y \in Places(p, "class") : Compiled(classes[i], DeclAt(p, y))
    BY <1>1, <2>2, SchemaClasses DEF q
  <2>5. /\ At(p, y) \in ToSet(Classes(p)) /\ At(p, y).name = DeclAt(p, y).name
        /\ At(p, y).base = DeclAt(p, y).base
    BY <1>1, SchemaClasses
  <2>6. At(p, y).name = classes[i].name /\ At(p, y).base = kind
    BY <2>2, <2>4, <2>5 DEF Compiled
  <2> QED
    BY <2>1, <2>3, <2>5, <2>6 DEF StandsFor, p, index
<1>9. DOMAIN r = DOMAIN classes
  BY <1>6
<1>10. \A c \in ToSet(r) : StandsFor(c, h, v)
  BY <1>8, <1>9 DEF ToSet
<1>11. {c.name : c \in ToSet(r)} = {c.name : c \in ToSet(classes)}
  BY <1>8, <1>9 DEF ToSet
<1> QED
  BY <1>2, <1>7, <1>10, <1>11 DEF r, q, p, index, tables, schema


LEMMA ClientFacts ==
  ASSUME NEW h, IsGeneration(h), NEW v, NEW isEsm
  PROVE  LET client == GenerateClient(IndexAt(h, v), isEsm)
         IN  /\ client.worker = WorkerKey(IndexAt(h, v))
             /\ \A c \in ToSet(client.classes) : c.key # Null => StandsFor(c, h, v)
             /\ \A c \in ToSet(Classes(Schema(h.program))) :
                  c.base = "Service" => c.name \in client.exports
<1> DEFINE q == Schema(h.program)
           index == IndexAt(h, v)
           Of(f) == Read(WorkerIndexProto, index, f)
           client == GenerateClient(index, isEsm)
           free == FreeClasses(Of("freeClasses"))
           Kind(kind) == Registrations(index, kind, SchemaOf(kind), TablesOf(index, kind))
           data == Kind("Data")
           message == Kind("Message")
           service == Kind("Service")
           two == data \o message
           registered == two \o service
           classes == free \o registered
           more == IF isEsm THEN {}
                   ELSE ToSet(Field(FreeFunctionProto, Of("freeFunctions"), "functionName"))
                          \cup {free[i].name : i \in DOMAIN free}
<1>1. /\ data = Registrations(index, "Data", DataClassProto, Of("dataClasses"))
      /\ message = Registrations(index, "Message", MessageClassProto, Of("messageClasses"))
      /\ service = Registrations(index, "Service", ServiceClassProto, Of("serviceClasses"))
  BY DEF SchemaOf, TablesOf
<1>2. /\ client.worker = WorkerKey(index) /\ client.classes = classes
      /\ client.exports = {registered[i].name : i \in DOMAIN registered} \cup more
  <2> HIDE DEF data, message, service, free
  <2> QED
    BY <1>1 DEF GenerateClient, free
<1>3. \A kind \in Bases :
        /\ IsSequence(Kind(kind)) /\ \A c \in ToSet(Kind(kind)) : StandsFor(c, h, v)
        /\ {c.name : c \in ToSet(Kind(kind))}
             = {c.name : c \in {d \in ToSet(Classes(q)) : d.base = kind}}
  BY RegistrationFacts
<1>4. /\ IsSequence(data) /\ IsSequence(message) /\ IsSequence(service)
      /\ \A c \in ToSet(data) \cup ToSet(message) \cup ToSet(service) : StandsFor(c, h, v)
      /\ {c.name : c \in ToSet(service)}
           = {c.name : c \in {d \in ToSet(Classes(q)) : d.base = "Service"}}
  BY <1>3 DEF Bases
<1> HIDE DEF data, message, service, Kind
<1>5. IsSequence(free) /\ \A c \in ToSet(free) : c.key = Null
  <2> DEFINE none == ClassesOf(q, "none")
             tables == Of("freeClasses")
  <2>1. HasDecls(q)
    BY DeployableFacts, SchemaFacts DEF IsGeneration
  <2>2. IsSequence(none)
    BY <2>1, ClassesOfFacts
  <2>3. Len(none) \in Nat /\ DOMAIN none = 1..Len(none)
    BY <2>2, SequenceFacts
  <2>4. tables = Written(FreeClassProto, q, "none", h.ids)
    BY IndexFields DEF IndexAt
  <2>5. DOMAIN tables = DOMAIN none
    BY <2>4 DEF Written
  <2> HIDE DEF tables, none
  <2>6. /\ DOMAIN free = 1..Len(none) /\ free = [i \in 1..Len(none) |-> free[i]]
        /\ \A i \in DOMAIN free : free[i].key = Null
    BY <2>3, <2>5 DEF FreeClasses, tables
  <2> HIDE DEF free
  <2> QED
    BY <2>3, <2>6, ListIsSequence DEF ToSet
<1> HIDE DEF free, q, more
<1>6. IsSequence(two) /\ ToSet(two) = ToSet(data) \cup ToSet(message)
  BY <1>4, ConcatIsSequence
<1> HIDE DEF two
<1>7. IsSequence(registered) /\ ToSet(registered) = ToSet(two) \cup ToSet(service)
  BY <1>4, <1>6, ConcatIsSequence
<1> HIDE DEF registered
<1>8. ToSet(classes) = ToSet(free) \cup ToSet(registered)
  BY <1>5, <1>7, ConcatIsSequence
<1> HIDE DEF classes
<1>9. ASSUME NEW c \in ToSet(Classes(q)), c.base = "Service"
      PROVE  c.name \in client.exports
  <2>1. c.name \in {d.name : d \in ToSet(service)}
    BY <1>4, <1>9
  <2>2. PICK d \in ToSet(registered) : d.name = c.name
    BY <1>7, <2>1
  <2>3. PICK i \in DOMAIN registered : registered[i] = d
    BY <2>2 DEF ToSet
  <2> QED
    BY <1>2, <2>2, <2>3
<1> HIDE DEF client
<1> QED
  BY <1>2, <1>4, <1>5, <1>6, <1>7, <1>8, <1>9 DEF client, index, q

-----------------------------------------------------------------------------
(* The type definitions of a client.                                       *)

\* A class that is declared to programs is one that was written, and the parser finds
\* it if it is no default export.
Declared(c, d) == c.name = d.name /\ c.base = d.base /\ c.members = ClientMembers(d)

LEMMA ClientDeclFacts ==
  ASSUME NEW p \in Deployable
  PROVE  LET decl == ClientDecl(p)
         IN  /\ IsSequence(decl) /\ \A i \in DOMAIN decl : IsSequence(decl[i].dir)
             /\ \A i \in DOMAIN decl : \A c \in {d \in ToSet(decl[i].decls) : d.is = "class" /\ ~d.byDefault} :
                  \E y \in Places(p, "class") : Declared(c, DeclAt(p, y))
<1> DEFINE decl == ClientDecl(p)
           q == StageTransformer(p)
           members == [c \in ClassesAsWritten(q) |-> ClientMembers(c)]
<1>1. IsProgram(p) /\ HasDecls(p) /\ \A i \in DOMAIN p : IsSequence(p[i].dir)
  <2>1. IsProgram(p)
    BY DeployableFacts
  <2> QED
    BY <2>1, ProgramFacts DEF IsFile
<1>2. /\ IsSequence(q) /\ DOMAIN q = DOMAIN p
      /\ \A i \in DOMAIN p :
           /\ DOMAIN q[i] = {"dir", "name", "ext", "imports", "decls", "text"}
           /\ q[i].dir = p[i].dir /\ q[i].decls = p[i].decls
  BY <1>1, StagedFacts
<1>3. decl = [i \in DOMAIN q |->
            [q[i] EXCEPT
               !.decls = [j \in DOMAIN q[i].decls |->
                  LET d == q[i].decls[j]
                  IN  IF d.is = "class" THEN [d EXCEPT !.members = members[d]] ELSE d]]]
  BY DEF ClientDecl, WithMembers
<1> HIDE DEF q, decl
<1>4. Len(p) \in Nat /\ DOMAIN p = 1..Len(p)
  BY <1>1, ProgramFacts, SequenceFacts
<1>5. DOMAIN decl = 1..Len(p) /\ decl = [k \in 1..Len(p) |-> decl[k]]
  BY <1>2, <1>3, <1>4
<1>6. IsSequence(decl)
  BY <1>4, <1>5, ListIsSequence
<1>7. ASSUME NEW i \in DOMAIN p, NEW j \in DOMAIN p[i].decls, p[i].decls[j].is = "class"
      PROVE  members[p[i].decls[j]] = ClientMembers(p[i].decls[j])
  <2>1. p[i].decls[j] \in ClassesAsWritten(q)
    BY <1>2, <1>7 DEF ClassesAsWritten, ToSet
  <2> QED
    BY <2>1
<1> HIDE DEF members
<1>8. ASSUME NEW i \in DOMAIN p
      PROVE  /\ decl[i].dir = p[i].dir
             /\ decl[i].decls = [j \in DOMAIN p[i].decls |->
                  LET d == p[i].decls[j]
                  IN  IF d.is = "class" THEN [d EXCEPT !.members = members[d]] ELSE d]
  <2>1. decl[i] = [q[i] EXCEPT
               !.decls = [j \in DOMAIN p[i].decls |->
                  LET d == p[i].decls[j]
                  IN  IF d.is = "class" THEN [d EXCEPT !.members = members[d]] ELSE d]]
    BY <1>2, <1>3
  <2> QED
    BY <1>2, <2>1
<1>9. ASSUME NEW i \in DOMAIN p, NEW c \in ToSet(decl[i].decls), c.is = "class", ~c.byDefault
      PROVE  \E y \in Places(p, "class") : Declared(c, DeclAt(p, y))
  <2>1. PICK j \in DOMAIN p[i].decls :
          LET d == p[i].decls[j]
          IN  c = IF d.is = "class" THEN [d EXCEPT !.members = members[d]] ELSE d
    BY <1>8 DEF ToSet
  <2> DEFINE d == p[i].decls[j]
             y == <<i, j>>
  <2>2. IsDeclaration(d)
    BY <1>1, ProgramFacts
  <2>3. d.is = "class"
    BY <1>9, <2>1
  <2>4. DOMAIN d = {"is", "name", "byDefault", "base", "ctor", "members"}
    BY <2>2, <2>3, ClassDeclFacts DEF IsClassDecl
  <2>5. c = [d EXCEPT !.members = ClientMembers(d)]
    BY <1>7, <2>1, <2>3
  <2>6. Declared(c, d) /\ ~d.byDefault
    <3> HIDE DEF d
    <3> QED
      BY <1>9, <2>4, <2>5 DEF Declared
  <2>7. y \in Places(p, "class") /\ DeclAt(p, y) = d
    BY <1>1, <2>3, <2>6, FinitePlaces DEF DeclAt, Seen
  <2> QED
    BY <2>6, <2>7
<1> QED
  BY <1>1, <1>4, <1>5, <1>6, <1>8, <1>9 DEF decl

-----------------------------------------------------------------------------
(* The files that are written.                                             *)

\* What is written to a file of the client of a version.
IsFileOf(h, v, f, content) ==
    IF f \in IndexFiles THEN content = GenerateClient(IndexAt(h, v), f[1] = "esm")
    ELSE content = Null \/ content \in ToSet(ClientDecl(h.program))

LEMMA FilesFacts ==
  ASSUME NEW h, IsGeneration(h), NEW v
  PROVE  LET files == Files(IndexAt(h, v), ClientDecl(h.program))
         IN  IsSequence(files) /\ \A w \in ToSet(files) : IsFileOf(h, v, w.file, w.content)
<1> DEFINE index == IndexAt(h, v)
           decl == ClientDecl(h.program)
           names == <<<<"package.json">>, <<"cjs", "package.json">>, <<"cjs", "index.js">>,
                      <<"esm", "package.json">>, <<"esm", "index.js">>>>
           code == [i \in 1..5 |->
              [file |-> names[i], content |-> IF names[i] \in IndexFiles
                                              THEN GenerateClient(index, names[i][1] = "esm") ELSE Null]]
           types == [i \in DOMAIN decl |->
              [file |-> decl[i].dir \o <<decl[i].name, ".d.ts">>, content |-> decl[i]]]
<1>1. Files(index, decl) = code \o types
  BY DEF Files
<1>2. IsSequence(decl) /\ \A i \in DOMAIN decl : IsSequence(decl[i].dir)
  BY ClientDeclFacts DEF IsGeneration
<1>3. Len(decl) \in Nat /\ DOMAIN decl = 1..Len(decl)
  BY <1>2, SequenceFacts
<1> HIDE DEF decl, index
<1>4. IsSequence(code) /\ IsSequence(types)
  <2>1. code = [i \in 1..5 |-> code[i]] /\ types = [i \in 1..Len(decl) |-> types[i]]
    BY <1>3
  <2> HIDE DEF code, types
  <2> QED
    BY <1>3, <2>1, ListIsSequence
<1>5. ASSUME NEW w \in ToSet(code)
      PROVE  IsFileOf(h, v, w.file, w.content)
  <2> HIDE DEF names
  <2>1. PICK i \in 1..5 :
          w = [file |-> names[i], content |-> IF names[i] \in IndexFiles
                                              THEN GenerateClient(index, names[i][1] = "esm") ELSE Null]
    BY DEF ToSet
  <2> QED
    BY <2>1 DEF IsFileOf, index
<1>6. ASSUME NEW w \in ToSet(types)
      PROVE  IsFileOf(h, v, w.file, w.content)
  <2>1. PICK i \in DOMAIN decl :
          w = [file |-> decl[i].dir \o <<decl[i].name, ".d.ts">>, content |-> decl[i]]
    BY DEF ToSet
  <2>2. w.file \notin IndexFiles
    <3> DEFINE a == decl[i].dir
               b == <<decl[i].name, ".d.ts">>
               V == ToSet(a) \cup {decl[i].name, ".d.ts"}
               n == Len(a)
    <3>1. IsSequence(a) /\ n \in Nat /\ b \in Seq(V) /\ Len(b) = 2 /\ b[2] = ".d.ts"
      BY <1>2, SequenceFacts
    <3>2. a \in Seq(V)
      <4>1. a \in Seq(ToSet(a)) /\ ToSet(a) \subseteq V
        BY <3>1 DEF IsSequence
      <4> HIDE DEF a, V
      <4> QED
        BY <4>1, SeqMonotonic
    <3> HIDE DEF a, b, V
    <3> DEFINE s == a \o b
    <3>3. /\ Len(s) = n + 2
          /\ \A k \in 1..(n + 2) : s[k] = IF k <= n THEN a[k] ELSE b[k - n]
      <4>1. /\ Len(s) = Len(a) + Len(b)
            /\ \A k \in 1..(Len(a) + Len(b)) : s[k] = IF k <= Len(a) THEN a[k] ELSE b[k - Len(a)]
        BY <3>1, <3>2, ConcatProperties
      <4> HIDE DEF s
      <4> QED
        BY <3>1, <4>1
    <3> HIDE DEF n, s
    <3>4. n + 2 \in 1..(n + 2) /\ ~(n + 2 <= n) /\ (n + 2) - n = 2
      BY <3>1
    <3>5. s[n + 2] = ".d.ts"
      BY <3>1, <3>3, <3>4
    <3>6. ASSUME s \in IndexFiles PROVE FALSE
      <4>1. Len(s) = 2 /\ s[2] = "index.js"
        BY <3>6 DEF IndexFiles
      <4>2. n + 2 = 2
        BY <3>1, <3>3, <4>1
      <4> QED
        BY <3>5, <4>1, <4>2
    <3> QED
      BY <2>1, <3>6 DEF s, a, b
  <2> QED
    BY <2>1, <2>2 DEF IsFileOf, ToSet, decl
<1> HIDE DEF code, types
<1> QED
  BY <1>1, <1>4, <1>5, <1>6, ConcatIsSequence DEF index, decl


-----------------------------------------------------------------------------
(* What clients were made of.                                              *)

IsLive(h, live) ==
    /\ h.program = live.program /\ h.ids = live.ids
    /\ live.index = IndexAt(h, live.version) /\ live.decl = ClientDecl(h.program)

\* G[v] is what was deployed as version v.  Of one of these versions is every file
\* of the client, what is left to be written, and what a program has registered,
\* though only the last of them is live.
HasHistory(G, live, asked, files, registered) ==
    /\ live.version \in Nat /\ \A v \in 1..live.version : IsGeneration(G[v])
    /\ live.version > 0 => IsLive(G[live.version], live)
    /\ \A f \in DOMAIN files :
         LET v == files[f].version
         IN  v \in 1..live.version /\ IsFileOf(G[v], v, f, files[f].content)
    /\ asked = [pc |-> asked.pc, version |-> asked.version, left |-> asked.left]
    /\ asked.pc # "idle" =>
         LET v == asked.version
         IN  /\ v \in 1..live.version /\ IsSequence(asked.left)
             /\ \A w \in ToSet(asked.left) : IsFileOf(G[v], v, w.file, w.content)
    /\ \A c \in registered.classes :
         c.key.workerKey = registered.worker /\ \E v \in 1..live.version : StandsFor(c, G[v], v)

History == \E G : HasHistory(G, jayne, connect, dir, registry)

LEMMA HistoryInit == Init => History
<1> SUFFICES ASSUME Init
             PROVE  HasHistory(<<>>, jayne, connect, dir, registry)
  BY DEF History
<1>1. /\ jayne.version = 0 /\ connect.pc = "idle" /\ DOMAIN dir = {} /\ registry.classes = {}
      /\ connect = [pc |-> connect.pc, version |-> connect.version, left |-> connect.left]
  BY DEF Init, NotConnecting, NoRegistry
<1> QED
  BY <1>1 DEF HasHistory

\* The versions that were deployed before stay what they are.
LEMMA DeployKeepsHistory ==
  ASSUME BuildInv, History, Deploy
  PROVE  History'
<1>1. PICK G : HasHistory(G, jayne, connect, dir, registry)
  BY DEF History
<1> DEFINE ids == ClassIds(ManagedNames(build.schema))
           n == jayne.version
           h == [program |-> build.program, ids |-> ids]
           H == [v \in 1..(n + 1) |-> IF v = n + 1 THEN h ELSE G[v]]
<1>2. UNCHANGED <<connect, dir, registry>>
  BY DEF Deploy
<1>3. CASE BadCode(build.schema) \/ ~CanSerialize(build.schema, ids)
  <2>1. jayne' = jayne
    BY <1>3 DEF Deploy
  <2> QED
    BY <1>1, <1>2, <2>1 DEF History
<1>4. CASE ~BadCode(build.schema) /\ CanSerialize(build.schema, ids)
  <2>1. /\ build.program \in Deployable /\ Passes(build.program)
        /\ build.schema = Schema(build.program) /\ build.decl = ClientDecl(build.program)
    BY DEF Deploy, BuildInv, BuildIsOfItsProgram
  <2>2. DOMAIN ids = ToSet(ManagedNames(build.schema))
    BY DEF ClassIds
  <2>3. \E last :
        jayne' = [version |-> n + 1, program |-> build.program,
                  index |-> SerializeWorkerIndex(build.schema, n + 1, ids),
                  decl |-> build.decl, ids |-> ids, last |-> last]
    BY <1>4 DEF Deploy
  <2> HIDE DEF ids
  <2>4. /\ jayne'.version = n + 1 /\ jayne'.program = build.program /\ jayne'.ids = ids
        /\ jayne'.index = SerializeWorkerIndex(build.schema, n + 1, ids) /\ jayne'.decl = build.decl
    BY <2>3
  <2>5. IsGeneration(h)
    BY <1>4, <2>1, <2>2 DEF IsGeneration
  <2>6. IsLive(h, jayne')
    BY <2>1, <2>4 DEF IsLive, IndexAt
  <2>7. n \in Nat /\ \A v \in 1..n : IsGeneration(G[v])
    BY <1>1 DEF HasHistory
  <2> HIDE DEF h
  <2>8. /\ n + 1 \in Nat /\ n + 1 \in 1..(n + 1) /\ H[n + 1] = h
        /\ \A v \in 1..n : v \in 1..(n + 1) /\ H[v] = G[v]
        /\ \A v \in 1..(n + 1) : v \in 1..n \/ v = n + 1
    BY <2>7
  <2> HIDE DEF n, H
  <2>9. \A v \in 1..jayne'.version : IsGeneration(H[v])
    BY <2>4, <2>5, <2>7, <2>8
  <2>10. HasHistory(H, jayne', connect, dir, registry)
    <3>1. \A f \in DOMAIN dir :
            LET v == dir[f].version
            IN  v \in 1..jayne'.version /\ IsFileOf(H[v], v, f, dir[f].content)
      BY <1>1, <2>4, <2>8 DEF HasHistory, n
    <3>2. /\ connect = [pc |-> connect.pc, version |-> connect.version, left |-> connect.left]
          /\ connect.pc # "idle" =>
               LET v == connect.version
               IN  /\ v \in 1..jayne'.version /\ IsSequence(connect.left)
                   /\ \A w \in ToSet(connect.left) : IsFileOf(H[v], v, w.file, w.content)
      BY <1>1, <2>4, <2>8 DEF HasHistory, n
    <3>3. \A c \in registry.classes :
            c.key.workerKey = registry.worker /\ \E v \in 1..jayne'.version : StandsFor(c, H[v], v)
      BY <1>1, <2>4, <2>8 DEF HasHistory, n
    <3> QED
      BY <2>4, <2>6, <2>8, <2>9, <3>1, <3>2, <3>3 DEF HasHistory
  <2> QED
    BY <1>2, <2>10 DEF History
<1> QED
  BY <1>3, <1>4


LEMMA AskKeepsHistory ==
  ASSUME History, Ask
  PROVE  History'
<1>1. PICK G : HasHistory(G, jayne, connect, dir, registry)
  BY DEF History
<1> DEFINE n == jayne.version
           files == Files(jayne.index, jayne.decl)
<1>2. /\ n > 0 /\ connect' = [pc |-> "remove", version |-> n, left |-> files]
      /\ UNCHANGED <<jayne, dir, registry>>
  BY DEF Ask
<1>3. n \in Nat /\ IsLive(G[n], jayne) /\ \A v \in 1..n : IsGeneration(G[v])
  BY <1>1, <1>2 DEF HasHistory
<1>4. n \in 1..n
  BY <1>2, <1>3
<1>5. IsSequence(files) /\ \A w \in ToSet(files) : IsFileOf(G[n], n, w.file, w.content)
  <2>1. IsGeneration(G[n]) /\ files = Files(IndexAt(G[n], n), ClientDecl(G[n].program))
    BY <1>3, <1>4 DEF IsLive
  <2> HIDE DEF files
  <2> QED
    BY <2>1, FilesFacts
<1> HIDE DEF n, files
<1>6. connect'.pc = "remove" /\ connect'.version = n /\ connect'.left = files
  BY <1>2
<1>7. HasHistory(G, jayne, connect', dir, registry)
  BY <1>1, <1>2, <1>4, <1>5, <1>6 DEF HasHistory, n
<1> QED
  BY <1>2, <1>7 DEF History

LEMMA RemoveFileKeepsHistory ==
  ASSUME History, RemoveFile
  PROVE  History'
<1>1. PICK G : HasHistory(G, jayne, connect, dir, registry)
  BY DEF History
<1>2. UNCHANGED <<jayne, registry>> /\ connect.pc = "remove"
  BY DEF RemoveFile
<1>3. CASE DOMAIN dir = {}
  <2>1. connect' = [connect EXCEPT !.pc = "write"] /\ dir' = dir
    BY <1>3 DEF RemoveFile
  <2>2. connect' = [pc |-> "write", version |-> connect.version, left |-> connect.left]
    BY <1>1, <2>1 DEF HasHistory
  <2>3. HasHistory(G, jayne, connect', dir, registry)
    BY <1>1, <1>2, <2>2 DEF HasHistory
  <2> QED
    BY <1>2, <2>1, <2>3 DEF History
<1>4. CASE DOMAIN dir # {}
  <2>1. connect' = connect /\ dir' = [g \in DOMAIN dir' |-> dir[g]] /\ DOMAIN dir' \subseteq DOMAIN dir
    BY <1>4 DEF RemoveFile
  <2>2. HasHistory(G, jayne, connect, dir', registry)
    BY <1>1, <2>1 DEF HasHistory
  <2> QED
    BY <1>2, <2>1, <2>2 DEF History
<1> QED
  BY <1>3, <1>4

LEMMA HeadAndTail ==
  ASSUME NEW s, IsSequence(s), s # <<>>
  PROVE  /\ Head(s) \in ToSet(s) /\ IsSequence(Tail(s))
         /\ ToSet(Tail(s)) \subseteq ToSet(s)
<1>1. s \in Seq(ToSet(s))
  BY DEF IsSequence
<1>2. Head(s) \in ToSet(s) /\ Tail(s) \in Seq(ToSet(s))
  BY <1>1, HeadTailProperties
<1> DEFINE t == Tail(s)
           n == Len(t)
<1>3. n \in Nat /\ DOMAIN t = 1..n /\ (\A k \in 1..n : t[k] \in ToSet(s)) /\ t = [k \in 1..n |-> t[k]]
  BY <1>2, LenProperties
<1> HIDE DEF t, n
<1>4. IsSequence(t)
  BY <1>3, ListIsSequence
<1>5. \A x \in ToSet(t) : x \in ToSet(s)
  <2>1. ASSUME NEW x \in ToSet(t) PROVE \E k \in 1..n : t[k] = x
    BY <1>3 DEF ToSet
  <2> QED
    BY <1>3, <2>1
<1> QED
  BY <1>2, <1>4, <1>5 DEF t

LEMMA WriteKeepsHistory ==
  ASSUME History, Write
  PROVE  History'
<1>1. PICK G : HasHistory(G, jayne, connect, dir, registry)
  BY DEF History
<1>2. UNCHANGED <<jayne, registry>> /\ connect.pc = "write"
  BY DEF Write
<1>3. CASE connect.left = <<>>
  <2>1. connect' = NotConnecting /\ dir' = dir
    BY <1>3 DEF Write
  <2>2. HasHistory(G, jayne, connect', dir, registry)
    BY <1>1, <2>1 DEF HasHistory, NotConnecting
  <2> QED
    BY <1>2, <2>1, <2>2 DEF History
<1>4. CASE connect.left # <<>>
  <2> DEFINE w == Head(connect.left)
             v == connect.version
             written == [version |-> v, content |-> w.content]
  <2>1. /\ dir' = [f \in DOMAIN dir \cup {w.file} |-> IF f = w.file THEN written ELSE dir[f]]
        /\ connect' = [connect EXCEPT !.left = Tail(@)]
    BY <1>4 DEF Write
  <2>2. connect' = [pc |-> connect.pc, version |-> v, left |-> Tail(connect.left)]
    BY <1>1, <2>1 DEF HasHistory
  <2>3. /\ v \in 1..jayne.version /\ IsSequence(connect.left)
        /\ \A x \in ToSet(connect.left) : IsFileOf(G[v], v, x.file, x.content)
    BY <1>1, <1>2 DEF HasHistory
  <2>4. /\ w \in ToSet(connect.left) /\ IsSequence(Tail(connect.left))
        /\ ToSet(Tail(connect.left)) \subseteq ToSet(connect.left)
    BY <1>4, <2>3, HeadAndTail
  <2> HIDE DEF w
  <2>5. ASSUME NEW f \in DOMAIN dir'
        PROVE  LET u == dir'[f].version
               IN  u \in 1..jayne.version /\ IsFileOf(G[u], u, f, dir'[f].content)
    <3>1. CASE f = w.file
      <4>1. dir'[f] = written
        BY <2>1, <3>1
      <4>2. IsFileOf(G[v], v, f, w.content)
        BY <2>3, <2>4, <3>1
      <4> QED
        BY <2>3, <4>1, <4>2
    <3>2. CASE f # w.file
      <4>1. f \in DOMAIN dir /\ dir'[f] = dir[f]
        BY <2>1, <3>2
      <4> QED
        BY <1>1, <4>1 DEF HasHistory
    <3> QED
      BY <3>1, <3>2
  <2> HIDE DEF v, written
  <2>6. connect'.pc = connect.pc /\ connect'.version = v /\ connect'.left = Tail(connect.left)
    BY <2>2
  <2>7. HasHistory(G, jayne, connect', dir', registry)
    <3>1. /\ connect' = [pc |-> connect'.pc, version |-> connect'.version, left |-> connect'.left]
          /\ v \in 1..jayne.version /\ IsSequence(connect'.left)
          /\ \A x \in ToSet(connect'.left) : IsFileOf(G[v], v, x.file, x.content)
      BY <2>2, <2>3, <2>4, <2>6
    <3> QED
      BY <1>1, <2>5, <2>6, <3>1 DEF HasHistory
  <2> QED
    BY <1>2, <2>7 DEF History
<1> QED
  BY <1>3, <1>4

\* What a program loads is registered at once or not at all.
LEMMA LoadKeepsHistory ==
  ASSUME History, NEW f \in IndexFiles, Load(f)
  PROVE  History'
<1>1. PICK G : HasHistory(G, jayne, connect, dir, registry)
  BY DEF History
<1> DEFINE content == dir[f].content
           v == dir[f].version
<1>2. UNCHANGED <<jayne, connect, dir>> /\ f \in DOMAIN dir
  BY DEF Load
<1>3. CASE registry' = registry
  BY <1>1, <1>2, <1>3 DEF History
<1>4. CASE registry' = [worker |-> content.worker, classes |-> Registered(content.classes)]
  <2>1. v \in 1..jayne.version /\ content = GenerateClient(IndexAt(G[v], v), f[1] = "esm")
    BY <1>1, <1>2 DEF HasHistory, IsFileOf
  <2>2. IsGeneration(G[v])
    BY <1>1, <2>1 DEF HasHistory
  <2>3. /\ content.worker = WorkerKey(IndexAt(G[v], v))
        /\ \A c \in ToSet(content.classes) : c.key # Null => StandsFor(c, G[v], v)
    BY <2>1, <2>2, ClientFacts
  <2> HIDE DEF content, v
  <2>4. \A c \in Registered(content.classes) : c \in ToSet(content.classes) /\ c.key # Null
    BY DEF Registered, ToSet
  <2>5. registry'.worker = content.worker /\ registry'.classes = Registered(content.classes)
    BY <1>4
  <2>6. \A c \in registry'.classes : c.key.workerKey = registry'.worker /\ StandsFor(c, G[v], v)
    BY <2>3, <2>4, <2>5 DEF StandsFor
  <2>7. HasHistory(G, jayne, connect, dir, registry')
    BY <1>1, <2>1, <2>6 DEF HasHistory
  <2> QED
    BY <1>2, <2>7 DEF History
<1>5. registry' = registry
      \/ registry' = [worker |-> content.worker, classes |-> Registered(content.classes)]
  BY DEF Load, Register
<1> QED
  BY <1>3, <1>4, <1>5

LEMMA HistoryNext == BuildInv /\ History /\ [Next]_vars => History'
<1> SUFFICES ASSUME BuildInv, History, [Next]_vars
             PROVE  History'
  OBVIOUS
<1>1. ASSUME UNCHANGED <<jayne, connect, dir, registry>>
      PROVE  History'
  BY <1>1 DEF History
<1>2. CASE \E p \in IF jayne.version = 0 THEN Programs ELSE NextPrograms : Stage(p)
  BY <1>1, <1>2 DEF Stage
<1>3. CASE Compile
  BY <1>1, <1>3 DEF Compile
<1>4. CASE Deploy
  BY <1>4, DeployKeepsHistory
<1>5. CASE Again
  BY <1>1, <1>5 DEF Again
<1>6. CASE Ask
  BY <1>6, AskKeepsHistory
<1>7. CASE RemoveFile
  BY <1>7, RemoveFileKeepsHistory
<1>8. CASE Write
  BY <1>8, WriteKeepsHistory
<1>9. CASE Kill
  <2>1. connect' = NotConnecting /\ UNCHANGED <<jayne, dir, registry>>
    BY <1>9 DEF Kill
  <2> QED
    BY <2>1 DEF History, HasHistory, NotConnecting
<1>10. CASE \E f \in IndexFiles : Load(f)
  BY <1>10, LoadKeepsHistory
<1>11. CASE Restart
  <2>1. registry' = NoRegistry /\ UNCHANGED <<jayne, connect, dir>>
    BY <1>11 DEF Restart
  <2> QED
    BY <2>1 DEF History, HasHistory, NoRegistry
<1>12. CASE UNCHANGED vars
  BY <1>1, <1>12 DEF vars
<1> QED
  BY <1>2, <1>3, <1>4, <1>5, <1>6, <1>7, <1>8, <1>9, <1>10, <1>11, <1>12 DEF Next

LEMMA HistoryIsInvariant == Spec => []History
<1>1. BuildInv /\ History /\ [Next]_vars => History'
  BY HistoryNext
<1> QED
  BY HistoryInit, BuildIsInvariant, <1>1, PTL DEF Spec

\* What a running program has registered are classes of one version of the worker,
\* the one it has registered, however the client was replaced under it and loaded
\* again; while that version is live they are the classes of its index.
THEOREM RegisteredAreOfTheVersion == Spec => []RegisteredAreTheWorkers
<1>1. ASSUME History
      PROVE  RegisteredAreTheWorkers
  <2>1. PICK G : HasHistory(G, jayne, connect, dir, registry)
    BY <1>1 DEF History
  <2> SUFFICES ASSUME NEW c \in registry.classes
               PROVE  /\ c.key.workerKey = registry.worker
                      /\ registry.worker.workerVersion = jayne.version =>
                           /\ c.name \in DOMAIN jayne.ids /\ jayne.ids[c.name] = c.key.classId
                           /\ \E w \in ToSet(Classes(jayne.program)) :
                                w.name = c.name /\ w.base = c.key.kind
    BY DEF RegisteredAreTheWorkers
  <2>2. PICK v \in 1..jayne.version : StandsFor(c, G[v], v)
    BY <2>1 DEF HasHistory
  <2>3. c.key.workerKey = registry.worker /\ registry.worker = WorkerKey(IndexAt(G[v], v))
    BY <2>1, <2>2 DEF HasHistory, StandsFor
  <2>4. WorkerKey(IndexAt(G[v], v)).workerVersion = v
    BY IndexFields DEF WorkerKey, IndexAt
  <2>5. ASSUME registry.worker.workerVersion = jayne.version
        PROVE  IsLive(G[v], jayne)
    <3>1. v = jayne.version /\ jayne.version \in Nat
      BY <2>1, <2>3, <2>4, <2>5 DEF HasHistory
    <3>2. jayne.version > 0
      BY <2>2, <3>1
    <3> QED
      BY <2>1, <3>1, <3>2 DEF HasHistory
  <2> QED
    BY <2>2, <2>3, <2>5 DEF StandsFor, IsLive
<1> QED
  BY HistoryIsInvariant, <1>1, PTL


-----------------------------------------------------------------------------
(* What a client calls.                                                    *)

LEMMA MaxOfNumbers ==
  ASSUME NEW n \in Nat, NEW I \in SUBSET (1..n), I # {}
  PROVE  Max(I) \in I
<1> DEFINE D == {n - i : i \in I}
<1>1. D \in SUBSET Nat /\ D # {}
  <2>1. PICK j \in I : TRUE
    OBVIOUS
  <2>2. n - j \in D
    BY <2>1
  <2>3. \A i \in 1..n : n - i \in Nat
    OBVIOUS
  <2> QED
    BY <2>2, <2>3
<1> HIDE DEF D
<1>2. Min(D) \in D /\ \A d \in D : Min(D) <= d
  BY <1>1, MinOfNumbers
<1>3. PICK j \in I : Min(D) = n - j
  BY <1>2 DEF D
<1>4. \A i \in I : n - j <= n - i
  BY <1>2, <1>3 DEF D
<1>5. \A i \in I : j >= i
  BY <1>4
<1> QED
  BY <1>5 DEF Max

\* The client declares the methods of a service, and nothing else of it.
LEMMA ClientMembersFacts ==
  ASSUME NEW d, IsClassDecl(d), d.base = "Service", StageErrors(d) = {}
  PROVE  \A m \in ToSet(ClientMembers(d)) : \E x \in ToSet(d.members) :
           /\ x.kind = "method" /\ m.static = x.static /\ m.computed = x.computed
           /\ ~x.computed => m.name = Async(x.name)
<1> DEFINE I == {i \in DOMAIN d.members : d.members[i].kind # "property"}
           methods == Pick(d.members, I)
<1>1. IsSequence(d.members) /\ \A x \in ToSet(d.members) : IsMember(x)
  BY ClassDeclFacts DEF ToSet
<1>2. ClientMembers(d) =
        [i \in DOMAIN methods |->
           [methods[i] EXCEPT
              !.name = Async(IF methods[i].computed THEN "undefined" ELSE @), !.promise = TRUE]]
  BY DEF ClientMembers, HasBaseClass, Select
<1>3. ToSet(methods) = {d.members[i] : i \in I}
  <2>1. I \in SUBSET (DOMAIN d.members)
    OBVIOUS
  <2> HIDE DEF I
  <2> QED
    BY <1>1, <2>1, PickIsSequence
<1> HIDE DEF methods
<1> DEFINE Good(m) == \E x \in ToSet(d.members) :
             /\ x.kind = "method" /\ m.static = x.static /\ m.computed = x.computed
             /\ ~x.computed => m.name = Async(x.name)
<1> SUFFICES ASSUME NEW k \in DOMAIN methods
             PROVE  Good(ClientMembers(d)[k])
  <2>1. DOMAIN ClientMembers(d) = DOMAIN methods
    BY <1>2
  <2> HIDE DEF Good
  <2>2. \A m \in ToSet(ClientMembers(d)) : Good(m)
    BY <2>1 DEF ToSet
  <2> QED
    BY <2>2 DEF Good
<1> DEFINE x == methods[k]
           m == ClientMembers(d)[k]
           name == Async(IF x.computed THEN "undefined" ELSE x.name)
           named == [x EXCEPT !.name = name]
<1>4. x \in ToSet(d.members) /\ x.kind # "property"
  <2>1. x \in ToSet(methods)
    BY DEF ToSet
  <2>2. PICK i \in I : x = d.members[i]
    BY <1>3, <2>1
  <2> QED
    BY <2>2 DEF ToSet
<1>5. IsMember(x)
  BY <1>1, <1>4
<1>6. x.kind = "method"
  BY <1>4, <1>5 DEF StageErrors, HasBaseClass, IsAccessor, IsMember
<1>7. m = [named EXCEPT !.promise = TRUE]
  BY <1>2
<1> HIDE DEF x, m, name
<1>8. /\ DOMAIN named = {"kind", "name", "static", "async", "promise", "computed", "plain"}
      /\ named.name = name /\ named.static = x.static /\ named.computed = x.computed
  BY <1>5 DEF IsMember
<1> HIDE DEF named
<1>9. m.name = name /\ m.static = x.static /\ m.computed = x.computed
  BY <1>7, <1>8
<1>10. ~x.computed => m.name = Async(x.name)
  BY <1>9 DEF name
<1> QED
  BY <1>4, <1>6, <1>9, <1>10 DEF m

\* The methods that a service has in the worker's index are those it is written with.
LEMMA CalledInWorker ==
  ASSUME NEW d, IsClassDecl(d), d.base = "Service", StageErrors(d) = {}, NEW c, Compiled(c, d)
  PROVE  /\ IsSequence(Called(c))
         /\ \A z \in ToSet(Called(c)) : \E x \in ToSet(d.members) :
              x.kind = "method" /\ ~x.static /\ x.name = z.name
         /\ \A x \in ToSet(d.members) :
              x.kind = "method" /\ ~x.static /\ ~x.computed =>
                \E z \in ToSet(Called(c)) : z.name = x.name
<1> DEFINE n == Cardinality(Kept(d))
           at == InOrder(Kept(d))
           w == WorkerMembers(d)
<1>1. /\ n \in Nat /\ at \in [1..n -> Kept(d)]
      /\ \A i \in Kept(d) : \E k \in 1..n : at[k] = i
      /\ IsSequence(w) /\ DOMAIN w = 1..n
      /\ \A k \in 1..n : SameButAsync(w[k], d.members[at[k]])
  BY WorkerMembersFacts
<1>2. c.members = w
  BY DEF Compiled
<1>3. IsSequence(Called(c)) /\ ToSet(Called(c)) = {m \in ToSet(w) : ~m.static /\ ~m.computed}
  BY <1>1, <1>2, CalledFacts
<1> HIDE DEF n, at, w
<1>4. ASSUME NEW z \in ToSet(Called(c))
      PROVE  \E x \in ToSet(d.members) : x.kind = "method" /\ ~x.static /\ x.name = z.name
  <2>1. PICK k \in 1..n : z = w[k] /\ ~z.static
    BY <1>1, <1>3 DEF ToSet
  <2> DEFINE x == d.members[at[k]]
  <2>2. at[k] \in DOMAIN d.members /\ x.kind # "property"
    BY <1>1 DEF Kept
  <2>3. x \in ToSet(d.members) /\ IsMember(x)
    BY <2>2, ClassDeclFacts DEF ToSet
  <2>4. SameButAsync(z, x)
    BY <1>1, <2>1
  <2> HIDE DEF x
  <2>5. x.kind = "method"
    BY <2>2, <2>3 DEF x, StageErrors, HasBaseClass, IsAccessor, IsMember
  <2> QED
    BY <2>1, <2>3, <2>4, <2>5 DEF SameButAsync
<1>5. ASSUME NEW x \in ToSet(d.members), x.kind = "method", ~x.static, ~x.computed
      PROVE  \E z \in ToSet(Called(c)) : z.name = x.name
  <2>1. PICK i \in DOMAIN d.members : x = d.members[i]
    BY DEF ToSet
  <2>2. i \in Kept(d)
    BY <1>5, <2>1 DEF Kept
  <2>3. PICK k \in 1..n : at[k] = i
    BY <1>1, <2>2
  <2>4. SameButAsync(w[k], x) /\ w[k] \in ToSet(w)
    BY <1>1, <2>1, <2>3 DEF ToSet
  <2> QED
    BY <1>3, <1>5, <2>4 DEF SameButAsync
<1> QED
  BY <1>3, <1>4, <1>5

\* The client sends, for a name, the id of a method of that name.
LEMMA ServiceClassFacts ==
  ASSUME NEW c, IsSequence(Called(c)), NEW ids
  PROVE  LET s == ServiceClass(Create(ServiceClassProto, ServiceTable(c, ids)))
         IN  /\ s.classId = ids[c.name]
             /\ \A z \in ToSet(Called(c)) : Async(z.name) \in DOMAIN s.calls
             /\ \A n \in DOMAIN s.calls : \E i \in DOMAIN Called(c) :
                  Async(Called(c)[i].name) = n /\ s.calls[n] = UserMethodIdStart + i - 1
<1> DEFINE table == Create(ServiceClassProto, ServiceTable(c, ids))
           s == ServiceClass(table)
           called == Called(c)
           methods == Read(ServiceClassProto, table, "methods")
           names == Field(ServiceMethodProto, methods, "methodName")
           Of(n) == {i \in DOMAIN called : Async(called[i].name) = n}
           all == {Async(called[i].name) : i \in DOMAIN called}
<1>1. Read(ServiceClassProto, table, "classId") = ids[c.name]
      /\ methods = [i \in DOMAIN called |-> ServiceMethod(c, i)]
  BY ServiceTableReads
<1>2. s = [classId |-> Read(ServiceClassProto, table, "classId"),
           calls |-> [n \in {Async(names[i]) : i \in DOMAIN names} |->
              Read(ServiceMethodProto,
                   methods[Max({i \in DOMAIN names : Async(names[i]) = n})], "methodId")]]
  BY DEF ServiceClass
<1> HIDE DEF s, methods, table
<1>3. DOMAIN names = DOMAIN called /\ \A i \in DOMAIN called : names[i] = called[i].name
  <2>1. ASSUME NEW i \in DOMAIN called
        PROVE  Read(ServiceMethodProto, methods[i], "methodName") = called[i].name
    <3>1. methods[i] = ServiceMethod(c, i)
      BY <1>1
    <3> QED
      BY <3>1, ServiceMethodReads
  <2> QED
    BY <1>1, <2>1 DEF Field
<1>4. Len(called) \in Nat /\ DOMAIN called = 1..Len(called)
  BY SequenceFacts
<1> HIDE DEF names, called
<1>5. {Async(names[i]) : i \in DOMAIN names} = all
  BY <1>3
<1>6. \A n : {i \in DOMAIN names : Async(names[i]) = n} = Of(n)
  BY <1>3
<1>7. s.classId = ids[c.name] /\ DOMAIN s.calls = all
      /\ \A n \in all : s.calls[n] = Read(ServiceMethodProto, methods[Max(Of(n))], "methodId")
  BY <1>1, <1>2, <1>5, <1>6
<1>8. ASSUME NEW n \in all
      PROVE  \E i \in DOMAIN called : Async(called[i].name) = n /\ s.calls[n] = UserMethodIdStart + i - 1
  <2>1. Of(n) # {} /\ Of(n) \in SUBSET (1..Len(called))
    BY <1>4
  <2>2. Max(Of(n)) \in Of(n)
    <3> HIDE DEF Of
    <3> QED
      BY <1>4, <2>1, MaxOfNumbers
  <2> DEFINE i == Max(Of(n))
  <2>3. i \in DOMAIN called /\ Async(called[i].name) = n
    BY <2>2
  <2>4. s.calls[n] = Read(ServiceMethodProto, methods[i], "methodId")
    BY <1>7
  <2> HIDE DEF i
  <2>5. methods[i] = ServiceMethod(c, i)
    BY <1>1, <2>3 DEF called
  <2>6. s.calls[n] = UserMethodIdStart + i - 1
    BY <2>4, <2>5, ServiceMethodReads
  <2> QED
    BY <2>3, <2>6
<1>9. \A z \in ToSet(called) : Async(z.name) \in all
  BY DEF ToSet
<1> QED
  BY <1>7, <1>8, <1>9 DEF s, table, called


\* Classes of one name are one class.
LEMMA OneClassOfAName ==
  ASSUME NEW h, IsGeneration(h), NEW a \in ToSet(Classes(Schema(h.program))),
         NEW b \in ToSet(Classes(Schema(h.program))), a.name = b.name
  PROVE  a = b
<1>1. ~NamesAreTaken(Classes(Schema(h.program)))
  BY DEF IsGeneration, BadCode
<1> QED
  BY <1>1 DEF NamesAreTaken, ToSet

LEMMA ServiceOfName ==
  ASSUME NEW h, IsGeneration(h), NEW v, NEW isEsm,
         NEW k \in ToSet(Classes(Schema(h.program))), k.base = "Service"
  PROVE  LET services == GenerateClient(IndexAt(h, v), isEsm).services
             table == Create(ServiceClassProto, ServiceTable(k, h.ids))
         IN  /\ k.name \in DOMAIN services /\ services[k.name] = ServiceClass(table)
             /\ table \in ToSet(Read(WorkerIndexProto, IndexAt(h, v), "serviceClasses"))
<1> DEFINE q == Schema(h.program)
           S == ClassesOf(q, "Service")
           services == GenerateClient(IndexAt(h, v), isEsm).services
           table == Create(ServiceClassProto, ServiceTable(k, h.ids))
           tables == Read(WorkerIndexProto, IndexAt(h, v), "serviceClasses")
           names == Field(ServiceClassProto, tables, "className")
           found == SelectInSeq(tables, LAMBDA t : Read(ServiceClassProto, t, "className") = k.name)
           F == {i \in 1..Len(tables) : Read(ServiceClassProto, tables[i], "className") = k.name}
<1>1. HasDecls(q)
  BY DeployableFacts, SchemaFacts DEF IsGeneration
<1>2. IsSequence(S) /\ ToSet(S) = {c \in ToSet(Classes(q)) : c.base = "Service"}
  BY <1>1, ClassesOfFacts DEF Bases
<1>3. tables = [i \in DOMAIN S |-> Create(ServiceClassProto, ServiceTable(S[i], h.ids))]
  <2>1. tables = WrittenServices(q, h.ids)
    BY IndexFields DEF IndexAt
  <2> QED
    BY <2>1 DEF WrittenServices
<1>4. services = [n \in ToSet(names) |->
        ServiceClass(tables[SelectInSeq(tables,
                               LAMBDA t : Read(ServiceClassProto, t, "className") = n)])]
  BY DEF GenerateClient
<1>5. k.name \in ToSet(names) => services[k.name] = ServiceClass(tables[found])
  <2> HIDE DEF services, tables, names
  <2> QED
    BY <1>4
<1>6. found = IF F # {} THEN Min(F) ELSE 0
  BY DEF SelectInSeq
<1>7. DOMAIN services = ToSet(names) /\ names = [i \in DOMAIN tables |-> Read(ServiceClassProto, tables[i], "className")]
  BY <1>4 DEF Field
<1> HIDE DEF services, found, names, tables
<1>8. Len(S) \in Nat /\ DOMAIN S = 1..Len(S)
  BY <1>2, SequenceFacts
<1> HIDE DEF S
<1>9. Len(tables) = Len(S) /\ DOMAIN tables = DOMAIN S
  <2>1. tables = [i \in 1..Len(S) |-> tables[i]]
    BY <1>3, <1>8
  <2> QED
    BY <1>3, <1>8, <2>1, ListIsSequence
<1>10. \A i \in DOMAIN S : /\ Read(ServiceClassProto, tables[i], "className") = S[i].name
                           /\ names[i] = S[i].name
  <2>1. ASSUME NEW i \in DOMAIN S
        PROVE  Read(ServiceClassProto, tables[i], "className") = S[i].name
    <3>1. tables[i] = Create(ServiceClassProto, ServiceTable(S[i], h.ids))
      BY <1>3
    <3> QED
      BY <3>1, ServiceTableReads
  <2> QED
    BY <1>7, <1>9, <2>1
<1>11. PICK s \in DOMAIN S : S[s] = k
  <2>1. k \in ToSet(S)
    BY <1>2
  <2> QED
    BY <2>1 DEF ToSet
<1>12. s \in F
  BY <1>8, <1>9, <1>10, <1>11
<1>13. Min(F) \in F
  <2>1. F \in SUBSET Nat /\ F # {}
    BY <1>8, <1>9, <1>12
  <2> HIDE DEF F
  <2> QED
    BY <2>1, MinOfNumbers
<1>14. found \in DOMAIN S /\ S[found].name = k.name
  <2>1. found \in F
    BY <1>6, <1>12, <1>13
  <2> QED
    BY <1>8, <1>9, <1>10, <2>1
<1>15. S[found] = k
  <2>1. S[found] \in ToSet(S)
    BY <1>14 DEF ToSet
  <2>2. S[found] \in ToSet(Classes(q))
    BY <1>2, <2>1
  <2> QED
    BY <1>14, <2>2, OneClassOfAName
<1>16. tables[found] = table /\ table \in ToSet(tables)
  <2>1. tables[found] = table
    BY <1>3, <1>14, <1>15
  <2> QED
    BY <1>9, <1>14, <2>1 DEF ToSet
<1>17. k.name \in ToSet(names)
  BY <1>7, <1>9, <1>10, <1>11 DEF ToSet
<1> QED
  BY <1>5, <1>7, <1>16, <1>17 DEF services, tables

\* What the type definitions of a version declare of a service that is no default
\* export, its client calls.
LEMMA DeclaredIsCalled ==
  ASSUME NEW h, IsGeneration(h), NEW v, NEW isEsm,
         NEW content \in ToSet(ClientDecl(h.program)),
         NEW c \in ToSet(content.decls), c.is = "class", c.base = "Service", ~c.byDefault,
         NEW m \in ToSet(c.members), ~m.static, ~m.computed
  PROVE  LET client == GenerateClient(IndexAt(h, v), isEsm)
             tables == Read(WorkerIndexProto, IndexAt(h, v), "serviceClasses")
         IN  /\ c.name \in client.exports \cap DOMAIN client.services
             /\ m.name \in DOMAIN client.services[c.name].calls
             /\ \E t \in ToSet(tables) : \E method \in ToSet(Read(ServiceClassProto, t, "methods")) :
                  /\ Read(ServiceClassProto, t, "classId") = client.services[c.name].classId
                  /\ Read(ServiceClassProto, t, "className") = c.name
                  /\ Read(ServiceMethodProto, method, "methodId")
                       = client.services[c.name].calls[m.name]
                  /\ Async(Read(ServiceMethodProto, method, "methodName")) = m.name
                  /\ \A w \in ToSet(Classes(h.program)) : w.name = c.name =>
                       \E x \in ToSet(w.members) :
                         x.kind = "method" /\ ~x.static /\ Async(x.name) = m.name
<1> DEFINE p == h.program
           S == ToSet(Classes(Schema(p)))
           T == Places(p, "class")
           client == GenerateClient(IndexAt(h, v), isEsm)
           tables == Read(WorkerIndexProto, IndexAt(h, v), "serviceClasses")
<1>1. p \in Deployable /\ Passes(p)
  BY DEF IsGeneration
<1>2. PICK y \in T : Declared(c, DeclAt(p, y))
  <2>1. PICK i \in DOMAIN ClientDecl(p) : content = ClientDecl(p)[i]
    BY DEF ToSet
  <2>2. c \in {d \in ToSet(ClientDecl(p)[i].decls) : d.is = "class" /\ ~d.byDefault}
    BY <2>1
  <2> QED
    BY <1>1, <2>2, ClientDeclFacts
<1> DEFINE d == DeclAt(p, y)
<1>3. /\ \A k \in S : \E x \in T : Compiled(k, DeclAt(p, x))
      /\ \A x \in T : \E k \in S : Compiled(k, DeclAt(p, x))
      /\ ToSet(Classes(p)) = {At(p, x) : x \in T}
      /\ \A x \in T : /\ IsClassDecl(DeclAt(p, x)) /\ At(p, x).name = DeclAt(p, x).name
                      /\ At(p, x).base = DeclAt(p, x).base
                      /\ At(p, x).members = DeclAt(p, x).members
  BY <1>1, SchemaClasses
<1>4. \A x \in T : StageErrors(DeclAt(p, x)) = {}
  <2> SUFFICES ASSUME NEW x \in T PROVE StageErrors(DeclAt(p, x)) = {}
    OBVIOUS
  <2>1. HasDecls(p)
    BY <1>1, DeployableFacts, ProgramFacts
  <2>2. DeclAt(p, x) \in ClassesAsWritten(p)
    BY <2>1, PlaceIsWritten
  <2> QED
    BY <1>1, <2>2 DEF Passes
<1>5. PICK k \in S : Compiled(k, d)
  BY <1>3
<1>6. /\ IsClassDecl(d) /\ d.base = "Service" /\ StageErrors(d) = {}
      /\ k.base = "Service" /\ k.name = c.name /\ c.members = ClientMembers(d)
  BY <1>2, <1>3, <1>4, <1>5 DEF Declared, Compiled
<1> HIDE DEF S, T, client, tables, d
<1>7. PICK x \in ToSet(d.members) :
        x.kind = "method" /\ ~x.static /\ ~x.computed /\ m.name = Async(x.name)
  BY <1>6, ClientMembersFacts
<1>8. IsSequence(Called(k)) /\ \E z \in ToSet(Called(k)) : z.name = x.name
  BY <1>5, <1>6, <1>7, CalledInWorker
<1> DEFINE table == Create(ServiceClassProto, ServiceTable(k, h.ids))
           s == ServiceClass(table)
<1>9. /\ c.name \in DOMAIN client.services /\ client.services[c.name] = s
      /\ table \in ToSet(tables)
  BY <1>6, ServiceOfName DEF S, client, tables
<1>10. c.name \in client.exports
  BY <1>6, ClientFacts DEF S, client
<1>11. /\ s.classId = h.ids[k.name] /\ \A z \in ToSet(Called(k)) : Async(z.name) \in DOMAIN s.calls
       /\ \A n \in DOMAIN s.calls : \E i \in DOMAIN Called(k) :
            Async(Called(k)[i].name) = n /\ s.calls[n] = UserMethodIdStart + i - 1
  BY <1>8, ServiceClassFacts
<1>12. /\ Read(ServiceClassProto, table, "className") = k.name
       /\ Read(ServiceClassProto, table, "classId") = h.ids[k.name]
       /\ Read(ServiceClassProto, table, "methods") = [i \in DOMAIN Called(k) |-> ServiceMethod(k, i)]
  BY ServiceTableReads
<1> HIDE DEF s, table
<1>13. m.name \in DOMAIN s.calls
  BY <1>7, <1>8, <1>11
<1>14. PICK i \in DOMAIN Called(k) :
         Async(Called(k)[i].name) = m.name /\ s.calls[m.name] = UserMethodIdStart + i - 1
  BY <1>11, <1>13
<1> DEFINE method == ServiceMethod(k, i)
<1>15. /\ method \in ToSet(Read(ServiceClassProto, table, "methods"))
       /\ Read(ServiceMethodProto, method, "methodId") = s.calls[m.name]
       /\ Async(Read(ServiceMethodProto, method, "methodName")) = m.name
  <2>1. method \in ToSet([j \in DOMAIN Called(k) |-> ServiceMethod(k, j)])
    BY DEF ToSet
  <2>2. Read(ServiceMethodProto, method, "methodId") = UserMethodIdStart + i - 1
        /\ Read(ServiceMethodProto, method, "methodName") = Called(k)[i].name
    BY ServiceMethodReads
  <2> QED
    BY <1>12, <1>14, <2>1, <2>2
<1> HIDE DEF method
<1>16. ASSUME NEW w \in ToSet(Classes(p)), w.name = c.name
       PROVE  \E z \in ToSet(w.members) : z.kind = "method" /\ ~z.static /\ Async(z.name) = m.name
  <2>1. PICK u \in T : w = At(p, u)
    BY <1>3 DEF T
  <2> DEFINE e == DeclAt(p, u)
  <2>2. /\ IsClassDecl(e) /\ w.name = e.name /\ w.members = e.members
        /\ StageErrors(e) = {} /\ \E l \in S : Compiled(l, e)
    BY <1>3, <1>4, <2>1 DEF T, S
  <2> HIDE DEF e
  <2>3. PICK l \in S : Compiled(l, e)
    BY <2>2
  <2>4. l.name = k.name
    BY <1>6, <1>16, <2>2, <2>3 DEF Compiled
  <2>5. l = k
    BY <2>4, OneClassOfAName DEF S
  <2>6. Compiled(k, e) /\ e.base = "Service"
    BY <1>6, <2>3, <2>5 DEF Compiled
  <2>7. Called(k)[i] \in ToSet(Called(k))
    BY DEF ToSet
  <2>8. \E z \in ToSet(e.members) : z.kind = "method" /\ ~z.static /\ z.name = Called(k)[i].name
    BY <2>2, <2>6, <2>7, CalledInWorker
  <2> QED
    BY <1>14, <2>2, <2>8
<1>17. \E t \in ToSet(tables) : \E f \in ToSet(Read(ServiceClassProto, t, "methods")) :
         /\ Read(ServiceClassProto, t, "classId") = s.classId
         /\ Read(ServiceClassProto, t, "className") = c.name
         /\ Read(ServiceMethodProto, f, "methodId") = s.calls[m.name]
         /\ Async(Read(ServiceMethodProto, f, "methodName")) = m.name
  BY <1>6, <1>9, <1>11, <1>12, <1>15
<1> QED
  BY <1>9, <1>10, <1>13, <1>16, <1>17 DEF client, tables

\* What the type definitions of a client say a program may call of a service that is
\* no default export, index.js calls, by the id that the index of the worker has for
\* that method.
THEOREM ClientCallsItsWorker == Spec => []ClientCallsWorker
<1>1. ASSUME History
      PROVE  ClientCallsWorker
  <2>1. PICK G : HasHistory(G, jayne, connect, dir, registry)
    BY <1>1 DEF History
  <2> SUFFICES ASSUME NEW f \in IndexFiles \cap DOMAIN dir, NEW g \in DOMAIN dir \ IndexFiles,
                      dir[g].content # Null, NEW c \in ToSet(dir[g].content.decls), c.is = "class",
                      NEW m \in ToSet(c.members), dir[g].version = dir[f].version,
                      c.base = "Service", ~c.byDefault, ~m.static, ~m.computed
               PROVE  LET services == dir[f].content.services
                          tables == Read(WorkerIndexProto, jayne.index, "serviceClasses")
                      IN  /\ c.name \in dir[f].content.exports \cap DOMAIN services
                          /\ m.name \in DOMAIN services[c.name].calls
                          /\ dir[f].version = jayne.version =>
                               \E t \in ToSet(tables) :
                               \E method \in ToSet(Read(ServiceClassProto, t, "methods")) :
                                 /\ Read(ServiceClassProto, t, "classId") = services[c.name].classId
                                 /\ Read(ServiceClassProto, t, "className") = c.name
                                 /\ Read(ServiceMethodProto, method, "methodId")
                                      = services[c.name].calls[m.name]
                                 /\ Async(Read(ServiceMethodProto, method, "methodName")) = m.name
                                 /\ \A w \in ToSet(Classes(jayne.program)) : w.name = c.name =>
                                      \E x \in ToSet(w.members) :
                                        x.kind = "method" /\ ~x.static /\ Async(x.name) = m.name
    BY DEF ClientCallsWorker
  <2> DEFINE v == dir[f].version
             h == G[v]
  <2>2. v \in 1..jayne.version /\ dir[f].content = GenerateClient(IndexAt(h, v), f[1] = "esm")
    BY <2>1 DEF HasHistory, IsFileOf
  <2>3. dir[g].content \in ToSet(ClientDecl(h.program))
    BY <2>1 DEF HasHistory, IsFileOf
  <2>4. IsGeneration(h)
    BY <2>1, <2>2 DEF HasHistory
  <2>5. ASSUME v = jayne.version
        PROVE  jayne.index = IndexAt(h, v) /\ jayne.program = h.program
    <3>1. jayne.version > 0
      BY <2>1, <2>2 DEF HasHistory
    <3> QED
      BY <2>1, <2>5, <3>1 DEF HasHistory, IsLive
  <2> HIDE DEF h
  <2> QED
    BY <2>2, <2>3, <2>4, <2>5, DeclaredIsCalled
<1> QED
  BY HistoryIsInvariant, <1>1, PTL


=============================================================================
