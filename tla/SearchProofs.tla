---------------------------- MODULE SearchProofs ----------------------------
(***************************************************************************)
(* Proofs about Search, for any workspaces, keys, rows, limits and scores. *)
(* Sorting, filtering, cutting and fusing lists come first, then what each *)
(* stage of a search has in its lists.                                     *)
(***************************************************************************)
EXTENDS Search, SequenceTheorems, FiniteSetTheorems, WellFoundedInduction, TLAPS

-----------------------------------------------------------------------------
(* Lists. *)

\* A function from a finite set of n into n values that tells its elements apart has all of them.
LEMMA InjectiveIsOnto ==
  ASSUME NEW S, IsFiniteSet(S), NEW f \in [S -> 0 .. Cardinality(S) - 1],
         \A x, y \in S : f[x] = f[y] => x = y
  PROVE  \A n \in 0 .. Cardinality(S) - 1 : \E x \in S : f[x] = n
<1> DEFINE N == 0 .. Cardinality(S) - 1
<1>1. Cardinality(S) \in Nat
  BY FS_CardinalityType
<1>2. IsFiniteSet(N) /\ Cardinality(N) = Cardinality(S)
  BY <1>1, FS_Interval
<1>3. f \in Injection(S, N)
  BY DEF Injection, IsInjective
<1> HIDE DEF N
<1>4. f \in Surjection(S, N)
  BY <1>2, <1>3, FS_Injection
<1> QED
  BY <1>4 DEF Surjection, N

\* The place of P that comes n-th.
Place(P, score) ==
  [n \in 1 .. Cardinality(P) |-> CHOOSE j \in P : Cardinality({i \in P : Ahead(score, i, j)}) = n - 1]

(* Picked is a stable sort: every place of P has its turn, in the order of *)
(* the scores and then of the places.                                      *)
LEMMA PickedInOrder ==
  ASSUME NEW S, NEW s \in Seq(S), NEW P \in SUBSET DOMAIN s,
         NEW score \in [DOMAIN s -> Nat]
  PROVE  /\ Cardinality(P) \in Nat
         /\ Place(P, score) \in [1 .. Cardinality(P) -> P]
         /\ Picked(s, P, score) = [n \in 1 .. Cardinality(P) |-> s[Place(P, score)[n]]]
         /\ \A j \in P : \E n \in 1 .. Cardinality(P) : Place(P, score)[n] = j
         /\ \A m, n \in 1 .. Cardinality(P) :
              m < n => Ahead(score, Place(P, score)[m], Place(P, score)[n])
<1> DEFINE Before(j) == {i \in P : Ahead(score, i, j)}
           rank == [j \in P |-> Cardinality(Before(j))]
           place == Place(P, score)
<1>1. Len(s) \in Nat /\ DOMAIN s = 1 .. Len(s)
  BY LenProperties
<1>2. IsFiniteSet(P) /\ Cardinality(P) \in Nat
  <2>1. IsFiniteSet(1 .. Len(s))
    BY <1>1, FS_Interval
  <2>2. IsFiniteSet(P)
    BY <1>1, <2>1, FS_Subset
  <2> QED
    BY <2>2, FS_CardinalityType
<1>3. \A i, j \in P : i # j => Ahead(score, i, j) \/ Ahead(score, j, i)
  BY <1>1 DEF Ahead
<1>4. \A i \in P : ~Ahead(score, i, i)
  BY <1>1 DEF Ahead
<1>5. \A h, i, j \in P : Ahead(score, h, i) /\ Ahead(score, i, j) => Ahead(score, h, j)
  BY <1>1 DEF Ahead
<1>6. \A j \in P : IsFiniteSet(Before(j)) /\ Cardinality(Before(j)) \in 0 .. Cardinality(P) - 1
  <2> TAKE j \in P
  <2>1. IsFiniteSet(P \ {j}) /\ Cardinality(P \ {j}) = Cardinality(P) - 1
    BY <1>2, FS_RemoveElement
  <2>2. Before(j) \subseteq P \ {j}
    BY <1>4
  <2>3. IsFiniteSet(Before(j)) /\ Cardinality(Before(j)) <= Cardinality(P \ {j})
    BY <2>1, <2>2, FS_Subset
  <2>4. Cardinality(Before(j)) \in Nat
    BY <2>3, FS_CardinalityType
  <2> QED
    BY <1>2, <2>1, <2>3, <2>4
<1>7. \A i, j \in P : Ahead(score, i, j) => Cardinality(Before(i)) < Cardinality(Before(j))
  <2> SUFFICES ASSUME NEW i \in P, NEW j \in P, Ahead(score, i, j)
               PROVE  Cardinality(Before(i)) < Cardinality(Before(j))
    OBVIOUS
  <2>1. Before(i) \subseteq Before(j)
    BY <1>5
  <2>2. i \in Before(j) /\ i \notin Before(i)
    BY <1>4
  <2> HIDE DEF Before
  <2>3. Before(i) # Before(j)
    BY <2>2
  <2>4. Cardinality(Before(i)) <= Cardinality(Before(j)) /\ Cardinality(Before(i)) # Cardinality(Before(j))
    BY <1>6, <2>1, <2>3, FS_Subset
  <2> QED
    BY <1>6, <2>4
<1> HIDE DEF Before
<1>8. rank \in [P -> 0 .. Cardinality(P) - 1]
  BY <1>6
<1>9. \A i, j \in P : rank[i] = rank[j] => i = j
  BY <1>3, <1>6, <1>7
<1>10. \A n \in 0 .. Cardinality(P) - 1 : \E j \in P : rank[j] = n
  <2> HIDE DEF rank
  <2> QED
    BY <1>2, <1>8, <1>9, InjectiveIsOnto
<1>11. \A n \in 1 .. Cardinality(P) : place[n] \in P /\ Cardinality(Before(place[n])) = n - 1
  <2> SUFFICES ASSUME NEW n \in 1 .. Cardinality(P)
               PROVE  place[n] \in P /\ Cardinality(Before(place[n])) = n - 1
    OBVIOUS
  <2>1. n - 1 \in 0 .. Cardinality(P) - 1
    BY <1>2
  <2>2. \E j \in P : Cardinality(Before(j)) = n - 1
    BY <1>10, <2>1
  <2>3. place[n] = CHOOSE j \in P : Cardinality(Before(j)) = n - 1
    BY DEF Place, Before
  <2> QED
    BY <2>2, <2>3
<1>12. place \in [1 .. Cardinality(P) -> P]
  BY <1>11 DEF Place
<1>13. Picked(s, P, score) = [n \in 1 .. Cardinality(P) |-> s[place[n]]]
  <2> DEFINE list == [n \in 1 .. Cardinality(P) |-> s[place[n]]]
  <2> DEFINE raw == [n \in 1 .. Cardinality(P) |->
                       s[CHOOSE j \in P : Cardinality({i \in P : Ahead(score, i, j)}) = n - 1]]
  <2>1. Picked(s, P, score) = SubSeq(raw, 1, Cardinality(P))
    BY DEF Picked
  <2>2. raw = list
    BY DEF Place
  <2> HIDE DEF place
  <2>3. \A n \in 1 .. Cardinality(P) : list[n] \in S
    BY <1>1, <1>12, ElementOfSeq
  <2>4. list \in Seq(S) /\ Len(list) = Cardinality(P)
    <3> HIDE DEF list
    <3>1. DOMAIN list = 1 .. Cardinality(P) /\ list = [n \in 1 .. Cardinality(P) |-> list[n]]
      BY DEF list
    <3>2. list \in [1 .. Cardinality(P) -> S]
      BY <2>3, <3>1
    <3>3. list \in Seq(S)
      BY <1>2, <3>2
    <3> QED
      BY <1>2, <3>1, <3>3, LenProperties
  <2> HIDE DEF list
  <2>5. SubSeq(list, 1, Len(list)) = list
    BY <2>4, SubSeqFull
  <2> QED
    BY <2>1, <2>2, <2>4, <2>5 DEF list
<1>14. \A j \in P : \E n \in 1 .. Cardinality(P) : place[n] = j
  <2> SUFFICES ASSUME NEW j \in P
               PROVE  \E n \in 1 .. Cardinality(P) : place[n] = j
    OBVIOUS
  <2> DEFINE n == Cardinality(Before(j)) + 1
  <2>1. n \in 1 .. Cardinality(P) /\ n - 1 = Cardinality(Before(j))
    BY <1>2, <1>6
  <2> HIDE DEF n, place
  <2>2. rank[place[n]] = rank[j]
    BY <1>11, <2>1
  <2> QED
    BY <1>9, <1>11, <2>1, <2>2
<1>15. \A m, n \in 1 .. Cardinality(P) : m < n => Ahead(score, place[m], place[n])
  <2> SUFFICES ASSUME NEW m \in 1 .. Cardinality(P), NEW n \in 1 .. Cardinality(P), m < n,
                      ~Ahead(score, place[m], place[n])
               PROVE  FALSE
    OBVIOUS
  <2> HIDE DEF place
  <2>1. place[m] # place[n]
    BY <1>2, <1>11
  <2>2. Ahead(score, place[n], place[m])
    BY <1>3, <1>11, <2>1
  <2> QED
    BY <1>2, <1>7, <1>11, <2>2
<1> QED
  BY <1>2, <1>12, <1>13, <1>14, <1>15

\* A list of keys that falls in a score and has no key twice.
Falling(s, score) == \A i, j \in DOMAIN s : i < j => score[s[i]] >= score[s[j]]
Once(s) == \A i, j \in DOMAIN s : s[i] = s[j] => i = j

LEMMA TakeIs ==
  ASSUME NEW S, NEW s \in Seq(S), NEW n \in Nat
  PROVE  /\ Take(s, n) \in Seq(S)
         /\ Len(Take(s, n)) = IF Len(s) <= n THEN Len(s) ELSE n
         /\ \A i \in 1 .. Len(Take(s, n)) : i \in 1 .. Len(s) /\ Take(s, n)[i] = s[i]
<1> DEFINE m == IF Len(s) <= n THEN Len(s) ELSE n
<1>1. m \in Nat /\ m <= Len(s) /\ Len(s) \in Nat
  BY LenProperties
<1>2. Take(s, n) = SubSeq(s, 1, m)
  BY DEF Take
<1> HIDE DEF m
<1>3. \A i \in 1 .. m : s[i] \in S
  BY <1>1, ElementOfSeq
<1>4. /\ SubSeq(s, 1, m) \in Seq(S)
      /\ Len(SubSeq(s, 1, m)) = IF 1 <= m THEN m - 1 + 1 ELSE 0
      /\ \A i \in 1 .. m - 1 + 1 : SubSeq(s, 1, m)[i] = s[1 + i - 1]
  BY <1>1, <1>3, SubSeqProperties
<1>5. Len(SubSeq(s, 1, m)) = m
  BY <1>1, <1>4
<1>6. \A i \in 1 .. m : SubSeq(s, 1, m)[i] = s[i] /\ i \in 1 .. Len(s)
  BY <1>1, <1>4
<1> QED
  BY <1>2, <1>4, <1>5, <1>6 DEF m

(* What is picked from s at the places P: what stands there, once each,    *)
(* and in the order of the places.                                         *)
IsPick(list, S, s, P, score) ==
  /\ list \in Seq(S) /\ Len(list) = Cardinality(P)
  /\ \A n \in DOMAIN list :
       Place(P, score)[n] \in P /\ list[n] = s[Place(P, score)[n]]
  /\ \A j \in P : \E n \in DOMAIN list : list[n] = s[j]
  /\ \A m, n \in DOMAIN list : m < n => Ahead(score, Place(P, score)[m], Place(P, score)[n])
  /\ Once(s) => Once(list)

LEMMA PickedIs ==
  ASSUME NEW S, NEW s \in Seq(S), NEW P \in SUBSET DOMAIN s,
         NEW score \in [DOMAIN s -> Nat]
  PROVE  IsPick(Picked(s, P, score), S, s, P, score)
<1> DEFINE list == Picked(s, P, score)
           place == Place(P, score)
<1>1. DOMAIN s = 1 .. Len(s) /\ Len(s) \in Nat
  BY LenProperties
<1>2. /\ Cardinality(P) \in Nat
      /\ place \in [1 .. Cardinality(P) -> P]
      /\ list = [n \in 1 .. Cardinality(P) |-> s[place[n]]]
      /\ \A j \in P : \E n \in 1 .. Cardinality(P) : place[n] = j
      /\ \A m, n \in 1 .. Cardinality(P) : m < n => Ahead(score, place[m], place[n])
  BY PickedInOrder
<1> HIDE DEF list, place
<1>3. DOMAIN list = 1 .. Cardinality(P) /\ \A n \in 1 .. Cardinality(P) : list[n] = s[place[n]]
  BY <1>2
<1>4. \A n \in 1 .. Cardinality(P) : place[n] \in P /\ s[place[n]] \in S
  BY <1>1, <1>2, ElementOfSeq
<1>5. list \in Seq(S) /\ Len(list) = Cardinality(P)
  <2>1. list \in [1 .. Cardinality(P) -> S]
    <3>1. list = [n \in 1 .. Cardinality(P) |-> list[n]]
      BY <1>2, <1>3
    <3> QED
      BY <1>3, <1>4, <3>1
  <2>2. list \in Seq(S)
    BY <1>2, <2>1
  <2> QED
    BY <1>2, <1>3, <2>2, LenProperties
<1>6. Once(s) => Once(list)
  <2> SUFFICES ASSUME Once(s), NEW m \in DOMAIN list, NEW n \in DOMAIN list, list[m] = list[n], m # n
               PROVE  FALSE
    BY DEF Once
  <2>1. place[m] = place[n] /\ m \in Nat /\ n \in Nat
    BY <1>2, <1>3, <1>4 DEF Once
  <2>2. m < n \/ n < m
    BY <2>1
  <2>3. Ahead(score, place[m], place[m])
    BY <1>2, <1>3, <2>1, <2>2
  <2> QED
    BY <1>1, <1>3, <1>4, <2>3 DEF Ahead
<1>7. \A j \in P : \E n \in DOMAIN list : list[n] = s[j]
  BY <1>2, <1>3
<1> QED
  BY <1>2, <1>3, <1>4, <1>5, <1>6, <1>7 DEF IsPick, list, place

\* What is kept is kept in its order.
LEMMA KeepInIs ==
  ASSUME NEW S, NEW s \in Seq(S), NEW T
  PROVE  /\ KeepIn(s, T) \in Seq(S)
         /\ \A n \in DOMAIN KeepIn(s, T) : KeepIn(s, T)[n] \in T /\ \E j \in DOMAIN s : KeepIn(s, T)[n] = s[j]
         /\ \A j \in DOMAIN s : s[j] \in T => \E n \in DOMAIN KeepIn(s, T) : KeepIn(s, T)[n] = s[j]
         /\ Once(s) => Once(KeepIn(s, T))
         /\ \A score : Falling(s, score) => Falling(KeepIn(s, T), score)
<1> DEFINE P == {i \in DOMAIN s : s[i] \in T}
           none == [i \in DOMAIN s |-> 0]
           kept == KeepIn(s, T)
           place == Place(P, none)
<1>1. P \in SUBSET DOMAIN s /\ none \in [DOMAIN s -> Nat]
  OBVIOUS
<1>2. kept = Picked(s, P, none)
  BY DEF KeepIn
<1>3. DOMAIN s = 1 .. Len(s) /\ Len(s) \in Nat
  BY LenProperties
<1> HIDE DEF none, P, kept
<1>4. /\ kept \in Seq(S)
      /\ \A n \in DOMAIN kept : place[n] \in P /\ kept[n] = s[place[n]]
      /\ \A j \in P : \E n \in DOMAIN kept : kept[n] = s[j]
      /\ \A m, n \in DOMAIN kept : m < n => Ahead(none, place[m], place[n])
      /\ Once(s) => Once(kept)
  <2>1. IsPick(kept, S, s, P, none)
    BY <1>1, <1>2, PickedIs
  <2> QED
    BY <2>1 DEF IsPick
<1> HIDE DEF place
<1>5. \A n \in DOMAIN kept : kept[n] \in T /\ \E j \in DOMAIN s : kept[n] = s[j]
  BY <1>4 DEF P
<1>6. \A j \in DOMAIN s : s[j] \in T => \E n \in DOMAIN kept : kept[n] = s[j]
  BY <1>4 DEF P
<1>7. ASSUME NEW score, Falling(s, score)
      PROVE  Falling(kept, score)
  <2>1. \A m, n \in DOMAIN kept : m < n => place[m] < place[n]
    BY <1>3, <1>4 DEF Ahead, none, P
  <2> QED
    BY <1>4, <1>7, <2>1 DEF Falling, P
<1> QED
  BY <1>4, <1>5, <1>6, <1>7 DEF kept

LEMMA BestFirstIs ==
  ASSUME NEW S, NEW s \in Seq(S), NEW score, \A x \in S : score[x] \in Nat
  PROVE  /\ BestFirst(s, score) \in Seq(S)
         /\ Len(BestFirst(s, score)) = Len(s)
         /\ \A n \in DOMAIN BestFirst(s, score) : \E j \in DOMAIN s : BestFirst(s, score)[n] = s[j]
         /\ \A j \in DOMAIN s : \E n \in DOMAIN BestFirst(s, score) : BestFirst(s, score)[n] = s[j]
         /\ Once(s) => Once(BestFirst(s, score))
         /\ Falling(BestFirst(s, score), score)
<1> DEFINE P == DOMAIN s
           value == [i \in DOMAIN s |-> score[s[i]]]
           list == BestFirst(s, score)
           place == Place(P, value)
<1>1. DOMAIN s = 1 .. Len(s) /\ Len(s) \in Nat
  BY LenProperties
<1>2. P \in SUBSET DOMAIN s /\ value \in [DOMAIN s -> Nat]
  BY <1>1, ElementOfSeq
<1>3. list = Picked(s, P, value)
  BY DEF BestFirst
<1>4. Cardinality(P) = Len(s)
  BY <1>1, FS_Interval
<1> HIDE DEF P, value, list
<1>5. /\ list \in Seq(S) /\ Len(list) = Cardinality(P)
      /\ \A n \in DOMAIN list : place[n] \in P /\ list[n] = s[place[n]]
      /\ \A j \in P : \E n \in DOMAIN list : list[n] = s[j]
      /\ \A m, n \in DOMAIN list : m < n => Ahead(value, place[m], place[n])
      /\ Once(s) => Once(list)
  <2>1. IsPick(list, S, s, P, value)
    BY <1>2, <1>3, PickedIs
  <2> QED
    BY <2>1 DEF IsPick
<1> HIDE DEF place
<1>6. Falling(list, score)
  <2> SUFFICES ASSUME NEW m \in DOMAIN list, NEW n \in DOMAIN list, m < n
               PROVE  score[list[m]] >= score[list[n]]
    BY DEF Falling
  <2>1. Ahead(value, place[m], place[n])
    BY <1>5
  <2>2. value[place[m]] = score[list[m]] /\ value[place[n]] = score[list[n]]
    BY <1>5 DEF value, P
  <2>3. score[list[m]] \in Nat /\ score[list[n]] \in Nat
    BY <1>5, ElementOfSeq, LenProperties
  <2> QED
    BY <2>1, <2>2, <2>3 DEF Ahead
<1> QED
  BY <1>4, <1>5, <1>6 DEF list, P

-----------------------------------------------------------------------------
(* A dense search. *)

LEMMA MaxOfTwo ==
  ASSUME NEW a \in Nat, NEW b \in Nat
  PROVE  Max({a, b}) \in Nat /\ Max({a, b}) >= a /\ Max({a, b}) >= b
<1>1. \E x \in {a, b} : \A y \in {a, b} : x >= y
  BY DEF Nat
<1>2. Max({a, b}) \in {a, b} /\ \A y \in {a, b} : Max({a, b}) >= y
  BY <1>1 DEF Max
<1> QED
  BY <1>2

\* A key that the cut takes away from a falling list is behind all that are left.
LEMMA CutFalls ==
  ASSUME NEW S, NEW s \in Seq(S), NEW score, Falling(s, score), NEW n \in Nat,
         NEW j \in DOMAIN s, \A i \in DOMAIN Take(s, n) : Take(s, n)[i] # s[j]
  PROVE  /\ \A i \in DOMAIN Take(s, n) : score[Take(s, n)[i]] >= score[s[j]]
         /\ Len(s) > n /\ Len(Take(s, n)) = n
<1>1. DOMAIN s = 1 .. Len(s) /\ Len(s) \in Nat
  BY LenProperties
<1>2. /\ DOMAIN Take(s, n) = 1 .. Len(Take(s, n))
      /\ Len(Take(s, n)) = IF Len(s) <= n THEN Len(s) ELSE n
      /\ \A i \in DOMAIN Take(s, n) : i \in 1 .. Len(s) /\ Take(s, n)[i] = s[i]
  BY TakeIs, LenProperties
<1>3. j \notin DOMAIN Take(s, n)
  BY <1>2
<1>4. Len(s) > n /\ Len(Take(s, n)) = n
  <2>1. j \in 1 .. Len(s)
    BY <1>1
  <2>2. ~(Len(s) <= n)
    BY <1>2, <1>3, <2>1
  <2> QED
    BY <1>1, <1>2, <2>2
<1>5. ASSUME NEW i \in DOMAIN Take(s, n)
      PROVE  score[Take(s, n)[i]] >= score[s[j]]
  <2>1. i \in DOMAIN s /\ i < j /\ Take(s, n)[i] = s[i]
    BY <1>1, <1>2, <1>3, <1>4
  <2> QED
    BY <2>1 DEF Falling
<1> QED
  BY <1>4, <1>5

LEMMA CutKeeps ==
  ASSUME NEW S, NEW s \in Seq(S), NEW n \in Nat
  PROVE  /\ Once(s) => Once(Take(s, n))
         /\ \A score : Falling(s, score) => Falling(Take(s, n), score)
         /\ \A i \in DOMAIN Take(s, n) : \E j \in DOMAIN s : Take(s, n)[i] = s[j]
<1>1. DOMAIN s = 1 .. Len(s) /\ Len(s) \in Nat
  BY LenProperties
<1>2. /\ DOMAIN Take(s, n) = 1 .. Len(Take(s, n))
      /\ \A i \in DOMAIN Take(s, n) : i \in 1 .. Len(s) /\ Take(s, n)[i] = s[i]
  BY TakeIs, LenProperties
<1> QED
  BY <1>1, <1>2 DEF Once, Falling

LEMMA FetchLimitIsNat ==
  ASSUME NEW opt \in Options
  PROVE  FetchLimit(opt) \in Nat
<1>1. opt.limit \in Nat /\ FetchFactor \in Nat /\ MinFetch \in Nat
  BY SearchAssumption
<1>2. FetchFactor * opt.limit \in Nat
  BY <1>1
<1> QED
  BY <1>1, <1>2, MaxOfTwo DEF FetchLimit

\* What Dense has found, before it is made into results.
DenseKeys(w, opt) == Take(KeepIn(SearchSimilar(w, opt), Passing(opt)), opt.limit)

LEMMA DenseFinds ==
  ASSUME rows \in [Range(Workspace) -> [Key -> Row]],
         NEW w \in Range(Workspace), NEW opt \in Options
  PROVE  /\ DenseKeys(w, opt) \in Seq(Key)
         /\ Once(DenseKeys(w, opt))
         /\ \A k \in Key :
              /\ rows[w][k].live /\ Passes(opt, k)
              /\ rows[w][k].vec > 0 /\ rows[w][k].vec >= opt.threshold
              /\ \A n \in DOMAIN DenseKeys(w, opt) : DenseKeys(w, opt)[n] # k
              => /\ \A n \in DOMAIN DenseKeys(w, opt) :
                      rows[w][DenseKeys(w, opt)[n]].vec >= rows[w][k].vec
                 /\ Len(Vectors(w)) <= FetchLimit(opt) => Len(DenseKeys(w, opt)) = opt.limit
<1> DEFINE near == [k \in Key |-> rows[w][k].vec]
           some == {k \in Key : rows[w][k].vec > 0}
           good == {k \in Key : /\ rows[w][k].live
                                /\ rows[w][k].vec >= opt.threshold
                                /\ opt.filter = "path" => k \in Matching}
           there   == Vectors(w)
           ranked  == BestFirst(there, near)
           fetched == Take(ranked, FetchLimit(opt))
           similar == KeepIn(fetched, good)
           passing == KeepIn(similar, Passing(opt))
           found   == Take(passing, opt.limit)
<1>1. /\ KeyOrder \in Seq(Key) /\ Once(KeyOrder)
      /\ \A k \in Key : \E j \in DOMAIN KeyOrder : KeyOrder[j] = k
  BY SearchAssumption DEF Once, IsInjective, Range
<1>2. \A k \in Key : near[k] = rows[w][k].vec /\ near[k] \in Nat
  BY SearchAssumption
<1>3. similar = SearchSimilar(w, opt) /\ found = DenseKeys(w, opt)
  BY DEF SearchSimilar, DenseKeys
<1>4. there = KeepIn(KeyOrder, some)
  BY DEF Vectors
<1>5. FetchLimit(opt) \in Nat /\ opt.limit \in Nat
  BY FetchLimitIsNat, SearchAssumption
<1> HIDE DEF near, there, ranked, fetched, similar, passing, found, some, good
<1>6. /\ there \in Seq(Key) /\ Once(there)
      /\ \A j \in DOMAIN KeyOrder : KeyOrder[j] \in some => \E n \in DOMAIN there : there[n] = KeyOrder[j]
  BY <1>1, <1>4, KeepInIs
<1>7. /\ ranked \in Seq(Key) /\ Once(ranked) /\ Falling(ranked, near) /\ Len(ranked) = Len(there)
      /\ \A j \in DOMAIN there : \E n \in DOMAIN ranked : ranked[n] = there[j]
  <2>1. ranked = BestFirst(there, near)
    BY DEF ranked
  <2> QED
    BY <1>2, <1>6, <2>1, BestFirstIs
<1>8. fetched \in Seq(Key) /\ Once(fetched) /\ Falling(fetched, near)
  BY <1>5, <1>7, TakeIs, CutKeeps DEF fetched
<1>9. /\ similar \in Seq(Key) /\ Once(similar) /\ Falling(similar, near)
      /\ \A j \in DOMAIN fetched : fetched[j] \in good => \E n \in DOMAIN similar : similar[n] = fetched[j]
      /\ \A n \in DOMAIN similar : \E j \in DOMAIN fetched : similar[n] = fetched[j]
  <2>1. similar = KeepIn(fetched, good)
    BY DEF similar
  <2> QED
    BY <1>8, <2>1, KeepInIs
<1>10. /\ passing \in Seq(Key) /\ Once(passing) /\ Falling(passing, near)
       /\ \A j \in DOMAIN similar : similar[j] \in Passing(opt) => \E n \in DOMAIN passing : passing[n] = similar[j]
       /\ \A n \in DOMAIN passing : \E j \in DOMAIN similar : passing[n] = similar[j]
  BY <1>9, KeepInIs DEF passing
<1>11. /\ found \in Seq(Key) /\ Once(found)
       /\ \A n \in DOMAIN found : \E j \in DOMAIN passing : found[n] = passing[j]
  <2>1. found = Take(passing, opt.limit)
    BY DEF found
  <2>2. found \in Seq(Key)
    BY <1>5, <1>10, <2>1, TakeIs
  <2> QED
    BY <1>5, <1>10, <2>1, <2>2, CutKeeps
<1>12. ASSUME NEW k \in Key, rows[w][k].live, Passes(opt, k), rows[w][k].vec > 0,
              rows[w][k].vec >= opt.threshold, \A n \in DOMAIN found : found[n] # k
       PROVE  /\ \A n \in DOMAIN found : near[found[n]] >= near[k]
              /\ Len(there) <= FetchLimit(opt) => Len(found) = opt.limit
  <2>1. k \in some /\ k \in good /\ k \in Passing(opt)
    BY <1>12 DEF some, good, Passing, Passes
  <2>2. PICK j \in DOMAIN ranked : ranked[j] = k
    BY <1>1, <1>6, <1>7, <2>1
  <2>3. CASE \A i \in DOMAIN fetched : fetched[i] # k
    <3>1. /\ \A i \in DOMAIN fetched : near[fetched[i]] >= near[k]
          /\ Len(ranked) > FetchLimit(opt)
      BY <1>5, <1>7, <2>2, <2>3, CutFalls DEF fetched
    <3>2. \A n \in DOMAIN found : \E i \in DOMAIN fetched : found[n] = fetched[i]
      BY <1>9, <1>10, <1>11
    <3>3. ~(Len(there) <= FetchLimit(opt))
      BY <1>5, <1>6, <1>7, <3>1, LenProperties
    <3> QED
      BY <3>1, <3>2, <3>3
  <2>4. CASE \E i \in DOMAIN fetched : fetched[i] = k
    <3>1. PICK i \in DOMAIN passing : passing[i] = k
      BY <1>9, <1>10, <2>1, <2>4
    <3>2. /\ \A n \in DOMAIN found : near[found[n]] >= near[k]
          /\ Len(found) = opt.limit
      BY <1>5, <1>10, <1>12, <3>1, CutFalls DEF found
    <3> QED
      BY <3>2
  <2> QED
    BY <2>3, <2>4
<1>13. \A n \in DOMAIN found : found[n] \in Key
  BY <1>11, ElementOfSeq, LenProperties
<1> QED
  BY <1>2, <1>3, <1>11, <1>12, <1>13 DEF there

-----------------------------------------------------------------------------
(* Fusing two lists. *)

\* g has what the first ranks of l add up to, each from that of one rank less.
CountOf(l, k, g, rank) ==
  IF rank = 0 THEN 0 ELSE g[rank - 1] + (IF l[rank].key = k THEN Weight(rank) ELSE 0)
Counts(l, k, n, g) == g = [rank \in 0 .. n |-> CountOf(l, k, g, rank)]

\* A set of numbers has a least one.
LEMMA LeastOf ==
  ASSUME NEW S \in SUBSET Nat, S # {}
  PROVE  \E m \in S : \A k \in S : m <= k
<1>1. PICK m \in S : \A k \in S : <<k, m>> \notin OpToRel(<, Nat)
  BY NatLessThanWellFounded, WFMin
<1>2. \A k \in S : ~(k < m)
  BY <1>1 DEF OpToRel
<1> QED
  BY <1>2

\* There is such a function, and Votes is its last value.
LEMMA CountsExist ==
  ASSUME NEW l, NEW k, NEW n \in Nat
  PROVE  \E g : Counts(l, k, n, g)
<1>1. PICK Bad : Bad = {m \in Nat : ~\E g : Counts(l, k, m, g)}
  OBVIOUS
<1>2. SUFFICES ASSUME Bad # {} PROVE FALSE
  BY <1>1
<1>3. PICK m \in Bad : \A i \in Bad : m <= i
  BY <1>1, <1>2, LeastOf
<1>4. m \in Nat /\ ~\E g : Counts(l, k, m, g)
  BY <1>1
<1>5. CASE m = 0
  <2>1. PICK g : g = [rank \in 0 .. 0 |-> 0]
    OBVIOUS
  <2>2. \A rank \in 0 .. 0 : rank = 0
    OBVIOUS
  <2>3. g = [rank \in 0 .. 0 |-> CountOf(l, k, g, rank)]
    BY <2>1, <2>2 DEF CountOf
  <2> QED
    BY <1>4, <1>5, <2>3 DEF Counts
<1>6. CASE m # 0
  <2>1. m - 1 \in Nat /\ m - 1 \notin Bad
    BY <1>3, <1>4, <1>6
  <2>2. PICK g : Counts(l, k, m - 1, g)
    BY <1>1, <2>1
  <2>3. PICK h : h = [rank \in 0 .. m |-> CountOf(l, k, g, rank)]
    OBVIOUS
  <2>4. ASSUME NEW rank \in 0 .. m PROVE CountOf(l, k, g, rank) = CountOf(l, k, h, rank)
    <3>1. CASE rank = 0
      BY <3>1 DEF CountOf
    <3>2. CASE rank # 0
      <4>1. rank - 1 \in 0 .. m - 1 /\ rank - 1 \in 0 .. m
        BY <1>4, <2>4, <3>2
      <4>2. g[rank - 1] = CountOf(l, k, g, rank - 1) /\ h[rank - 1] = CountOf(l, k, g, rank - 1)
        BY <2>2, <2>3, <4>1 DEF Counts
      <4> QED
        BY <3>2, <4>2 DEF CountOf
    <3> QED
      BY <3>1, <3>2
  <2>5. Counts(l, k, m, h)
    BY <2>3, <2>4 DEF Counts
  <2> QED
    BY <1>4, <2>5
<1> QED
  BY <1>5, <1>6

LEMMA VotesAreCounted ==
  ASSUME NEW S, NEW l \in Seq(S), NEW k
  PROVE  \E g : Counts(l, k, Len(l), g) /\ Votes(l, k) = g[Len(l)]
<1>1. Len(l) \in Nat
  BY LenProperties
<1>2. PICK g : g = CHOOSE h : Counts(l, k, Len(l), h)
  OBVIOUS
<1>3. Counts(l, k, Len(l), g)
  BY <1>1, <1>2, CountsExist
<1>4. Votes(l, k) = (CHOOSE h : Counts(l, k, Len(l), h))[Len(l)]
  BY DEF Votes, Counts, CountOf
<1> QED
  BY <1>2, <1>3, <1>4

LEMMA WeightFalls ==
  /\ \A i \in 1 .. MaxRank : Weight(i) \in Nat \ {0}
  /\ \A i, j \in 1 .. MaxRank : i < j => Weight(i) > Weight(j)
<1>1. RrfK \in Nat /\ MaxRank \in Nat /\ Scale \in Nat /\ Scale > 0
  <2>1. Len(Workspace) \in Nat /\ Len(KeyOrder) \in Nat
    BY SearchAssumption, LenProperties
  <2> QED
    BY <2>1, SearchAssumption DEF MaxRank
<1>2. ASSUME NEW i \in 1 .. MaxRank
      PROVE  Weight(i) \in Nat \ {0} /\ Weight(i) * (RrfK + i) = Scale
  <2> DEFINE d == RrfK + i
  <2>1. d \in Nat /\ d > 0
    BY <1>1
  <2>6. Scale % d = 0
    BY SearchAssumption
  <2>2. Weight(i) = Scale \div d
    BY DEF Weight
  <2> HIDE DEF d
  <2>3. Scale \div d \in Int /\ Scale = d * (Scale \div d) + (Scale % d)
    BY <1>1, <2>1
  <2>4. Scale = d * (Scale \div d)
    BY <1>1, <2>1, <2>6, <2>3
  <2>5. Scale \div d > 0
    BY <1>1, <2>1, <2>3, <2>4
  <2> DEFINE q == Scale \div d
  <2>7. q \in Nat /\ q > 0 /\ Scale = d * q /\ Weight(i) = q
    BY <2>2, <2>3, <2>4, <2>5
  <2> HIDE DEF q
  <2>8. Weight(i) \in Nat /\ Weight(i) > 0 /\ Weight(i) * d = Scale
    BY <2>1, <2>7
  <2> QED
    BY <2>8 DEF d
<1>3. ASSUME NEW i \in 1 .. MaxRank, NEW j \in 1 .. MaxRank, i < j
      PROVE  Weight(i) > Weight(j)
  <2> DEFINE a == Weight(i)
             b == Weight(j)
  <2>1. a \in Nat \ {0} /\ b \in Nat \ {0} /\ a * (RrfK + i) = b * (RrfK + j)
    BY <1>2
  <2> HIDE DEF a, b
  <2>2. PICK n \in Nat : n > 0 /\ RrfK + j = RrfK + i + n
    <3>1. j - i \in Nat /\ j - i > 0 /\ RrfK + j = RrfK + i + (j - i)
      BY <1>1, <1>3
    <3> QED
      BY <3>1
  <2> DEFINE m == RrfK + i
  <2>3. m \in Nat /\ m > 0
    BY <1>1
  <2>4. a * m = b * (m + n)
    BY <1>1, <2>1, <2>2, <1>3
  <2> HIDE DEF m
  <2>5. b * (m + n) = b * m + b * n /\ b * n > 0
    BY <2>1, <2>2, <2>3
  <2>6. a * m > b * m
    BY <2>1, <2>2, <2>3, <2>4, <2>5
  <2>7. ASSUME a <= b PROVE FALSE
    <3>1. a * m <= b * m
      BY <2>1, <2>3, <2>7
    <3> QED
      BY <2>1, <2>3, <2>6, <3>1
  <2> QED
    BY <2>1, <2>7 DEF a, b
<1> QED
  BY <1>2, <1>3

\* Results of one or several searches.
Items == [repo : Range(Workspace), key : Key, score : Nat, due : BOOLEAN]
KeysOnce(l) == \A i, j \in DOMAIN l : l[i].key = l[j].key => i = j

LEMMA KeysOfOne ==
  ASSUME NEW l, NEW k
  PROVE  k \in Keys(<<l>>) <=> \E i \in DOMAIN l : l[i].key = k
<1>1. Range(<<l>>) = {l}
  BY DEF Range
<1> QED
  BY <1>1 DEF Keys

LEMMA KeysOfTwo ==
  ASSUME NEW d, NEW s, NEW k
  PROVE  k \in Keys(<<d, s>>) <=> k \in Keys(<<d>>) \/ k \in Keys(<<s>>)
<1>1. Range(<<d, s>>) = {d, s}
  <2>1. /\ DOMAIN <<d, s>> = {1, 2}
        /\ <<d, s>>[1] = d /\ <<d, s>>[2] = s
    OBVIOUS
  <2> DEFINE pair == <<d, s>>
  <2> HIDE DEF pair
  <2>2. DOMAIN pair = {1, 2} /\ pair[1] = d /\ pair[2] = s
    BY <2>1 DEF pair
  <2>3. Range(pair) = {d, s}
    BY <2>2 DEF Range
  <2> QED
    BY <2>3 DEF pair
<1>2. Range(<<d>>) = {d}
  BY DEF Range
<1>3. Range(<<s>>) = {s}
  BY DEF Range
<1> QED
  BY <1>1, <1>2, <1>3 DEF Keys

LEMMA PositionIs ==
  ASSUME NEW S, NEW l \in Seq(S), NEW k \in Keys(<<l>>)
  PROVE  Position(l, k) \in DOMAIN l /\ l[Position(l, k)].key = k
<1> DEFINE P == {i \in DOMAIN l : l[i].key = k}
<1>1. P \in SUBSET Nat /\ P # {}
  BY KeysOfOne, LenProperties
<1> HIDE DEF P
<1>2. \E x \in P : \A y \in P : x <= y
  <2>1. PICK x \in P : \A y \in P : <<y, x>> \notin OpToRel(<, Nat)
    BY <1>1, NatLessThanWellFounded, WFMin
  <2>2. \A y \in P : ~(y < x)
    BY <1>1, <2>1 DEF OpToRel
  <2> QED
    BY <1>1, <2>2
<1>3. Position(l, k) \in P
  <2>1. Position(l, k) = Min(P)
    BY DEF Position, P
  <2> QED
    BY <1>2, <2>1 DEF Min
<1> QED
  BY <1>3 DEF P

(* Every occurrence of a key adds its weight: the votes are a number, no   *)
(* less than any one of them, that one if there is no other, and 0 if      *)
(* there is none.  Each is shown of the first ranks for which it would not *)
(* be so.                                                                  *)
LEMMA VotesAre ==
  ASSUME NEW l \in Seq(Items), Len(l) <= MaxRank, NEW k
  PROVE  /\ Votes(l, k) \in Nat
         /\ \A i \in DOMAIN l : l[i].key = k => Votes(l, k) >= Weight(i)
         /\ AtMostOnce(l, k) => \A i \in DOMAIN l : l[i].key = k => Votes(l, k) = Weight(i)
         /\ k \notin Keys(<<l>>) => Votes(l, k) = 0
<1> DEFINE n == Len(l)
<1>1. n \in Nat /\ DOMAIN l = 1 .. n
  BY LenProperties
<1>2. \A i \in 1 .. n : Weight(i) \in Nat
  <2>1. MaxRank \in Nat
    BY SearchAssumption, LenProperties DEF MaxRank
  <2> QED
    BY <1>1, <2>1, WeightFalls
<1>3. PICK g : Counts(l, k, n, g) /\ Votes(l, k) = g[n]
  BY VotesAreCounted
<1> HIDE DEF n
<1>4. /\ g[0] = 0
      /\ \A m \in 1 .. n : g[m] = g[m - 1] + (IF l[m].key = k THEN Weight(m) ELSE 0)
  BY <1>1, <1>3 DEF Counts, CountOf
<1> DEFINE Fine(m) ==
             /\ g[m] \in Nat
             /\ \A i \in 1 .. m : l[i].key = k => g[m] >= Weight(i)
             /\ (\A i \in 1 .. m : l[i].key # k) => g[m] = 0
             /\ AtMostOnce(l, k) => \A i \in 1 .. m : l[i].key = k => g[m] = Weight(i)
<1>5. \A m \in 0 .. n : Fine(m)
  <2>1. PICK Bad : Bad = {m \in 0 .. n : ~Fine(m)}
    OBVIOUS
  <2>2. SUFFICES ASSUME Bad # {} PROVE FALSE
    BY <2>1
  <2>3. Bad \in SUBSET Nat
    BY <1>1, <2>1
  <2>4. PICK m \in Bad : \A i \in Bad : m <= i
    BY <2>2, <2>3, LeastOf
  <2>5. m \in 0 .. n /\ ~Fine(m) /\ m \in Nat
    BY <2>1, <2>3
  <2>6. CASE m = 0
    BY <1>4, <2>5, <2>6
  <2>7. CASE m # 0
    <3>1. m \in 1 .. n /\ m - 1 \in 0 .. n /\ ~(m <= m - 1)
      BY <1>1, <2>5, <2>7
    <3>2. Fine(m - 1)
      BY <2>1, <2>4, <3>1
    <3>3. g[m] = g[m - 1] + (IF l[m].key = k THEN Weight(m) ELSE 0) /\ Weight(m) \in Nat
      BY <1>2, <1>4, <3>1
    <3>4. \A i \in 1 .. m : i = m \/ i \in 1 .. m - 1
      BY <3>1
    <3>5. PICK x \in Nat : x = g[m - 1]
      BY <3>2
    <3>6. PICK w \in Nat : w = Weight(m)
      BY <3>3
    <3>7. \A i \in 1 .. m : i \in 1 .. n
      BY <1>1, <3>1
    <3>8. CASE l[m].key = k
      <4>1. g[m] = x + w
        BY <3>3, <3>5, <3>6, <3>8
      <4>2. \A i \in 1 .. m : l[i].key = k => g[m] >= Weight(i)
        <5>1. g[m] >= w /\ g[m] >= x
          BY <4>1
        <5>2. \A i \in 1 .. m - 1 : l[i].key = k => x >= Weight(i) /\ Weight(i) \in Nat
          <6> SUFFICES ASSUME NEW i \in 1 .. m - 1, l[i].key = k
                       PROVE  x >= Weight(i) /\ Weight(i) \in Nat
            OBVIOUS
          <6>1. i \in 1 .. n
            BY <1>1, <3>1
          <6>2. g[m - 1] >= Weight(i)
            BY <3>2
          <6> QED
            BY <1>2, <3>5, <6>1, <6>2
        <5>3. \A i \in 1 .. m - 1 : l[i].key = k => g[m] >= Weight(i)
          BY <4>1, <5>1, <5>2
        <5> QED
          BY <3>4, <3>6, <5>1, <5>3
      <4>3. AtMostOnce(l, k) => \A i \in 1 .. m : l[i].key = k => i = m
        BY <1>1, <3>1, <3>7, <3>8 DEF AtMostOnce
      <4>4. AtMostOnce(l, k) => \A i \in 1 .. m - 1 : l[i].key # k
        BY <3>1, <4>3
      <4>5. AtMostOnce(l, k) => g[m] = w
        BY <3>2, <3>5, <4>1, <4>4
      <4> QED
        BY <2>5, <3>1, <3>6, <3>8, <4>1, <4>2, <4>3, <4>5
    <3>9. CASE l[m].key # k
      <4>1. g[m] = x
        BY <3>3, <3>5, <3>9
      <4>2. \A i \in 1 .. m : l[i].key = k => i \in 1 .. m - 1
        BY <3>4, <3>9
      <4>3. \A i \in 1 .. m - 1 : i \in 1 .. m
        BY <3>1
      <4>4. g[m] = g[m - 1]
        BY <3>5, <4>1
      <4>5. /\ g[m] \in Nat
            /\ \A i \in 1 .. m : l[i].key = k => g[m] >= Weight(i)
        BY <3>2, <4>2, <4>4
      <4>6. (\A i \in 1 .. m : l[i].key # k) => g[m] = 0
        BY <3>2, <4>3, <4>4
      <4>7. AtMostOnce(l, k) => \A i \in 1 .. m : l[i].key = k => g[m] = Weight(i)
        BY <3>2, <4>2, <4>4
      <4> QED
        BY <2>5, <4>5, <4>6, <4>7
    <3> QED
      BY <3>8, <3>9
  <2> QED
    BY <2>6, <2>7
<1>6. Fine(n)
  BY <1>1, <1>5
<1> QED
  BY <1>1, <1>3, <1>6, KeysOfOne

LEMMA KeysAreFinite ==
  ASSUME NEW S, NEW l \in Seq(S)
  PROVE  IsFiniteSet(Keys(<<l>>))
<1> DEFINE K == {l[i].key : i \in DOMAIN l}
<1>1. Keys(<<l>>) = K
  BY KeysOfOne
<1>2. IsFiniteSet(DOMAIN l)
  BY LenProperties, FS_Interval
<1>3. IsFiniteSet(K)
  <2> DEFINE f == [i \in DOMAIN l |-> l[i].key]
  <2>1. f \in Surjection(DOMAIN l, K)
    BY DEF Surjection
  <2> HIDE DEF f, K
  <2> QED
    BY <1>2, <2>1, FS_Surjection
<1> QED
  BY <1>1, <1>3

\* A list made of the keys of p, in its order.
FusedBy(lists, p) == [i \in DOMAIN p |-> [FirstOf(lists, p[i]) EXCEPT !.score = RrfScore(lists, p[i])]]

(* What is fused: the keys are those of both lists, once each, by their    *)
(* scores, and whatever else a result says is from one of the lists.       *)
IsFusion(d, s, p, K, g) ==
  /\ Cardinality(K) \in Nat
  /\ p \in [1 .. Cardinality(K) -> K]
  /\ \A i, j \in DOMAIN p : p[i] = p[j] => i = j
  /\ \A k \in K : \E i \in DOMAIN p : p[i] = k
  /\ g \in Seq(Range(g))
  /\ Len(g) = Cardinality(K)
  /\ \A i \in DOMAIN p :
       /\ g[i].key = p[i]
       /\ \E l \in {d, s} : \E j \in DOMAIN l : l[j].key = p[i] /\ g[i].due = l[j].due

LEMMA FusingIs ==
  ASSUME NEW d \in Seq(Items), NEW s \in Seq(Items), NEW p \in SetToSeqs(Keys(<<d, s>>))
  PROVE  IsFusion(d, s, p, Keys(<<d, s>>), FusedBy(<<d, s>>, p))
<1> DEFINE K == Keys(<<d, s>>)
           N == Cardinality(K)
           f == FusedBy(<<d, s>>, p)
<1>1. IsFiniteSet(K) /\ N \in Nat
  <2>1. IsFiniteSet(Keys(<<d>>)) /\ IsFiniteSet(Keys(<<s>>))
    BY KeysAreFinite
  <2>2. K = Keys(<<d>>) \cup Keys(<<s>>)
    BY KeysOfTwo
  <2> QED
    BY <2>1, <2>2, FS_Union, FS_CardinalityType
<1>2. p \in [1 .. N -> K] /\ \A i, j \in 1 .. N : i # j => p[i] # p[j]
  BY DEF SetToSeqs
<1>3. \A k \in K : \E i \in 1 .. N : p[i] = k
  <2>1. p \in Injection(1 .. N, K)
    BY <1>2 DEF Injection, IsInjective
  <2>2. Cardinality(1 .. N) = N
    BY <1>1, FS_Interval
  <2>3. p \in Surjection(1 .. N, K)
    BY <1>1, <2>1, <2>2, FS_Injection
  <2> QED
    BY <2>3 DEF Surjection
<1>4. ASSUME NEW i \in 1 .. N
      PROVE  /\ f[i].key = p[i]
             /\ \E l \in {d, s} : \E j \in DOMAIN l : l[j].key = p[i] /\ f[i].due = l[j].due
  <2> DEFINE l == IF p[i] \in Keys(<<d>>) THEN d ELSE s
             j == Position(l, p[i])
  <2>1. p[i] \in Keys(<<l>>) /\ l \in Seq(Items) /\ l \in {d, s}
    BY <1>2, KeysOfTwo
  <2>2. FirstOf(<<d, s>>, p[i]) = l[j]
    BY DEF FirstOf
  <2> HIDE DEF l
  <2>3. j \in DOMAIN l /\ l[j].key = p[i]
    BY <2>1, PositionIs
  <2> HIDE DEF j
  <2>4. l[j] \in Items
    BY <2>1, <2>3, ElementOfSeq, LenProperties
  <2>5. f[i] = [l[j] EXCEPT !.score = RrfScore(<<d, s>>, p[i])]
    BY <1>2, <2>2 DEF FusedBy
  <2>6. f[i].key = l[j].key /\ f[i].due = l[j].due
    BY <2>4, <2>5 DEF Items
  <2> QED
    BY <2>1, <2>3, <2>6
<1>5. DOMAIN f = 1 .. N /\ f \in Seq(Range(f)) /\ Len(f) = N
  <2>1. DOMAIN f = 1 .. N /\ f = [i \in 1 .. N |-> f[i]]
    BY <1>2 DEF FusedBy
  <2> HIDE DEF f
  <2> DEFINE R == Range(f)
  <2>2. f \in [1 .. N -> R]
    BY <2>1 DEF Range
  <2> HIDE DEF R, N
  <2>3. f \in Seq(R)
    BY <1>1, <2>2
  <2> QED
    BY <1>1, <2>1, <2>3, LenProperties DEF R
<1> QED
  BY <1>1, <1>2, <1>3, <1>4, <1>5 DEF IsFusion

\* A list that is fused and cut is not empty if there is anything to fuse and room for it.
LEMMA FusedIs ==
  ASSUME NEW d \in Seq(Items), NEW s \in Seq(Items), NEW limit \in Nat,
         NEW f \in RrfFuse(<<d, s>>, limit)
  PROVE  /\ f \in Seq(Range(f))
         /\ \A i \in DOMAIN f : \E l \in {d, s} : \E j \in DOMAIN l :
              f[i].key = l[j].key /\ f[i].due = l[j].due
         /\ limit > 0 /\ (d # <<>> \/ s # <<>>) => f # <<>>
<1> DEFINE K == Keys(<<d, s>>)
<1>1. PICK p \in SetToSeqs(K) : f = Take(FusedBy(<<d, s>>, p), limit)
  BY DEF RrfFuse, FusedBy
<1> DEFINE g == FusedBy(<<d, s>>, p)
<1>2. IsFusion(d, s, p, K, g)
  BY FusingIs
<1>3. d # <<>> \/ s # <<>> => K # {}
  <2>1. ASSUME NEW l \in {d, s}, l # <<>>
        PROVE  l[1].key \in K
    <3>1. l \in Seq(Items)
      BY <2>1
    <3>2. 1 \in DOMAIN l
      BY <2>1, <3>1, LenProperties, EmptySeq
    <3> QED
      BY <2>1, <3>2, KeysOfOne, KeysOfTwo
  <2> QED
    BY <2>1
<1> DEFINE R == Range(g)
<1> HIDE DEF K, g, R
<1>4. /\ f \in Seq(R)
      /\ Len(f) = IF Len(g) <= limit THEN Len(g) ELSE limit
      /\ \A i \in 1 .. Len(f) : i \in 1 .. Len(g) /\ f[i] = g[i]
  <2>1. f = Take(g, limit) /\ g \in Seq(R)
    BY <1>1, <1>2 DEF R, g, IsFusion
  <2> QED
    BY <2>1, TakeIs
<1>5. DOMAIN f = 1 .. Len(f) /\ Len(f) \in Nat /\ DOMAIN p = 1 .. Len(g)
  BY <1>2, <1>4, LenProperties DEF IsFusion
<1>6. f \in Seq(Range(f))
  <2> DEFINE Q == Range(f)
             n == Len(f)
  <2>1. f \in [1 .. n -> Q]
    <3>1. f = [i \in 1 .. n |-> f[i]]
      BY <1>4, <1>5, LenProperties
    <3> QED
      BY <1>5, <3>1 DEF Range
  <2>2. n \in Nat
    BY <1>5
  <2> HIDE DEF Q, n
  <2>3. f \in Seq(Q)
    BY <2>1, <2>2
  <2> QED
    BY <2>3 DEF Q
<1>7. \A i \in DOMAIN f : \E l \in {d, s} : \E j \in DOMAIN l :
        f[i].key = l[j].key /\ f[i].due = l[j].due
  <2> TAKE i \in DOMAIN f
  <2>1. i \in DOMAIN p /\ f[i] = g[i]
    BY <1>4, <1>5
  <2>2. g[i].key = p[i]
    BY <1>2, <2>1 DEF IsFusion
  <2>3. \E l \in {d, s} : \E j \in DOMAIN l : l[j].key = p[i] /\ g[i].due = l[j].due
    BY <1>2, <2>1 DEF IsFusion
  <2> QED
    BY <2>1, <2>2, <2>3
<1>8. ASSUME limit > 0, d # <<>> \/ s # <<>>
      PROVE  f # <<>>
  <2>1. Len(g) > 0
    BY <1>2, <1>3, <1>5, <1>8 DEF IsFusion
  <2>2. Len(f) > 0
    BY <1>4, <1>5, <1>8, <2>1
  <2> QED
    BY <2>2
<1> QED
  BY <1>6, <1>7, <1>8

(* What is ahead in both lists of a key they have once at most has the     *)
(* higher score, and is ahead of it when they are fused, unless the scores *)
(* are too near to each other.                                             *)
LEMMA FusingKeepsOrder ==
  ASSUME NEW d \in Seq(Items), NEW s \in Seq(Items), NEW limit \in Nat,
         NEW f \in RrfFuse(<<d, s>>, limit),
         Len(d) <= MaxRank, Len(s) <= MaxRank, NEW a, NEW b, a # b,
         Precedes(d, a, b), Precedes(s, a, b), AtMostOnce(d, b), AtMostOnce(s, b)
  PROVE  /\ RrfScore(<<d, s>>, a) > RrfScore(<<d, s>>, b)
         /\ \/ b \in Keys(<<f>>) => a \in Keys(<<f>>) /\ Position(f, a) < Position(f, b)
            \/ RrfScore(<<d, s>>, a) <= RrfScore(<<d, s>>, b) + Blur
<1> DEFINE K == Keys(<<d, s>>)
           score(k) == RrfScore(<<d, s>>, k)
<1>1. PICK p \in SetToSeqs(K) :
        /\ \A i, j \in DOMAIN p : i < j => score(p[i]) + Blur >= score(p[j])
        /\ f = Take(FusedBy(<<d, s>>, p), limit)
  BY DEF RrfFuse, FusedBy
<1> DEFINE g == FusedBy(<<d, s>>, p)
<1>2. IsFusion(d, s, p, K, g)
  BY FusingIs
<1>3. MaxRank \in Nat /\ Blur \in Nat
  BY SearchAssumption, LenProperties DEF MaxRank
<1>4. ASSUME NEW l \in {d, s}
      PROVE  Votes(l, a) \in Nat /\ Votes(l, b) \in Nat /\ Votes(l, a) > Votes(l, b)
  <2>1. l \in Seq(Items) /\ Len(l) <= MaxRank /\ Precedes(l, a, b) /\ AtMostOnce(l, b)
    BY <1>4
  <2>2. DOMAIN l = 1 .. Len(l) /\ Len(l) \in Nat
    BY <2>1, LenProperties
  <2>3. PICK i \in DOMAIN l : i = Position(l, a) /\ l[i].key = a
    BY <2>1, PositionIs DEF Precedes
  <2>4. Votes(l, a) \in Nat /\ Votes(l, b) \in Nat /\ Votes(l, a) >= Weight(i)
    BY <2>1, <2>3, VotesAre
  <2>5. i \in 1 .. MaxRank /\ Weight(i) \in Nat /\ Weight(i) > 0
    BY <1>3, <2>1, <2>2, WeightFalls
  <2>6. CASE b \in Keys(<<l>>)
    <3>1. PICK j \in DOMAIN l : j = Position(l, b) /\ l[j].key = b
      BY <2>1, <2>6, PositionIs
    <3>2. Votes(l, b) = Weight(j)
      BY <2>1, <3>1, VotesAre
    <3>3. i < j
      BY <2>1, <2>3, <2>6, <3>1 DEF Precedes
    <3>4. j \in 1 .. MaxRank /\ Weight(j) \in Nat /\ Weight(i) > Weight(j)
      BY <1>3, <2>1, <2>2, <2>5, <3>3, WeightFalls
    <3> QED
      BY <2>4, <2>5, <3>2, <3>4
  <2>7. CASE b \notin Keys(<<l>>)
    <3>1. Votes(l, b) = 0
      BY <2>1, <2>7, VotesAre
    <3> QED
      BY <2>4, <2>5, <3>1
  <2> QED
    BY <2>6, <2>7
<1>5. score(a) \in Nat /\ score(b) \in Nat /\ score(a) > score(b)
  <2>1. /\ Votes(d, a) \in Nat /\ Votes(d, b) \in Nat /\ Votes(d, a) > Votes(d, b)
        /\ Votes(s, a) \in Nat /\ Votes(s, b) \in Nat /\ Votes(s, a) > Votes(s, b)
    BY <1>4
  <2>2. score(a) = Votes(d, a) + Votes(s, a) /\ score(b) = Votes(d, b) + Votes(s, b)
    BY DEF RrfScore
  <2> HIDE DEF score
  <2> QED
    BY <2>1, <2>2
<1> SUFFICES ASSUME b \in Keys(<<f>>), score(a) > score(b) + Blur
             PROVE  a \in Keys(<<f>>) /\ Position(f, a) < Position(f, b)
  <2> HIDE DEF K, g
  <2>1. score(a) > score(b) + Blur \/ score(a) <= score(b) + Blur
    <3> HIDE DEF score
    <3> QED
      BY <1>3, <1>5
  <2> QED
    BY <1>5, <2>1
<1>6. a \in K
  BY KeysOfTwo DEF Precedes
<1> DEFINE R == Range(g)
<1> HIDE DEF K, g, score, R
<1>7. /\ f \in Seq(R)
      /\ Len(f) = IF Len(g) <= limit THEN Len(g) ELSE limit
      /\ \A i \in 1 .. Len(f) : i \in 1 .. Len(g) /\ f[i] = g[i]
  <2>1. f = Take(g, limit) /\ g \in Seq(R)
    BY <1>1, <1>2 DEF R, g, IsFusion
  <2> QED
    BY <2>1, TakeIs
<1>8. DOMAIN f = 1 .. Len(f) /\ Len(f) \in Nat /\ DOMAIN p = 1 .. Len(g) /\ Len(g) \in Nat
  BY <1>2, <1>7, LenProperties DEF IsFusion
<1>9. \A i \in DOMAIN f : i \in DOMAIN p /\ f[i].key = p[i]
  BY <1>2, <1>7, <1>8 DEF IsFusion
<1>10. PICK j \in DOMAIN f : p[j] = b
  BY <1>9, KeysOfOne
<1>11. PICK i \in DOMAIN p : p[i] = a
  BY <1>2, <1>6 DEF IsFusion
<1>12. i < j
  <2>1. j \in DOMAIN p /\ i # j /\ ~(j < i)
    <3>1. ASSUME j < i PROVE FALSE
      <4>1. score(b) + Blur >= score(a)
        BY <1>1, <1>9, <1>10, <1>11, <3>1
      <4> QED
        BY <1>3, <1>5, <4>1
    <3> QED
      BY <1>5, <1>9, <1>10, <1>11, <3>1
  <2> QED
    BY <1>8, <2>1
<1>13. i \in DOMAIN f
  BY <1>8, <1>10, <1>11, <1>12
<1>14. a \in Keys(<<f>>) /\ b \in Keys(<<f>>)
  BY <1>9, <1>10, <1>11, <1>13, KeysOfOne
<1>15. /\ Position(f, a) \in DOMAIN f /\ f[Position(f, a)].key = a
       /\ Position(f, b) \in DOMAIN f /\ f[Position(f, b)].key = b
  BY <1>7, <1>14, PositionIs
<1>16. Position(f, a) = i /\ Position(f, b) = j
  BY <1>2, <1>9, <1>10, <1>11, <1>13, <1>15 DEF IsFusion
<1> QED
  BY <1>12, <1>14, <1>16

-----------------------------------------------------------------------------
(* The invariant. *)

Answers == [state : {"none", "failed", "ok"}, list : Seq(Items)]
Nothing == [dense |-> NoList, sparse |-> NoList]

SearchTypeOK ==
  /\ rows \in [Range(Workspace) -> [Key -> Row]]
  /\ ask \in [client : {"none", "mcp", "cli"}, mode : Modes, opt : Options]
  /\ turn \in 1 .. Len(Workspace) + 1
  /\ got \in [dense : Answers, sparse : Answers]
  /\ all \in [dense : Seq(Items), sparse : Seq(Items)]

\* Who asks, and how far the search is.
Progress ==
  /\ at \in {"ask", "load", "plain", "model", "turn", "asked", "rerank", "inference", "answered", "failed"}
  /\ ask.client = "none" <=> at = "ask"
  /\ at \in {"turn", "asked"} => ask.client = "mcp"
  /\ at \in {"load", "plain", "model", "rerank", "inference"} => ask.client = "cli"
  /\ at \in {"ask", "load", "plain", "model"} => turn = 1 /\ all = NoLists
  /\ at = "asked" => turn <= Len(Workspace)
  /\ at \in {"ask", "load", "turn"} => got = Nothing

\* What a retriever answered is what it was asked for, or nothing.
Answered ==
  /\ \A l \in {got.dense, got.sparse} :
       /\ KeysOnce(l.list) /\ Len(l.list) <= MaxRank /\ Len(l.list) <= Len(KeyOrder)
       /\ l.state # "ok" => l.list = <<>>
  /\ Asking /\ got.dense.state = "ok" =>
       /\ DOMAIN got.dense.list = DOMAIN DenseKeys(Workspace[turn], ask.opt)
       /\ \A i \in DOMAIN got.dense.list :
            got.dense.list[i].key = DenseKeys(Workspace[turn], ask.opt)[i]

\* Whoever was out of date when it was read is on the list that is shown.
Due(l) == \A i \in DOMAIN l : l[i].due => l[i].key \in pending
Noted ==
  ask.client = "mcp" =>
    /\ at = "asked" /\ began = "noted" =>
         \A k \in Key : <<Workspace[turn], k>> = Edited => k \in pending
    /\ Due(got.dense.list) /\ Due(got.sparse.list) /\ Due(all.dense) /\ Due(all.sparse)

\* What the list before reranking is made of.
Fused ==
  /\ at \in {"rerank", "inference", "answered"} => fused \in Seq(Range(fused))
  /\ at \in {"rerank", "inference"} => fused # <<>>
  /\ at \in {"rerank", "inference", "answered"} /\ ask.client = "cli" =>
       /\ all = [dense |-> got.dense.list, sparse |-> got.sparse.list]
       /\ ask.mode \in Hybrid /\ got.dense.state = "ok" /\ got.sparse.state = "ok" =>
            fused \in RrfFuse(<<got.dense.list, got.sparse.list>>, ask.opt.limit)
  /\ at = "answered" /\ ask.client = "mcp" /\ ask.mode \in Hybrid =>
       fused \in RrfFuse(<<Sorted(all.dense), Sorted(all.sparse)>>, ask.opt.limit)

IInv ==
  /\ SearchTypeOK /\ Progress /\ Answered /\ Noted /\ Fused
  /\ FailureKeepsOthers /\ RerankKeepsCandidates /\ StaleIsFlagged

-----------------------------------------------------------------------------
(* What retrievers answer. *)

LEMMA OnceIsShort ==
  ASSUME NEW s \in Seq(Key), Once(s)
  PROVE  Len(s) <= MaxRank /\ MaxRank \in Nat /\ Len(s) <= Len(KeyOrder)
<1> DEFINE n == Len(KeyOrder)
           w == Len(Workspace)
<1>1. n \in Nat /\ DOMAIN KeyOrder = 1 .. n /\ w \in Nat /\ w > 0
  BY SearchAssumption, LenProperties, EmptySeq
<1>2. IsFiniteSet(Key) /\ Cardinality(Key) <= n /\ Cardinality(Key) \in Nat
  <2>1. KeyOrder \in Surjection(1 .. n, Key)
    BY <1>1, SearchAssumption, ElementOfSeq DEF Surjection, Range
  <2> HIDE DEF n
  <2>2. IsFiniteSet(1 .. n) /\ Cardinality(1 .. n) = n
    BY <1>1, FS_Interval
  <2> QED
    BY <2>1, <2>2, FS_Surjection, FS_CardinalityType
<1>3. Len(s) <= Cardinality(Key) /\ Len(s) \in Nat
  <2>1. s \in Injection(1 .. Len(s), Key)
    BY LenProperties, ElementOfSeq DEF Injection, IsInjective, Once
  <2>2. Len(s) \in Nat /\ Cardinality(1 .. Len(s)) = Len(s)
    BY LenProperties, FS_Interval
  <2> QED
    BY <1>2, <2>1, <2>2, FS_Injection
<1> HIDE DEF n, w
<1>4. MaxRank = w * n
  BY DEF MaxRank, w, n
<1>5. w * n \in Nat /\ w * n >= n
  <2>1. PICK v \in Nat : w = v + 1
    <3>1. w - 1 \in Nat /\ w = (w - 1) + 1
      BY <1>1
    <3> QED
      BY <3>1
  <2>2. w * n = v * n + n /\ v * n \in Nat
    BY <1>1, <2>1
  <2> QED
    BY <1>1, <2>2
<1>6. Len(s) <= MaxRank /\ MaxRank \in Nat /\ Len(s) <= n
  BY <1>1, <1>2, <1>3, <1>4, <1>5
<1> QED
  BY <1>6 DEF n

\* The results for keys found in a workspace, which are due only if they are noted as edited.
AreItems(l, w, found) ==
  /\ l \in Seq(Items) /\ KeysOnce(l) /\ Len(l) <= MaxRank /\ DOMAIN l = DOMAIN found
  /\ Len(l) <= Len(KeyOrder)
  /\ \A i \in DOMAIN l :
       /\ l[i].key = found[i]
       /\ l[i].due => <<w, l[i].key>> = Edited /\ began = "noted" /\ edit = "noted"

LEMMA ItemsOfKeys ==
  ASSUME NEW w \in Range(Workspace), NEW found \in Seq(Key), Once(found),
         NEW score \in [Key -> Nat],
         NEW l, l = [i \in DOMAIN found |-> Item(w, found[i], score[found[i]])]
  PROVE  AreItems(l, w, found)
<1> DEFINE n == Len(found)
<1>1. DOMAIN found = 1 .. n /\ n \in Nat /\ \A i \in 1 .. n : found[i] \in Key
  BY LenProperties, ElementOfSeq
<1> HIDE DEF n
<1>2. \A i \in 1 .. n : l[i] = Item(w, found[i], score[found[i]])
  BY <1>1
<1>3. \A i \in 1 .. n : l[i] \in Items /\ l[i].key = found[i]
                        /\ (l[i].due => <<w, l[i].key>> = Edited /\ began = "noted" /\ edit = "noted")
  BY <1>1, <1>2 DEF Item, Items
<1>4. l \in Seq(Items) /\ Len(l) = n /\ DOMAIN l = 1 .. n
  <2>1. l = [i \in 1 .. n |-> l[i]] /\ DOMAIN l = 1 .. n
    BY <1>1
  <2>2. l \in [1 .. n -> Items]
    BY <1>3, <2>1
  <2>3. l \in Seq(Items)
    BY <1>1, <2>2
  <2> QED
    BY <1>1, <2>1, <2>3, LenProperties
<1>5. KeysOnce(l)
  BY <1>1, <1>3, <1>4 DEF KeysOnce, Once
<1>6. Len(l) <= MaxRank /\ Len(l) <= Len(KeyOrder)
  BY <1>4, OnceIsShort DEF n
<1> QED
  BY <1>1, <1>3, <1>4, <1>5, <1>6 DEF AreItems

LEMMA DenseIs ==
  ASSUME rows \in [Range(Workspace) -> [Key -> Row]],
         NEW w \in Range(Workspace), NEW opt \in Options
  PROVE  AreItems(Dense(w, opt), w, DenseKeys(w, opt))
<1> DEFINE found == DenseKeys(w, opt)
           score == [k \in Key |-> rows[w][k].vec]
           l == Dense(w, opt)
<1>1. found \in Seq(Key) /\ Once(found)
  BY DenseFinds
<1>2. score \in [Key -> Nat]
  BY SearchAssumption
<1>3. \A i \in DOMAIN found : found[i] \in Key
  BY <1>1, ElementOfSeq, LenProperties
<1>4. l = [i \in DOMAIN found |-> Item(w, found[i], score[found[i]])]
  BY <1>3 DEF Dense, DenseKeys
<1> HIDE DEF l, found, score
<1> QED
  BY <1>1, <1>2, <1>4, ItemsOfKeys DEF l, found

LEMMA SparseIs ==
  ASSUME rows \in [Range(Workspace) -> [Key -> Row]],
         NEW w \in Range(Workspace), NEW opt \in Options
  PROVE  \E found : AreItems(Sparse(w, opt), w, found)
<1> DEFINE score == [k \in Key |-> rows[w][k].words]
           some  == {k \in Passing(opt) : rows[w][k].words > 0}
           hits  == KeepIn(KeyOrder, some)
           ranked == BestFirst(hits, score)
           found == Take(ranked, opt.limit)
           l == Sparse(w, opt)
<1>1. score \in [Key -> Nat] /\ opt.limit \in Nat
  BY SearchAssumption
<1>2. hits \in Seq(Key) /\ Once(hits)
  <2>1. KeyOrder \in Seq(Key) /\ Once(KeyOrder)
    BY SearchAssumption DEF Once, IsInjective
  <2> HIDE DEF some
  <2> QED
    BY <2>1, KeepInIs
<1> HIDE DEF hits, score
<1>3. ranked \in Seq(Key) /\ Once(ranked)
  BY <1>1, <1>2, BestFirstIs
<1> HIDE DEF ranked
<1>4. found \in Seq(Key) /\ Once(found)
  BY <1>1, <1>3, TakeIs, CutKeeps
<1>5. \A i \in DOMAIN found : found[i] \in Key
  BY <1>4, ElementOfSeq, LenProperties
<1> HIDE DEF found
<1>6. l = [i \in DOMAIN found |-> Item(w, found[i], score[found[i]])]
  BY <1>5 DEF Sparse, found, ranked, hits, score
<1> HIDE DEF l
<1> QED
  BY <1>1, <1>4, <1>6, ItemsOfKeys DEF l

-----------------------------------------------------------------------------
(* The steps. *)

USE DEF Nothing, NoLists, NoList, Failed

LEMMA EmptyLists ==
  /\ <<>> \in Seq(Items) /\ KeysOnce(<<>>) /\ Len(<<>>) <= MaxRank
  /\ Len(<<>>) <= Len(KeyOrder)
  /\ NoList \in Answers /\ Failed \in Answers
<1>1. MaxRank \in Nat /\ Len(KeyOrder) \in Nat
  BY SearchAssumption, LenProperties DEF MaxRank
<1>2. <<>> \in Seq(Items) /\ Len(<<>>) = 0
  BY EmptySeq
<1>3. KeysOnce(<<>>)
  BY DEF KeysOnce
<1> QED
  BY <1>1, <1>2, <1>3 DEF Answers

LEMMA InitOK == Init => IInv
<1> SUFFICES ASSUME Init PROVE IInv
  OBVIOUS
<1>1. SearchTypeOK
  <2>1. rows \in [Range(Workspace) -> [Key -> Row]]
    BY SearchAssumption DEF Init
  <2>2. ask \in [client : {"none", "mcp", "cli"}, mode : Modes, opt : Options]
    <3>1. ask.opt \in Options /\ ask = [client |-> "none", mode |-> "dense", opt |-> ask.opt]
      BY SearchAssumption DEF Init
    <3> QED
      BY <3>1 DEF Modes
  <2>3. turn \in 1 .. Len(Workspace) + 1
    BY SearchAssumption, LenProperties DEF Init
  <2>4. got \in [dense : Answers, sparse : Answers] /\ all \in [dense : Seq(Items), sparse : Seq(Items)]
    BY EmptyLists DEF Init
  <2> QED
    BY <2>1, <2>2, <2>3, <2>4 DEF SearchTypeOK
<1>2. Progress /\ Fused
  BY DEF Init, Progress, Fused
<1>3. Answered
  BY EmptyLists DEF Init, Answered, Asking
<1>4. Noted
  BY DEF Init, Noted
<1>5. FailureKeepsOthers /\ RerankKeepsCandidates /\ StaleIsFlagged
  BY DEF Init, FailureKeepsOthers, RerankKeepsCandidates, StaleIsFlagged
<1> QED
  BY <1>1, <1>2, <1>3, <1>4, <1>5 DEF IInv

LEMMA RoutedModeIs ==
  ASSUME NEW routing, NEW structural \in BOOLEAN, NEW mode \in Modes \cup {"unset"}
  PROVE  RoutedMode(routing, structural, mode) \in Modes \cup {"graph", "invalid"}
  BY DEF RoutedMode, Modes

LEMMA AskMcpOK == IInv /\ AskMcp => IInv'
<1> SUFFICES ASSUME IInv, AskMcp PROVE IInv'
  OBVIOUS
<1>1. PICK routing \in {"unset", "auto", "hybrid", "other"}, structural \in BOOLEAN,
           mode \in Modes \cup {"unset"}, opt \in Options :
        LET m == RoutedMode(routing, structural, mode)
        IN /\ m # "graph"
           /\ ask' = [client |-> "mcp", mode |-> IF m = "invalid" THEN "dense" ELSE m, opt |-> opt]
           /\ at' = IF m = "invalid" THEN "failed" ELSE "turn"
  BY DEF AskMcp
<1>2. at = "ask" /\ UNCHANGED <<rows, edit, turn, got, began, all, pending, fused, result>>
  BY DEF AskMcp
<1>3. ask' \in [client : {"none", "mcp", "cli"}, mode : Modes, opt : Options] /\ ask'.client = "mcp"
  BY <1>1, RoutedModeIs DEF Modes
<1>4. at' \in {"failed", "turn"}
  BY <1>1
<1>5. got = Nothing /\ all = NoLists /\ turn = 1
  BY <1>2 DEF IInv, Progress
<1>6. SearchTypeOK' /\ Progress' /\ Fused'
  BY <1>2, <1>3, <1>4, <1>5 DEF IInv, SearchTypeOK, Progress, Fused
<1>7. Answered'
  BY <1>2, <1>4, <1>5 DEF IInv, Answered, Asking
<1>8. Noted'
  BY <1>2, <1>4, <1>5 DEF Noted, Due
<1>9. FailureKeepsOthers' /\ RerankKeepsCandidates' /\ StaleIsFlagged'
  BY <1>2, <1>4, <1>5 DEF FailureKeepsOthers, RerankKeepsCandidates, StaleIsFlagged
<1> QED
  BY <1>6, <1>7, <1>8, <1>9 DEF IInv

LEMMA AskCliOK == IInv /\ AskCli => IInv'
<1> SUFFICES ASSUME IInv, AskCli PROVE IInv'
  OBVIOUS
<1>1. PICK mode \in Modes, opt \in Options : ask' = [client |-> "cli", mode |-> mode, opt |-> opt]
  BY DEF AskCli
<1>2. /\ at = "ask" /\ at' \in {"failed", "load", "plain"}
      /\ UNCHANGED <<rows, edit, turn, got, began, all, pending, fused, result>>
  BY DEF AskCli
<1>3. ask' \in [client : {"none", "mcp", "cli"}, mode : Modes, opt : Options] /\ ask'.client = "cli"
  BY <1>1
<1>4. got = Nothing /\ all = NoLists /\ turn = 1
  BY <1>2 DEF IInv, Progress
<1>5. SearchTypeOK' /\ Progress' /\ Fused' /\ Noted'
  BY <1>2, <1>3, <1>4 DEF IInv, SearchTypeOK, Progress, Fused, Noted
<1>6. Answered'
  BY <1>2, <1>4 DEF IInv, Answered
<1>7. FailureKeepsOthers' /\ RerankKeepsCandidates' /\ StaleIsFlagged'
  BY <1>2, <1>4 DEF FailureKeepsOthers, RerankKeepsCandidates, StaleIsFlagged
<1> QED
  BY <1>5, <1>6, <1>7 DEF IInv

LEMMA LoadRerankerOK == IInv /\ LoadReranker => IInv'
<1> SUFFICES ASSUME IInv, LoadReranker PROVE IInv'
  OBVIOUS
<1>1. /\ at = "load" /\ at' \in {"model", "plain"}
      /\ UNCHANGED <<rows, edit, ask, turn, got, began, all, pending, fused, result>>
  BY DEF LoadReranker
<1>2. got = Nothing /\ ask.client = "cli" /\ turn = 1 /\ all = NoLists
  BY <1>1 DEF IInv, Progress
<1>3. SearchTypeOK' /\ Progress' /\ Fused' /\ Noted'
  BY <1>1, <1>2 DEF IInv, SearchTypeOK, Progress, Fused, Noted
<1>4. Answered'
  BY <1>1, <1>2 DEF IInv, Answered
<1>5. FailureKeepsOthers' /\ RerankKeepsCandidates' /\ StaleIsFlagged'
  BY <1>1 DEF FailureKeepsOthers, RerankKeepsCandidates, StaleIsFlagged
<1> QED
  BY <1>3, <1>4, <1>5 DEF IInv

LEMMA BeginTurnOK == IInv /\ BeginTurn => IInv'
<1> SUFFICES ASSUME IInv, BeginTurn PROVE IInv'
  OBVIOUS
<1>1. /\ at = "turn" /\ turn <= Len(Workspace) /\ at' = "asked" /\ began' = edit
      /\ pending' = pending \cup Listed(Workspace[turn])
      /\ UNCHANGED <<rows, edit, ask, turn, got, all, fused, result>>
  BY DEF BeginTurn
<1>2. got = Nothing /\ ask.client = "mcp"
  BY <1>1 DEF IInv, Progress
<1>3. SearchTypeOK' /\ Progress' /\ Fused'
  BY <1>1, <1>2 DEF IInv, SearchTypeOK, Progress, Fused
<1>4. Answered'
  BY <1>1, <1>2 DEF IInv, Answered
<1>5. Noted'
  <2>1. \A k \in Key : edit = "noted" /\ <<Workspace[turn], k>> = Edited => k \in pending'
    BY <1>1 DEF Listed
  <2> QED
    BY <1>1, <1>2, <2>1 DEF IInv, Noted, Due
<1>6. FailureKeepsOthers' /\ RerankKeepsCandidates' /\ StaleIsFlagged'
  BY <1>1 DEF FailureKeepsOthers, RerankKeepsCandidates, StaleIsFlagged
<1> QED
  BY <1>3, <1>4, <1>5, <1>6 DEF IInv

LEMMA RetrieveDenseOK == IInv /\ RetrieveDense => IInv'
<1> SUFFICES ASSUME IInv, RetrieveDense PROVE IInv'
  OBVIOUS
<1> DEFINE w == Workspace[turn]
<1>1. /\ Asking /\ got.dense.state = "none"
      /\ UNCHANGED <<rows, edit, ask, at, turn, began, all, pending, fused, result>>
  BY DEF RetrieveDense
<1>2. PICK l : got' = [got EXCEPT !.dense = l] /\ (l = Failed \/ l = [state |-> "ok", list |-> Dense(w, ask.opt)])
  BY DEF RetrieveDense
<1>3. got \in [dense : Answers, sparse : Answers] /\ ask.opt \in Options
  BY DEF IInv, SearchTypeOK
<1>4. got'.dense = l /\ got'.sparse = got.sparse
  BY <1>2, <1>3
<1>5. w \in Range(Workspace)
  <2>1. turn \in 1 .. Len(Workspace)
    BY <1>1, SearchAssumption, EmptySeq, LenProperties DEF IInv, SearchTypeOK, Progress, Asking
  <2> QED
    BY <2>1, SearchAssumption, ElementOfSeq
<1> HIDE DEF w
<1>6. AreItems(Dense(w, ask.opt), w, DenseKeys(w, ask.opt))
  BY <1>3, <1>5, DenseIs DEF IInv, SearchTypeOK
<1>7. l \in Answers
  <2>1. CASE l = Failed
    BY <2>1, EmptyLists DEF Answers
  <2>2. CASE l = [state |-> "ok", list |-> Dense(w, ask.opt)]
    <3>1. Dense(w, ask.opt) \in Seq(Items)
      BY <1>6 DEF AreItems
    <3> QED
      BY <2>2, <3>1 DEF Answers
  <2> QED
    BY <1>2, <2>1, <2>2
<1>8. SearchTypeOK'
  <2>1. got' \in [dense : Answers, sparse : Answers]
    BY <1>2, <1>3, <1>7
  <2> QED
    BY <1>1, <2>1 DEF IInv, SearchTypeOK
<1>9. Progress' /\ Fused'
  BY <1>1 DEF IInv, Progress, Fused, Asking
<1>10. Answered'
  <2>1. /\ KeysOnce(l.list) /\ Len(l.list) <= MaxRank /\ Len(l.list) <= Len(KeyOrder)
        /\ l.state # "ok" => l.list = <<>>
    BY <1>2, <1>6, EmptyLists DEF AreItems
  <2>2. l.state = "ok" => /\ DOMAIN l.list = DOMAIN DenseKeys(w, ask.opt)
                          /\ \A i \in DOMAIN l.list : l.list[i].key = DenseKeys(w, ask.opt)[i]
    BY <1>2, <1>6 DEF AreItems
  <2>3. DenseKeys(w, ask.opt)' = DenseKeys(w, ask.opt) /\ w' = w
    BY <1>1 DEF w, DenseKeys, SearchSimilar, Vectors, FetchLimit, Passing, Passes
  <2>4. /\ KeysOnce(got.sparse.list) /\ Len(got.sparse.list) <= MaxRank
        /\ Len(got.sparse.list) <= Len(KeyOrder)
        /\ got.sparse.state # "ok" => got.sparse.list = <<>>
    BY DEF IInv, Answered
  <2> QED
    BY <1>1, <1>4, <2>1, <2>2, <2>3, <2>4 DEF Answered, w
<1>11. Noted'
  <2>1. ASSUME ask.client = "mcp"
        PROVE  \A i \in DOMAIN l.list : l.list[i].due => l.list[i].key \in pending
    <3>1. at = "asked"
      BY <1>1, <2>1 DEF IInv, Progress, Asking
    <3>2. \A i \in DOMAIN l.list : l.list[i].due =>
             <<w, l.list[i].key>> = Edited /\ began = "noted" /\ l.list[i].key \in Key
      <4>1. CASE l = Failed
        BY <4>1
      <4>2. CASE l = [state |-> "ok", list |-> Dense(w, ask.opt)]
        <5>1. \A i \in DOMAIN l.list : l.list[i] \in Items
          BY <1>6, <4>2, ElementOfSeq, LenProperties DEF AreItems
        <5> QED
          BY <1>6, <4>2, <5>1 DEF AreItems, Items
      <4> QED
        BY <1>2, <4>1, <4>2
    <3> QED
      BY <2>1, <3>1, <3>2 DEF IInv, Noted, w
  <2> QED
    BY <1>1, <1>4, <2>1 DEF IInv, Noted, Due
<1>12. FailureKeepsOthers' /\ RerankKeepsCandidates' /\ StaleIsFlagged'
  BY <1>1 DEF FailureKeepsOthers, RerankKeepsCandidates, StaleIsFlagged, Asking
<1> QED
  BY <1>8, <1>9, <1>10, <1>11, <1>12 DEF IInv

LEMMA RetrieveSparseOK == IInv /\ RetrieveSparse => IInv'
<1> SUFFICES ASSUME IInv, RetrieveSparse PROVE IInv'
  OBVIOUS
<1> DEFINE w == Workspace[turn]
<1>1. /\ Asking /\ got.sparse.state = "none"
      /\ UNCHANGED <<rows, edit, ask, at, turn, began, all, pending, fused, result>>
  BY DEF RetrieveSparse
<1>2. PICK l : got' = [got EXCEPT !.sparse = l] /\ (l = Failed \/ l = [state |-> "ok", list |-> Sparse(w, ask.opt)])
  BY DEF RetrieveSparse
<1>3. got \in [dense : Answers, sparse : Answers] /\ ask.opt \in Options
  BY DEF IInv, SearchTypeOK
<1>4. got'.sparse = l /\ got'.dense = got.dense
  BY <1>2, <1>3
<1>5. w \in Range(Workspace)
  <2>1. turn \in 1 .. Len(Workspace)
    BY <1>1, SearchAssumption, EmptySeq, LenProperties DEF IInv, SearchTypeOK, Progress, Asking
  <2> QED
    BY <2>1, SearchAssumption, ElementOfSeq
<1> HIDE DEF w
<1>6. PICK found : AreItems(Sparse(w, ask.opt), w, found)
  BY <1>3, <1>5, SparseIs DEF IInv, SearchTypeOK
<1>7. l \in Answers
  <2>1. CASE l = Failed
    BY <2>1, EmptyLists DEF Answers
  <2>2. CASE l = [state |-> "ok", list |-> Sparse(w, ask.opt)]
    <3>1. Sparse(w, ask.opt) \in Seq(Items)
      BY <1>6 DEF AreItems
    <3> QED
      BY <2>2, <3>1 DEF Answers
  <2> QED
    BY <1>2, <2>1, <2>2
<1>8. SearchTypeOK'
  <2>1. got' \in [dense : Answers, sparse : Answers]
    BY <1>2, <1>3, <1>7
  <2> QED
    BY <1>1, <2>1 DEF IInv, SearchTypeOK
<1>9. Progress' /\ Fused'
  BY <1>1 DEF IInv, Progress, Fused, Asking
<1>10. Answered'
  <2>1. /\ KeysOnce(l.list) /\ Len(l.list) <= MaxRank /\ Len(l.list) <= Len(KeyOrder)
        /\ l.state # "ok" => l.list = <<>>
    BY <1>2, <1>6, EmptyLists DEF AreItems
  <2>2. DenseKeys(w, ask.opt)' = DenseKeys(w, ask.opt) /\ w' = w
    BY <1>1 DEF w, DenseKeys, SearchSimilar, Vectors, FetchLimit, Passing, Passes
  <2>3. /\ KeysOnce(got.dense.list) /\ Len(got.dense.list) <= MaxRank
        /\ Len(got.dense.list) <= Len(KeyOrder)
        /\ got.dense.state # "ok" => got.dense.list = <<>>
    BY DEF IInv, Answered
  <2>4. got.dense.state = "ok" =>
          /\ DOMAIN got.dense.list = DOMAIN DenseKeys(w, ask.opt)
          /\ \A i \in DOMAIN got.dense.list : got.dense.list[i].key = DenseKeys(w, ask.opt)[i]
    BY <1>1 DEF IInv, Answered, w
  <2> QED
    BY <1>1, <1>4, <2>1, <2>2, <2>3, <2>4 DEF Answered, w
<1>11. Noted'
  <2>1. ASSUME ask.client = "mcp"
        PROVE  \A i \in DOMAIN l.list : l.list[i].due => l.list[i].key \in pending
    <3>1. at = "asked"
      BY <1>1, <2>1 DEF IInv, Progress, Asking
    <3>2. \A i \in DOMAIN l.list : l.list[i].due =>
             <<w, l.list[i].key>> = Edited /\ began = "noted" /\ l.list[i].key \in Key
      <4>1. CASE l = Failed
        BY <4>1
      <4>2. CASE l = [state |-> "ok", list |-> Sparse(w, ask.opt)]
        <5>1. \A i \in DOMAIN l.list : l.list[i] \in Items
          BY <1>6, <4>2, ElementOfSeq, LenProperties DEF AreItems
        <5> QED
          BY <1>6, <4>2, <5>1 DEF AreItems, Items
      <4> QED
        BY <1>2, <4>1, <4>2
    <3> QED
      BY <2>1, <3>1, <3>2 DEF IInv, Noted, w
  <2> QED
    BY <1>1, <1>4, <2>1 DEF IInv, Noted, Due
<1>12. FailureKeepsOthers' /\ RerankKeepsCandidates' /\ StaleIsFlagged'
  BY <1>1 DEF FailureKeepsOthers, RerankKeepsCandidates, StaleIsFlagged, Asking
<1> QED
  BY <1>8, <1>9, <1>10, <1>11, <1>12 DEF IInv

LEMMA DueConcat ==
  ASSUME NEW d \in Seq(Items), NEW s \in Seq(Items)
  PROVE  /\ d \o s \in Seq(Items) /\ Len(d \o s) = Len(d) + Len(s)
         /\ Due(d) /\ Due(s) => Due(d \o s)
<1>1. /\ d \o s \in Seq(Items) /\ Len(d \o s) = Len(d) + Len(s)
      /\ \A i \in 1 .. Len(d) + Len(s) : (d \o s)[i] = IF i <= Len(d) THEN d[i] ELSE s[i - Len(d)]
  BY ConcatProperties
<1>2. Len(d) \in Nat /\ Len(s) \in Nat /\ DOMAIN d = 1 .. Len(d) /\ DOMAIN s = 1 .. Len(s)
      /\ DOMAIN (d \o s) = 1 .. Len(d) + Len(s)
  BY <1>1, LenProperties
<1>3. ASSUME Due(d), Due(s), NEW i \in DOMAIN (d \o s), (d \o s)[i].due
      PROVE  (d \o s)[i].key \in pending
  <2>1. CASE i <= Len(d)
    BY <1>1, <1>2, <1>3, <2>1 DEF Due
  <2>2. CASE ~(i <= Len(d))
    <3>1. i - Len(d) \in DOMAIN s /\ (d \o s)[i] = s[i - Len(d)]
      BY <1>1, <1>2, <2>2
    <3> QED
      BY <1>3, <3>1 DEF Due
  <2> QED
    BY <2>1, <2>2
<1> QED
  BY <1>1, <1>3 DEF Due

LEMMA EndTurnOK == IInv /\ EndTurn => IInv'
<1> SUFFICES ASSUME IInv, EndTurn PROVE IInv'
  OBVIOUS
<1>1. /\ at = "asked" /\ got' = Nothing /\ turn' = turn + 1 /\ at' = "turn"
      /\ all' = [dense |-> all.dense \o got.dense.list, sparse |-> all.sparse \o got.sparse.list]
      /\ UNCHANGED <<rows, edit, ask, began, pending, fused, result>>
  BY DEF EndTurn
<1>2. /\ got.dense.list \in Seq(Items) /\ got.sparse.list \in Seq(Items)
      /\ all.dense \in Seq(Items) /\ all.sparse \in Seq(Items)
  BY DEF IInv, SearchTypeOK, Answers
<1>3. ask.client = "mcp" /\ turn <= Len(Workspace)
  BY <1>1 DEF IInv, Progress
<1>4. SearchTypeOK'
  <2>1. all' \in [dense : Seq(Items), sparse : Seq(Items)]
    BY <1>1, <1>2, DueConcat
  <2>2. got' \in [dense : Answers, sparse : Answers]
    BY <1>1, EmptyLists
  <2>3. turn' \in 1 .. Len(Workspace) + 1
    BY <1>1, <1>3, SearchAssumption, LenProperties DEF IInv, SearchTypeOK
  <2> QED
    BY <1>1, <2>1, <2>2, <2>3 DEF IInv, SearchTypeOK
<1>5. Progress' /\ Fused'
  BY <1>1, <1>3 DEF Progress, Fused
<1>6. Answered'
  BY <1>1, EmptyLists DEF Answered, Asking
<1>7. Noted'
  <2>1. Due(all'.dense) /\ Due(all'.sparse)
    BY <1>1, <1>2, <1>3, DueConcat DEF IInv, Noted
  <2>2. Due(all.dense)' /\ Due(all.sparse)'
    BY <1>1, <2>1 DEF Due
  <2>3. got'.dense.list = <<>> /\ got'.sparse.list = <<>>
    BY <1>1
  <2>4. Due(got.dense.list)' /\ Due(got.sparse.list)'
    BY <2>3 DEF Due
  <2> QED
    BY <1>1, <2>2, <2>4 DEF Noted
<1>8. FailureKeepsOthers' /\ RerankKeepsCandidates' /\ StaleIsFlagged'
  BY <1>1 DEF FailureKeepsOthers, RerankKeepsCandidates, StaleIsFlagged
<1> QED
  BY <1>4, <1>5, <1>6, <1>7, <1>8 DEF IInv

\* Sorting by score keeps what is there.
LEMMA SortedIs ==
  ASSUME NEW list \in Seq(Items)
  PROVE  /\ Sorted(list) \in Seq(Items) /\ Len(Sorted(list)) = Len(list)
         /\ \A n \in DOMAIN Sorted(list) : \E j \in DOMAIN list : Sorted(list)[n] = list[j]
<1> DEFINE R == Range(list)
           score == [x \in R |-> x.score]
           n == Len(list)
<1>1. R \subseteq Items
  BY ElementOfSeq, LenProperties DEF Range
<1>2. \A x \in R : score[x] \in Nat
  BY <1>1 DEF Items
<1>3. list \in Seq(R)
  <2>1. list = [i \in 1 .. n |-> list[i]] /\ n \in Nat /\ DOMAIN list = 1 .. n
    BY LenProperties
  <2>2. list \in [1 .. n -> R]
    BY <2>1 DEF Range
  <2> HIDE DEF R, n
  <2> QED
    BY <2>1, <2>2
<1>4. Sorted(list) = BestFirst(list, score)
  BY DEF Sorted
<1> HIDE DEF R, score
<1>5. /\ Sorted(list) \in Seq(R) /\ Len(Sorted(list)) = Len(list)
      /\ \A m \in DOMAIN Sorted(list) : \E j \in DOMAIN list : Sorted(list)[m] = list[j]
  BY <1>2, <1>3, <1>4, BestFirstIs
<1>6. Sorted(list) \in Seq(Items)
  BY <1>1, <1>5
<1> QED
  BY <1>5, <1>6

\* A list of which every element has the key and the mark of one of a due list is due.
LEMMA DueSorted ==
  ASSUME NEW list \in Seq(Items), Due(list)
  PROVE  Due(Sorted(list))
  BY SortedIs DEF Due

LEMMA OneIsEnough ==
  ASSUME NEW a \in Nat, NEW b \in Nat
  PROVE  a + b \in Nat /\ (a > 0 \/ b > 0 => a + b > 0)
  OBVIOUS

LEMMA FinishMcpOK == IInv /\ FinishMcp => IInv'
<1> SUFFICES ASSUME IInv, FinishMcp PROVE IInv'
  OBVIOUS
<1> DEFINE limit == ask.opt.limit
<1>1. /\ at = "turn" /\ at' = "answered" /\ result' = fused'
      /\ UNCHANGED <<rows, edit, ask, turn, got, began, all, pending>>
  BY DEF FinishMcp
<1>2. all.dense \in Seq(Items) /\ all.sparse \in Seq(Items) /\ limit \in Nat
  BY SearchAssumption DEF IInv, SearchTypeOK
<1>3. ask.client = "mcp" /\ Due(all.dense) /\ Due(all.sparse) /\ got = Nothing
  BY <1>1 DEF IInv, Progress, Noted
<1> HIDE DEF limit
<1>4. /\ fused' \in Seq(Range(fused'))
      /\ \A i \in DOMAIN fused' : fused'[i].due => fused'[i].key \in pending
      /\ limit > 0 /\ (all.dense # <<>> \/ all.sparse # <<>>) => fused' # <<>>
      /\ ask.mode \in Hybrid => fused' \in RrfFuse(<<Sorted(all.dense), Sorted(all.sparse)>>, limit)
  <2>1. CASE ask.mode \in Hybrid
    <3>7. fused' \in RrfFuse(<<Sorted(all.dense), Sorted(all.sparse)>>, limit)
      BY <2>1 DEF FinishMcp, limit
    <3> DEFINE d == Sorted(all.dense)
               s == Sorted(all.sparse)
    <3>1. fused' \in RrfFuse(<<d, s>>, limit)
      BY <2>1 DEF FinishMcp, limit
    <3>2. d \in Seq(Items) /\ s \in Seq(Items) /\ Due(d) /\ Due(s)
      BY <1>2, <1>3, SortedIs, DueSorted
    <3>3. (all.dense # <<>> => d # <<>>) /\ (all.sparse # <<>> => s # <<>>)
      BY <1>2, SortedIs, EmptySeq, LenProperties
    <3> HIDE DEF d, s
    <3>4. PICK f \in RrfFuse(<<d, s>>, limit) : fused' = f
      BY <3>1
    <3>5. /\ f \in Seq(Range(f))
          /\ \A i \in DOMAIN f : \E l \in {d, s} : \E j \in DOMAIN l :
               f[i].key = l[j].key /\ f[i].due = l[j].due
          /\ limit > 0 /\ (d # <<>> \/ s # <<>>) => f # <<>>
      BY <1>2, <3>2, FusedIs
    <3>6. \A i \in DOMAIN f : f[i].due => f[i].key \in pending
      BY <3>2, <3>5 DEF Due
    <3> QED
      BY <3>3, <3>4, <3>5, <3>6, <3>7
  <2>2. CASE ask.mode \notin Hybrid
    <3> DEFINE both == all.dense \o all.sparse
               list == Sorted(both)
               f == Take(list, limit)
    <3>1. fused' = f
      BY <2>2 DEF FinishMcp, Merge, limit
    <3>2. both \in Seq(Items) /\ Due(both) /\ Len(both) = Len(all.dense) + Len(all.sparse)
      BY <1>2, <1>3, DueConcat
    <3> HIDE DEF both
    <3>3. list \in Seq(Items) /\ Due(list) /\ Len(list) = Len(both)
      BY <3>2, SortedIs, DueSorted
    <3> HIDE DEF list
    <3>4. /\ f \in Seq(Items) /\ Len(f) = IF Len(list) <= limit THEN Len(list) ELSE limit
          /\ \A i \in 1 .. Len(f) : i \in 1 .. Len(list) /\ f[i] = list[i]
      BY <1>2, <3>3, TakeIs
    <3> HIDE DEF f
    <3>5. DOMAIN f = 1 .. Len(f) /\ Len(f) \in Nat /\ DOMAIN list = 1 .. Len(list)
      BY <3>3, <3>4, LenProperties
    <3>6. f \in Seq(Range(f))
      <4> DEFINE n == Len(f)
                 R == Range(f)
      <4>1. f = [i \in 1 .. n |-> f[i]] /\ n \in Nat
        BY <3>4, LenProperties
      <4>2. f \in [1 .. n -> R]
        BY <3>5, <4>1 DEF Range
      <4> HIDE DEF n, R
      <4>3. f \in Seq(R)
        BY <4>1, <4>2
      <4> QED
        BY <4>3 DEF R
    <3>7. \A i \in DOMAIN f : f[i].due => f[i].key \in pending
      BY <3>3, <3>4, <3>5 DEF Due
    <3>8. ASSUME limit > 0, all.dense # <<>> \/ all.sparse # <<>>
          PROVE  f # <<>>
      <4>1. Len(all.dense) \in Nat /\ Len(all.sparse) \in Nat /\ (Len(all.dense) > 0 \/ Len(all.sparse) > 0)
        BY <1>2, <3>8, EmptySeq, LenProperties
      <4>2. Len(list) \in Nat /\ Len(list) > 0
        BY <3>2, <3>3, <4>1, OneIsEnough
      <4>3. Len(f) = Len(list) \/ Len(f) = limit
        BY <3>4
      <4>4. Len(f) > 0
        BY <3>8, <4>2, <4>3
      <4> QED
        BY <4>4
    <3> QED
      BY <2>2, <3>1, <3>6, <3>7, <3>8
  <2> QED
    BY <2>1, <2>2
<1>5. SearchTypeOK' /\ Progress' /\ Noted' /\ Fused'
  BY <1>1, <1>3, <1>4 DEF IInv, SearchTypeOK, Progress, Noted, Due, Fused, limit
<1>6. Answered'
  BY <1>1, <1>3, EmptyLists DEF Answered, Asking
<1>7. FailureKeepsOthers' /\ RerankKeepsCandidates' /\ StaleIsFlagged'
  BY <1>1, <1>4 DEF FailureKeepsOthers, RerankKeepsCandidates, StaleIsFlagged, limit
<1> QED
  BY <1>5, <1>6, <1>7 DEF IInv

\* What one list that has no key twice is cut to.
LEMMA CutIs ==
  ASSUME NEW l \in Seq(Items), NEW limit \in Nat
  PROVE  /\ Take(l, limit) \in Seq(Range(Take(l, limit)))
         /\ limit > 0 /\ l # <<>> => Take(l, limit) # <<>>
<1> DEFINE f == Take(l, limit)
           n == Len(f)
           R == Range(f)
<1>1. f \in Seq(Items) /\ n = IF Len(l) <= limit THEN Len(l) ELSE limit
  BY TakeIs
<1>2. n \in Nat /\ f = [i \in 1 .. n |-> f[i]] /\ DOMAIN f = 1 .. n
  <2> HIDE DEF f
  <2> QED
    BY <1>1, LenProperties
<1>3. f \in Seq(R)
  <2> HIDE DEF f
  <2>1. f \in [1 .. n -> R]
    BY <1>2 DEF Range
  <2> HIDE DEF R, n
  <2> QED
    BY <1>2, <2>1
<1>4. ASSUME limit > 0, l # <<>>
      PROVE  f # <<>>
  <2>1. Len(l) \in Nat /\ Len(l) > 0
    BY <1>4, EmptySeq, LenProperties
  <2>2. n > 0
    <3> HIDE DEF f, n
    <3>1. n = Len(l) \/ n = limit
      BY <1>1
    <3> QED
      BY <1>4, <2>1, <3>1
  <2> HIDE DEF f
  <2> QED
    BY <2>2
<1> QED
  BY <1>3, <1>4

LEMMA FinishCliOK == IInv /\ FinishCli => IInv'
<1> SUFFICES ASSUME IInv, FinishCli PROVE IInv'
  OBVIOUS
<1> DEFINE d == got.dense
           s == got.sparse
           limit == ask.opt.limit
<1>1. /\ at \in {"plain", "model"} /\ all' = [dense |-> d.list, sparse |-> s.list]
      /\ UNCHANGED <<rows, edit, ask, turn, got, began, pending>>
  BY DEF FinishCli
<1>2. /\ d \in Answers /\ s \in Answers /\ limit \in Nat
      /\ d.list \in Seq(Items) /\ s.list \in Seq(Items)
      /\ d.state \in {"none", "failed", "ok"} /\ s.state \in {"none", "failed", "ok"}
      /\ (d.state # "ok" => d.list = <<>>) /\ (s.state # "ok" => s.list = <<>>)
  BY SearchAssumption DEF IInv, SearchTypeOK, Answers, Answered
<1>3. ask.client = "cli"
  BY <1>1 DEF IInv, Progress
<1>4. Range(got) = {d, s}
  BY DEF IInv, SearchTypeOK, Range
<1>5. SearchTypeOK' /\ Noted'
  BY <1>1, <1>2, <1>3 DEF IInv, SearchTypeOK, Noted
<1>6. CASE d.state # "ok" /\ s.state # "ok"
  <2>1. at' = "failed" /\ UNCHANGED <<fused, result>> /\ all' = NoLists
    BY <1>1, <1>2, <1>4, <1>6 DEF FinishCli
  <2>2. Progress' /\ Fused' /\ FailureKeepsOthers' /\ RerankKeepsCandidates' /\ StaleIsFlagged'
    BY <1>1, <1>3, <2>1
       DEF Progress, Fused, FailureKeepsOthers, RerankKeepsCandidates, StaleIsFlagged
  <2>3. Answered'
    BY <1>1, <2>1 DEF IInv, Answered, Asking
  <2> QED
    BY <1>5, <2>2, <2>3 DEF IInv
<1>7. CASE d.state = "ok" \/ s.state = "ok"
  <2>1. /\ IF ask.mode \in Hybrid THEN fused' \in Fuse(d, s, limit) ELSE fused' = d.list \o s.list
        /\ \/ at = "model" /\ fused' # <<>> /\ TopK > 0 /\ at' = "rerank" /\ result' = result
           \/ at' = "answered" /\ result' = fused'
    BY <1>4, <1>7 DEF FinishCli
  <2>2. /\ fused' \in Seq(Range(fused'))
        /\ limit > 0 /\ (d.list # <<>> \/ s.list # <<>>) => fused' # <<>>
        /\ ask.mode \in Hybrid /\ d.state = "ok" /\ s.state = "ok" =>
             fused' \in RrfFuse(<<d.list, s.list>>, limit)
    <3>1. CASE ask.mode \in Hybrid /\ d.state = "failed"
      <4>1. fused' = Take(s.list, limit) /\ d.list = <<>>
        BY <1>2, <2>1, <3>1 DEF Fuse
      <4> QED
        BY <1>2, <3>1, <4>1, CutIs
    <3>2. CASE ask.mode \in Hybrid /\ d.state # "failed" /\ s.state = "failed"
      <4>1. fused' = Take(d.list, limit) /\ s.list = <<>>
        BY <1>2, <2>1, <3>2 DEF Fuse
      <4> QED
        BY <1>2, <3>2, <4>1, CutIs
    <3>3. CASE ask.mode \in Hybrid /\ d.state # "failed" /\ s.state # "failed"
      <4>1. fused' \in RrfFuse(<<d.list, s.list>>, limit)
        BY <2>1, <3>3 DEF Fuse
      <4>2. PICK f \in RrfFuse(<<d.list, s.list>>, limit) : fused' = f
        BY <4>1
      <4>3. f \in Seq(Range(f)) /\ (limit > 0 /\ (d.list # <<>> \/ s.list # <<>>) => f # <<>>)
        BY <1>2, FusedIs
      <4> QED
        BY <4>1, <4>2, <4>3
    <3>4. CASE ask.mode \notin Hybrid
      <4> DEFINE both == d.list \o s.list
                 n == Len(both)
                 R == Range(both)
      <4>1. both \in Seq(Items) /\ n = Len(d.list) + Len(s.list)
        BY <1>2, DueConcat
      <4> HIDE DEF both
      <4>2. n \in Nat /\ both = [i \in 1 .. n |-> both[i]] /\ DOMAIN both = 1 .. n
        BY <4>1, LenProperties
      <4>3. both \in Seq(R)
        <5>1. both \in [1 .. n -> R]
          BY <4>2 DEF Range
        <5> HIDE DEF R, n
        <5> QED
          BY <4>2, <5>1
      <4>4. d.list # <<>> \/ s.list # <<>> => both # <<>>
        <5>1. Len(d.list) \in Nat /\ Len(s.list) \in Nat
              /\ (d.list # <<>> => Len(d.list) > 0) /\ (s.list # <<>> => Len(s.list) > 0)
          BY <1>2, EmptySeq, LenProperties
        <5>2. d.list # <<>> \/ s.list # <<>> => n > 0
          BY <4>1, <5>1, OneIsEnough
        <5> QED
          BY <5>2
      <4>5. fused' = both
        BY <2>1, <3>4 DEF both
      <4> QED
        BY <3>4, <4>3, <4>4, <4>5
    <3> QED
      BY <3>1, <3>2, <3>3, <3>4
  <2>3. at' \in {"rerank", "answered"} /\ (at' = "rerank" => fused' # <<>>)
        /\ (at' = "answered" => result' = fused')
    BY <2>1
  <2>4. Progress'
    BY <1>1, <1>3, <2>3 DEF Progress
  <2>5. Fused'
    <3>1. ask'.client # "mcp" /\ ask' = ask /\ got' = got
      BY <1>1, <1>3
    <3> QED
      BY <1>1, <2>2, <2>3, <3>1 DEF Fused
  <2>6. Answered'
    BY <1>1, <2>3 DEF IInv, Answered, Asking
  <2>7. FailureKeepsOthers' /\ RerankKeepsCandidates' /\ StaleIsFlagged'
    BY <1>1, <1>3, <2>2, <2>3 DEF FailureKeepsOthers, RerankKeepsCandidates, StaleIsFlagged
  <2> QED
    BY <1>5, <2>4, <2>5, <2>6, <2>7 DEF IInv
<1> QED
  BY <1>6, <1>7

LEMMA MinOfTwo ==
  ASSUME NEW a \in Nat, NEW b \in Nat
  PROVE  Min({a, b}) \in Nat /\ Min({a, b}) <= a /\ Min({a, b}) <= b /\ Min({a, b}) \in {a, b}
<1>1. \E x \in {a, b} : \A y \in {a, b} : x <= y
  BY DEF Nat
<1>2. Min({a, b}) \in {a, b} /\ \A y \in {a, b} : Min({a, b}) <= y
  BY <1>1 DEF Min
<1> QED
  BY <1>2

\* The head of a list in another order, and the rest behind it as it was.
LEMMA ReorderedIs ==
  ASSUME NEW S, NEW list \in Seq(S), NEW m \in 0 .. Len(list), NEW p \in SetToSeqs(1 .. m)
  PROVE  /\ Len(Reordered(list, p)) = Len(list) /\ Range(Reordered(list, p)) = Range(list)
         /\ \A i \in DOMAIN list : i > m => Reordered(list, p)[i] = list[i]
<1> DEFINE n == Len(list)
           head == [i \in DOMAIN p |-> list[p[i]]]
           tail == SubSeq(list, m + 1, n)
           r == Reordered(list, p)
<1>1. n \in Nat /\ DOMAIN list = 1 .. n /\ m \in Nat /\ m <= n /\ \A i \in 1 .. n : list[i] \in S
  BY LenProperties, ElementOfSeq
<1>2. p \in [1 .. m -> 1 .. m] /\ \A i, j \in 1 .. m : i # j => p[i] # p[j]
  <2>1. Cardinality(1 .. m) = m
    BY <1>1, FS_Interval
  <2> QED
    BY <2>1 DEF SetToSeqs
<1>3. \A j \in 1 .. m : \E i \in 1 .. m : p[i] = j
  <2> DEFINE D == 1 .. m
  <2>1. IsFiniteSet(D)
    BY <1>1, FS_Interval
  <2>2. p \in Injection(D, D)
    BY <1>2 DEF Injection, IsInjective
  <2> HIDE DEF D
  <2>3. p \in Surjection(D, D)
    BY <2>1, <2>2, FS_Injection
  <2>4. \A j \in D : \E i \in D : p[i] = j
    BY <2>3 DEF Surjection
  <2> QED
    BY <2>4 DEF D
<1>4. head \in Seq(S) /\ Len(head) = m /\ \A i \in 1 .. m : head[i] = list[p[i]]
  <2>1. head \in [1 .. m -> S]
    BY <1>1, <1>2
  <2>2. DOMAIN head = 1 .. m /\ \A i \in 1 .. m : head[i] = list[p[i]]
    BY <1>2
  <2> HIDE DEF head
  <2>3. head \in Seq(S)
    BY <1>1, <2>1
  <2> QED
    BY <1>1, <2>2, <2>3, LenProperties
<1> HIDE DEF n
<1>5. tail \in Seq(S) /\ Len(tail) = n - m /\ \A i \in 1 .. n - m : tail[i] = list[m + i]
  <2>1. n = m \/ n > m
    BY <1>1
  <2>2. \A i \in m + 1 .. n : list[i] \in S
    BY <1>1
  <2>3. /\ tail \in Seq(S)
        /\ Len(tail) = IF m + 1 <= n THEN n - (m + 1) + 1 ELSE 0
        /\ \A i \in 1 .. n - (m + 1) + 1 : tail[i] = list[(m + 1) + i - 1]
    BY <1>1, <2>2, SubSeqProperties
  <2> HIDE DEF tail
  <2>4. \A i \in 1 .. n - m : tail[i] = list[m + i]
    <3> TAKE i \in 1 .. n - m
    <3>1. i \in 1 .. n - (m + 1) + 1 /\ (m + 1) + i - 1 = m + i
      BY <1>1
    <3> QED
      BY <2>3, <3>1
  <2> QED
    BY <1>1, <2>1, <2>3, <2>4
<1>6. r = head \o tail
  <2>1. Len(p) = m
    BY <1>1, <1>2, LenProperties
  <2> QED
    BY <2>1 DEF Reordered, n
<1> HIDE DEF head, tail, r
<1>7. /\ r \in Seq(S) /\ Len(r) = m + (n - m)
      /\ \A i \in 1 .. m + (n - m) : r[i] = IF i <= m THEN head[i] ELSE tail[i - m]
  BY <1>4, <1>5, <1>6, ConcatProperties
<1>8. Len(r) = n /\ DOMAIN r = 1 .. n
  <2>1. m + (n - m) = n
    BY <1>1
  <2> QED
    BY <1>7, <2>1, LenProperties
<1>9. \A i \in 1 .. n : (i <= m => r[i] = list[p[i]]) /\ (i > m => r[i] = list[i])
  <2> TAKE i \in 1 .. n
  <2>1. i \in 1 .. m + (n - m)
    BY <1>1
  <2>2. CASE i <= m
    <3>1. i \in 1 .. m /\ ~(i > m)
      BY <1>1, <2>2
    <3> QED
      BY <1>4, <1>7, <2>1, <2>2, <3>1
  <2>3. CASE ~(i <= m)
    <3>1. i - m \in 1 .. n - m /\ m + (i - m) = i
      BY <1>1, <2>3
    <3> QED
      BY <1>5, <1>7, <2>1, <2>3, <3>1
  <2> QED
    BY <2>2, <2>3
<1>10. \A j \in 1 .. n : \E i \in 1 .. n : r[i] = list[j]
  <2> TAKE j \in 1 .. n
  <2>1. CASE j <= m
    <3>1. j \in 1 .. m
      BY <1>1, <2>1
    <3>2. PICK i \in 1 .. m : p[i] = j
      BY <1>3, <3>1
    <3>3. i \in 1 .. n /\ i <= m
      BY <1>1
    <3> QED
      BY <1>9, <3>2, <3>3
  <2>2. CASE j > m
    BY <1>9, <2>2
  <2> QED
    BY <1>1, <2>1, <2>2
<1>11. \A i \in 1 .. n : \E j \in 1 .. n : r[i] = list[j]
  <2> TAKE i \in 1 .. n
  <2>1. CASE i <= m
    <3>1. i \in 1 .. m /\ p[i] \in 1 .. n
      BY <1>1, <1>2, <2>1
    <3> QED
      BY <1>9, <2>1, <3>1
  <2>2. CASE i > m
    BY <1>9, <2>2
  <2> QED
    BY <1>1, <2>1, <2>2
<1>12. Range(r) = Range(list)
  <2>1. Range(r) = {r[i] : i \in 1 .. n} /\ Range(list) = {list[i] : i \in 1 .. n}
    BY <1>1, <1>8 DEF Range
  <2> QED
    BY <1>10, <1>11, <2>1
<1> QED
  BY <1>1, <1>8, <1>9, <1>12 DEF r, n

LEMMA AskModelOK == IInv /\ AskModel => IInv'
<1> SUFFICES ASSUME IInv, AskModel PROVE IInv'
  OBVIOUS
<1>1. /\ at = "rerank" /\ at' = "inference"
      /\ UNCHANGED <<rows, edit, ask, turn, got, began, all, pending, fused, result>>
  BY DEF AskModel
<1>2. ask.client = "cli"
  BY <1>1 DEF IInv, Progress
<1>3. SearchTypeOK' /\ Progress' /\ Noted' /\ Fused'
  BY <1>1, <1>2 DEF IInv, SearchTypeOK, Progress, Noted, Fused
<1>4. Answered'
  BY <1>1 DEF IInv, Answered, Asking
<1>5. FailureKeepsOthers' /\ RerankKeepsCandidates' /\ StaleIsFlagged'
  BY <1>1 DEF FailureKeepsOthers, RerankKeepsCandidates, StaleIsFlagged
<1> QED
  BY <1>3, <1>4, <1>5 DEF IInv

(* Whatever the model says or does not say, the answer is the fused list,  *)
(* with none but its head in another order.                                *)
LEMMA AnsweredOK ==
  ASSUME IInv, at = "inference", at' = "answered",
         UNCHANGED <<rows, edit, ask, turn, got, began, all, pending, fused>>,
         Len(result') = Len(fused), Range(result') = Range(fused),
         \A i \in DOMAIN fused : i > TopK => result'[i] = fused[i],
         result' # <<>>
  PROVE  IInv'
<1>1. ask.client = "cli"
  BY DEF IInv, Progress
<1>2. SearchTypeOK' /\ Progress' /\ Noted' /\ Fused'
  BY <1>1 DEF IInv, SearchTypeOK, Progress, Noted, Fused
<1>3. Answered'
  BY DEF IInv, Answered, Asking
<1>4. FailureKeepsOthers' /\ RerankKeepsCandidates' /\ StaleIsFlagged'
  BY <1>1 DEF FailureKeepsOthers, RerankKeepsCandidates, StaleIsFlagged
<1> QED
  BY <1>2, <1>3, <1>4 DEF IInv

LEMMA RerankOK == IInv /\ Rerank => IInv'
<1> SUFFICES ASSUME IInv, Rerank PROVE IInv'
  OBVIOUS
<1> DEFINE n == Len(fused)
           m == Min({TopK, n})
<1>1. /\ at = "inference" /\ at' = "answered"
      /\ UNCHANGED <<rows, edit, ask, turn, got, began, all, pending, fused>>
  BY DEF Rerank
<1>2. PICK p \in SetToSeqs(1 .. m) : result' = Reordered(fused, p)
  BY DEF Rerank
<1>3. fused \in Seq(Range(fused)) /\ fused # <<>>
  BY <1>1 DEF IInv, Fused
<1>4. n \in Nat /\ n > 0 /\ DOMAIN fused = 1 .. n
  BY <1>3, EmptySeq, LenProperties
<1>5. m \in 0 .. n /\ m <= TopK /\ TopK \in Nat
  BY <1>4, SearchAssumption, MinOfTwo
<1> HIDE DEF m
<1>6. /\ Len(result') = n /\ Range(result') = Range(fused)
      /\ \A i \in DOMAIN fused : i > m => result'[i] = fused[i]
  BY <1>2, <1>3, <1>5, ReorderedIs
<1> HIDE DEF n
<1>7. \A i \in DOMAIN fused : i > TopK => result'[i] = fused[i]
  BY <1>4, <1>5, <1>6
<1>8. result' # <<>>
  BY <1>4, <1>6
<1> QED
  BY <1>1, <1>6, <1>7, <1>8, AnsweredOK DEF n

LEMMA KeepOrderOK == IInv /\ KeepOrder => IInv'
<1> SUFFICES ASSUME IInv, KeepOrder PROVE IInv'
  OBVIOUS
<1>1. /\ at = "inference" /\ at' = "answered" /\ result' = fused
      /\ UNCHANGED <<rows, edit, ask, turn, got, began, all, pending, fused>>
  BY DEF KeepOrder
<1>2. fused # <<>>
  BY <1>1 DEF IInv, Fused
<1> QED
  BY <1>1, <1>2, AnsweredOK

LEMMA EditStepOK == IInv /\ EditStep => IInv'
<1> SUFFICES ASSUME IInv, EditStep PROVE IInv'
  OBVIOUS
<1>1. UNCHANGED <<rows, ask, at, turn, got, began, all, pending, fused, result>>
  BY DEF EditStep
<1>2. SearchTypeOK' /\ Progress' /\ Noted' /\ Fused'
  BY <1>1 DEF IInv, SearchTypeOK, Progress, Noted, Due, Fused
<1>3. Answered'
  BY <1>1 DEF IInv, Answered, Asking, DenseKeys, SearchSimilar, Vectors, FetchLimit, Passing, Passes
<1>4. FailureKeepsOthers' /\ RerankKeepsCandidates' /\ StaleIsFlagged'
  BY <1>1 DEF IInv, FailureKeepsOthers, RerankKeepsCandidates, StaleIsFlagged
<1> QED
  BY <1>2, <1>3, <1>4 DEF IInv

THEOREM SearchInvariant == Spec => []IInv
<1>1. ASSUME IInv, Next
      PROVE  IInv'
  <2>1. CASE AskMcp
    BY <1>1, <2>1, AskMcpOK
  <2>2. CASE AskCli
    BY <1>1, <2>2, AskCliOK
  <2>3. CASE ServeStep
    BY <1>1, <2>3, LoadRerankerOK, BeginTurnOK, RetrieveDenseOK, RetrieveSparseOK, EndTurnOK,
       FinishMcpOK, FinishCliOK, AskModelOK DEF ServeStep
  <2>4. CASE Rerank
    BY <1>1, <2>4, RerankOK
  <2>5. CASE KeepOrder
    BY <1>1, <2>5, KeepOrderOK
  <2>6. CASE EditStep
    BY <1>1, <2>6, EditStepOK
  <2> QED
    BY <1>1, <2>1, <2>2, <2>3, <2>4, <2>5, <2>6 DEF Next
<1>2. ASSUME IInv, UNCHANGED vars
      PROVE  IInv'
  <2>1. UNCHANGED <<rows, edit, ask, at, turn, got, began, all, pending, fused, result>>
    BY <1>2 DEF vars
  <2>2. SearchTypeOK' /\ Progress' /\ Noted' /\ Fused'
    BY <1>2, <2>1 DEF IInv, SearchTypeOK, Progress, Noted, Due, Fused
  <2>3. Answered'
    BY <1>2, <2>1 DEF IInv, Answered, Asking, DenseKeys, SearchSimilar, Vectors, FetchLimit,
                      Passing, Passes
  <2>4. FailureKeepsOthers' /\ RerankKeepsCandidates' /\ StaleIsFlagged'
    BY <1>2, <2>1 DEF IInv, FailureKeepsOthers, RerankKeepsCandidates, StaleIsFlagged
  <2> QED
    BY <2>2, <2>3, <2>4 DEF IInv
<1> QED
  BY <1>1, <1>2, InitOK, PTL DEF Spec

-----------------------------------------------------------------------------
(* What a search promises. *)

(* A retriever or a workspace that fails takes nothing away from what the  *)
(* others have found: vec_search and HybridSearcher go on with the rest,   *)
(* and a search fails only when it found out nothing.                      *)
THEOREM FailureCostsNothingElse == Spec => []FailureKeepsOthers
<1>1. IInv => FailureKeepsOthers
  BY DEF IInv
<1> QED
  BY <1>1, SearchInvariant, PTL

(* apply_reranking gives back every candidate once, and those behind top_k *)
(* where they were, whatever the model says.                               *)
THEOREM RerankingOnlyReorders == Spec => []RerankKeepsCandidates
<1>1. IInv => RerankKeepsCandidates
  BY DEF IInv
<1> QED
  BY <1>1, SearchInvariant, PTL

(* The staleness banner of vec_search, put together before a workspace is  *)
(* searched, names every result that was read while its file was pending.  *)
THEOREM BannerNamesTheStale == Spec => []StaleIsFlagged
<1>1. IInv => StaleIsFlagged
  BY DEF IInv
<1> QED
  BY <1>1, SearchInvariant, PTL

\* A list that has no key twice has as many keys as elements.
LEMMA KeysCounted ==
  ASSUME NEW l \in Seq(Items), KeysOnce(l)
  PROVE  Cardinality(Keys(<<l>>)) = Len(l)
<1> DEFINE n == Len(l)
           found == Keys(<<l>>)
           f == [i \in 1 .. n |-> l[i].key]
<1>1. n \in Nat /\ DOMAIN l = 1 .. n
  BY LenProperties
<1>2. f \in Bijection(1 .. n, found)
  <2>1. \A i \in 1 .. n : l[i].key \in found
    BY <1>1, KeysOfOne
  <2>2. \A k \in found : \E i \in 1 .. n : l[i].key = k
    BY <1>1, KeysOfOne
  <2>3. \A i, j \in 1 .. n : l[i].key = l[j].key => i = j
    BY <1>1 DEF KeysOnce
  <2> HIDE DEF found, n
  <2> QED
    BY <2>1, <2>2, <2>3 DEF Bijection, Injection, Surjection, IsInjective
<1> HIDE DEF f, found, n
<1>3. IsFiniteSet(1 .. n) /\ Cardinality(1 .. n) = n
  BY <1>1, FS_Interval
<1> QED
  BY <1>2, <1>3, FS_Bijection DEF ExistsBijection, found, n

(* The search for the nearest vectors, with its fetch limit, its join and  *)
(* its filters, leaves out no chunk that is nearer than one it returns.    *)
THEOREM NearestAreFound == Spec => []DenseMissesNothing
<1>1. IInv => DenseMissesNothing
  <2> SUFFICES ASSUME IInv, Asking, got.dense.state = "ok"
               PROVE  LET w == Workspace[turn]
                          found == Keys(<<got.dense.list>>)
                      IN \A k \in Key \ found :
                           rows[w][k].live /\ rows[w][k].vec >= Max({1, ask.opt.threshold})
                               /\ Passes(ask.opt, k) =>
                             /\ \A f \in found : rows[w][f].vec >= rows[w][k].vec
                             /\ Len(Vectors(w)) <= FetchLimit(ask.opt) =>
                                  Cardinality(found) = ask.opt.limit
    BY DEF DenseMissesNothing
  <2> DEFINE w == Workspace[turn]
             opt == ask.opt
             l == got.dense.list
             found == Keys(<<l>>)
             keys == DenseKeys(w, opt)
  <2>1. w \in Range(Workspace)
    <3>1. turn \in 1 .. Len(Workspace)
      BY SearchAssumption, EmptySeq, LenProperties DEF IInv, SearchTypeOK, Progress, Asking
    <3> QED
      BY <3>1, SearchAssumption, ElementOfSeq
  <2>2. opt \in Options /\ opt.threshold \in Nat /\ opt.limit \in Nat /\ l \in Seq(Items)
    BY SearchAssumption DEF IInv, SearchTypeOK, Answers
  <2>3. /\ rows \in [Range(Workspace) -> [Key -> Row]]
        /\ DOMAIN l = DOMAIN keys /\ KeysOnce(l)
        /\ \A i \in DOMAIN l : l[i].key = keys[i]
    BY DEF IInv, SearchTypeOK, Answered
  <2> HIDE DEF w, opt, l, keys
  <2>4. /\ keys \in Seq(Key)
        /\ \A k \in Key :
             /\ rows[w][k].live /\ Passes(opt, k)
             /\ rows[w][k].vec > 0 /\ rows[w][k].vec >= opt.threshold
             /\ \A n \in DOMAIN keys : keys[n] # k
             => /\ \A n \in DOMAIN keys : rows[w][keys[n]].vec >= rows[w][k].vec
                /\ Len(Vectors(w)) <= FetchLimit(opt) => Len(keys) = opt.limit
    BY <2>1, <2>2, <2>3, DenseFinds DEF keys
  <2>5. \A k : k \in found <=> \E i \in DOMAIN keys : keys[i] = k
    BY <2>3, KeysOfOne
  <2>6. Cardinality(found) = Len(keys)
    <3>1. Len(l) = Len(keys) /\ DOMAIN l = 1 .. Len(l) /\ Len(l) \in Nat
      BY <2>2, <2>3, <2>4, LenProperties
    <3> QED
      BY <2>2, <2>3, <3>1, KeysCounted
  <2>7. ASSUME NEW k \in Key \ found, rows[w][k].live, Passes(opt, k),
               rows[w][k].vec >= Max({1, opt.threshold})
        PROVE  /\ \A f \in found : rows[w][f].vec >= rows[w][k].vec
               /\ Len(Vectors(w)) <= FetchLimit(opt) => Cardinality(found) = opt.limit
    <3>1. rows[w][k].vec > 0 /\ rows[w][k].vec >= opt.threshold
      <4>1. rows[w][k].vec \in Nat
        BY <2>1, <2>3, SearchAssumption
      <4>2. /\ Max({1, opt.threshold}) \in Nat /\ Max({1, opt.threshold}) >= 1
            /\ Max({1, opt.threshold}) >= opt.threshold
        BY <2>2, MaxOfTwo
      <4> QED
        BY <2>2, <2>7, <4>1, <4>2
    <3>2. \A n \in DOMAIN keys : keys[n] # k
      BY <2>5, <2>7
    <3> QED
      BY <2>4, <2>5, <2>6, <2>7, <3>1, <3>2
  <2> QED
    BY <2>7 DEF w, opt, l
<1> QED
  BY <1>1, SearchInvariant, PTL

\* Every workspace that was asked has added at most every key.
Short ==
  ask.client = "mcp" =>
    \A l \in {all.dense, all.sparse} : Len(l) <= (turn - 1) * Len(KeyOrder)

\* A product of numbers grows with its first factor.
LEMMA MoreOfThem ==
  ASSUME NEW a \in Nat, NEW b \in Nat, NEW n \in Nat, a <= b
  PROVE  a * n \in Nat /\ b * n \in Nat /\ a * n <= b * n /\ (a + 1) * n = a * n + n
<1>1. PICK c \in Nat : b = a + c
  <2>1. b - a \in Nat /\ b = a + (b - a)
    OBVIOUS
  <2> QED
    BY <2>1
<1>2. b * n = a * n + c * n /\ a * n \in Nat /\ c * n \in Nat
  BY <1>1
<1>3. (a + 1) * n = a * n + n
  OBVIOUS
<1> QED
  BY <1>2, <1>3

LEMMA ShortKeeps == IInv /\ Short /\ [Next]_vars => Short'
<1> SUFFICES ASSUME IInv, Short, [Next]_vars PROVE Short'
  OBVIOUS
<1>1. Len(KeyOrder) \in Nat
  BY SearchAssumption, LenProperties
<1>2. CASE UNCHANGED <<all, turn>> /\ (ask'.client = "mcp" => ask.client = "mcp")
  BY <1>2 DEF Short
<1>3. CASE AskMcp
  <2>1. turn' = 1 /\ all' = NoLists
    BY <1>3 DEF IInv, Progress, AskMcp
  <2>2. \A l \in {all'.dense, all'.sparse} : l = <<>>
    BY <2>1 DEF NoLists
  <2>3. Len(<<>>) = 0 /\ (1 - 1) * Len(KeyOrder) = 0
    BY <1>1
  <2> QED
    BY <2>1, <2>2, <2>3 DEF Short
<1>4. CASE FinishCli
  <2>1. ask'.client = "cli"
    BY <1>4 DEF IInv, Progress, FinishCli
  <2> QED
    BY <2>1 DEF Short
<1>5. CASE EndTurn
  <2>1. /\ all' = [dense |-> all.dense \o got.dense.list, sparse |-> all.sparse \o got.sparse.list]
        /\ turn' = turn + 1 /\ ask' = ask
    BY <1>5 DEF EndTurn
  <2>2. /\ got.dense.list \in Seq(Items) /\ got.sparse.list \in Seq(Items)
        /\ all.dense \in Seq(Items) /\ all.sparse \in Seq(Items)
        /\ Len(got.dense.list) <= Len(KeyOrder) /\ Len(got.sparse.list) <= Len(KeyOrder)
    BY DEF IInv, SearchTypeOK, Answers, Answered
  <2>3. turn \in Nat /\ turn >= 1
    BY SearchAssumption, LenProperties DEF IInv, SearchTypeOK
  <2>4. PICK t \in Nat : t = turn - 1 /\ turn' - 1 = t + 1
    <3>1. turn - 1 \in Nat /\ turn' - 1 = (turn - 1) + 1
      BY <2>1, <2>3
    <3> QED
      BY <3>1
  <2>5. t * Len(KeyOrder) \in Nat /\ (t + 1) * Len(KeyOrder) = t * Len(KeyOrder) + Len(KeyOrder)
    BY <1>1, MoreOfThem
  <2>6. ASSUME ask.client = "mcp",
               NEW before \in Seq(Items), NEW new \in Seq(Items),
               Len(before) <= t * Len(KeyOrder), Len(new) <= Len(KeyOrder)
        PROVE  Len(before \o new) <= (t + 1) * Len(KeyOrder)
    <3>1. Len(before \o new) = Len(before) + Len(new) /\ Len(before) \in Nat /\ Len(new) \in Nat
      BY DueConcat, LenProperties
    <3> QED
      BY <1>1, <2>5, <2>6, <3>1
  <2>7. ask.client = "mcp" =>
          Len(all.dense) <= t * Len(KeyOrder) /\ Len(all.sparse) <= t * Len(KeyOrder)
    BY <2>4 DEF Short
  <2> QED
    BY <2>1, <2>2, <2>4, <2>6, <2>7 DEF Short
<1> QED
  BY <1>2, <1>3, <1>4, <1>5
     DEF Next, ServeStep, vars, AskCli, LoadReranker, BeginTurn, RetrieveDense, RetrieveSparse,
         FinishMcp, AskModel, Rerank, KeepOrder, EditStep

\* The lists that are fused are no longer than the ranks there are.
LEMMA FusedLists ==
  ASSUME IInv, Short, ask.client = "mcp"
  PROVE  Len(all.dense) <= MaxRank /\ Len(all.sparse) <= MaxRank
<1>1. Len(KeyOrder) \in Nat /\ Len(Workspace) \in Nat
  BY SearchAssumption, LenProperties
<1>2. turn - 1 \in Nat /\ turn - 1 <= Len(Workspace)
  BY <1>1 DEF IInv, SearchTypeOK
<1>3. PICK t \in Nat : t = turn - 1
  BY <1>2
<1>4. t * Len(KeyOrder) <= MaxRank /\ t * Len(KeyOrder) \in Nat /\ MaxRank \in Nat
  BY <1>1, <1>2, <1>3, MoreOfThem DEF MaxRank
<1>5. Len(all.dense) <= t * Len(KeyOrder) /\ Len(all.sparse) <= t * Len(KeyOrder)
  BY <1>3 DEF Short
<1>6. Len(all.dense) \in Nat /\ Len(all.sparse) \in Nat
  BY LenProperties DEF IInv, SearchTypeOK
<1> QED
  BY <1>4, <1>5, <1>6

(* rrf_fuse gives what both of its lists have ahead the higher score, and  *)
(* keeps it ahead, at its limit too, for one workspace or several, any     *)
(* rrf_k, and however the map it sorts leaves entries f32 does not tell    *)
(* apart.                                                                  *)
THEOREM AgreedOrderIsKept == Spec => []FusionKeepsOrder
<1>1. ASSUME IInv, Short PROVE FusionKeepsOrder
  <2> DEFINE d == Lists[1]
             s == Lists[2]
             limit == ask.opt.limit
  <2> SUFFICES ASSUME at \in {"rerank", "inference", "answered"}, ask.mode \in Hybrid,
                      ask.client = "cli" => got.dense.state = "ok" /\ got.sparse.state = "ok",
                      NEW a \in Key, NEW b \in Key, a # b,
                      \A i \in 1 .. 2 : Precedes(Lists[i], a, b) /\ AtMostOnce(Lists[i], b)
               PROVE  /\ RrfScore(Lists, a) > RrfScore(Lists, b)
                      /\ \/ b \in Keys(<<fused>>) =>
                              a \in Keys(<<fused>>) /\ Position(fused, a) < Position(fused, b)
                         \/ RrfScore(Lists, a) <= RrfScore(Lists, b) + Blur
    BY DEF FusionKeepsOrder
  <2>1. limit \in Nat /\ ask.client \in {"mcp", "cli"}
    BY <1>1, SearchAssumption DEF IInv, SearchTypeOK, Progress
  <2>2. /\ d \in Seq(Items) /\ s \in Seq(Items) /\ Lists = <<d, s>>
        /\ Len(d) <= MaxRank /\ Len(s) <= MaxRank /\ fused \in RrfFuse(<<d, s>>, limit)
    <3>1. CASE ask.client = "cli"
      <4>1. /\ all = [dense |-> got.dense.list, sparse |-> got.sparse.list]
            /\ fused \in RrfFuse(<<got.dense.list, got.sparse.list>>, limit)
        BY <1>1, <3>1 DEF IInv, Fused
      <4>2. Lists = <<got.dense.list, got.sparse.list>>
        BY <3>1, <4>1 DEF Lists
      <4>3. d = got.dense.list /\ s = got.sparse.list
        BY <4>2
      <4> QED
        BY <1>1, <4>1, <4>2, <4>3 DEF IInv, SearchTypeOK, Answers, Answered
    <3>2. CASE ask.client = "mcp"
      <4>1. Lists = <<Sorted(all.dense), Sorted(all.sparse)>>
        BY <3>2 DEF Lists
      <4>2. d = Sorted(all.dense) /\ s = Sorted(all.sparse)
        BY <4>1
      <4>3. all.dense \in Seq(Items) /\ all.sparse \in Seq(Items)
        BY <1>1 DEF IInv, SearchTypeOK
      <4>4. at = "answered"
        BY <1>1, <3>2 DEF IInv, Progress
      <4>5. fused \in RrfFuse(<<Sorted(all.dense), Sorted(all.sparse)>>, limit)
        BY <1>1, <3>2, <4>4 DEF IInv, Fused
      <4>6. /\ Sorted(all.dense) \in Seq(Items) /\ Len(Sorted(all.dense)) = Len(all.dense)
            /\ Sorted(all.sparse) \in Seq(Items) /\ Len(Sorted(all.sparse)) = Len(all.sparse)
        BY <4>3, SortedIs
      <4>7. Len(all.dense) <= MaxRank /\ Len(all.sparse) <= MaxRank
        BY <1>1, <3>2, FusedLists
      <4> HIDE DEF d, s
      <4> QED
        BY <4>1, <4>2, <4>5, <4>6, <4>7
    <3> QED
      BY <2>1, <3>1, <3>2
  <2>3. Precedes(d, a, b) /\ Precedes(s, a, b) /\ AtMostOnce(d, b) /\ AtMostOnce(s, b)
    OBVIOUS
  <2> HIDE DEF d, s, limit
  <2> QED
    BY <2>1, <2>2, <2>3, FusingKeepsOrder
<1>2. Init => Short
  BY DEF Init, Short
<1> QED
  BY <1>1, <1>2, ShortKeeps, SearchInvariant, PTL DEF Spec
=============================================================================
