----------------------- MODULE HistorianQueriesProofs -----------------------
(***************************************************************************)
(* What HistorianQueries promises, proved for every set of samples, every  *)
(* width of a minute, every retention, every max_points and any number of  *)
(* failures and restarts.                                                  *)
(*                                                                         *)
(* A rollup is built one sample at a time, is stored and read back, and is *)
(* merged with others when an answer would be too long.  A row or a point  *)
(* is compared throughout with the set S of the numbers of the samples it  *)
(* stands for: Says(log, p, S).  One sample more keeps this (Adds), and so *)
(* does merging points that follow each other (MergedSays), which makes    *)
(* the answer exact however it was put together.                           *)
(*                                                                         *)
(* The inductive invariant is Inv.  Out are the samples that no row has    *)
(* counted: those a failure kept out, and the one at work.  A row says     *)
(* what the others are that it has counted, and none before them is left   *)
(* out (RowOk); the row in memory has all of its minute (MemoryOk).  For   *)
(* the tables of both the writer and the reader, each sample is counted,   *)
(* in memory, out, or old (CountedOk), and has its raw row (RawOk).  While *)
(* a sample is at work the others of its minute are counted in memory or   *)
(* in the committed tables (UnderwayInv), and so it is counted next,       *)
(* wherever its row comes from (CurrentOk).                                *)
(*                                                                         *)
(* Sums and extremes over finite sets are proved by induction on their     *)
(* sizes, stated with a set of numbers in place of a predicate.            *)
(***************************************************************************)
EXTENDS HistorianQueries, FiniteSetTheorems, TLAPS

(* A set of naturals that is not empty has a least element. *)
LEMMA Smallest ==
  ASSUME NEW S \in SUBSET Nat, S # {}
  PROVE  \E n \in S : \A m \in S : n <= m
<1> DEFINE below(n) == 0..(n - 1)
           T == {below(n) : n \in S}
           R == StrictSubsetOrdering(Nat)
<1>1. IsWellFoundedOn(R, FiniteSubsetsOf(Nat))
  BY FS_StrictSubsetOrderingWellFounded
<1>2. T \subseteq FiniteSubsetsOf(Nat) /\ T # {}
  <2>1. \A n \in S : below(n) \in SUBSET Nat /\ IsFiniteSet(below(n))
    BY FS_Interval
  <2>2. QED
    BY <2>1 DEF FiniteSubsetsOf
<1> HIDE DEF R, T
<1>3. PICK x \in T : \A y \in T : ~(<<y, x>> \in R)
  BY <1>1, <1>2, WFMin
<1>4. PICK n \in S : x = below(n)
  BY DEF T
<1>5. SUFFICES ASSUME NEW m \in S, m < n PROVE FALSE
  BY DEF T
<1>6. below(m) \in T /\ below(m) \subseteq below(n) /\ below(m) # below(n)
  <2>1. m \in below(n) /\ m \notin below(m)
    BY <1>5
  <2>2. QED
    BY <1>5, <2>1 DEF T
<1>7. <<below(m), below(n)>> \in R
  BY <1>6, below(m) \in SUBSET Nat, below(n) \in SUBSET Nat DEF R, StrictSubsetOrdering
<1>8. QED
  BY <1>3, <1>4, <1>6, <1>7

(* Induction, of a set in place of a predicate. *)
LEMMA Induction ==
  ASSUME NEW S, 0 \in S, \A n \in Nat : n \in S => n + 1 \in S
  PROVE  \A n \in Nat : n \in S
<1> SUFFICES ASSUME NEW k \in Nat, k \notin S PROVE FALSE
  OBVIOUS
<1>1. PICK n \in Nat \ S : \A m \in Nat \ S : n <= m
  BY Smallest
<1>2. n - 1 \in Nat /\ n - 1 \in S
  BY <1>1
<1>3. QED
  BY <1>1, <1>2

(* A finite set without one of its elements. *)
LEMMA Without ==
  ASSUME NEW S, IsFiniteSet(S), NEW x \in S
  PROVE  /\ IsFiniteSet(S \ {x}) /\ Cardinality(S) \in Nat
         /\ Cardinality(S \ {x}) \in Nat /\ Cardinality(S) = Cardinality(S \ {x}) + 1
<1>1. IsFiniteSet(S \ {x}) /\ Cardinality(S \ {x}) = Cardinality(S) - 1
  BY FS_RemoveElement
<1>2. Cardinality(S) \in Nat /\ Cardinality(S \ {x}) \in Nat
  BY ONLY <1>1, FS_CardinalityType, IsFiniteSet(S)
<1>3. QED
  BY ONLY <1>1, <1>2

(* One step of the fold, and the function of all its steps. *)
Stage(iter, f, s) ==
  IF s = {} THEN 0 ELSE LET x == CHOOSE x \in s : TRUE IN f[x] + iter[s \ {x}]

IsIter(iter, f, S) == iter = [s \in SUBSET S |-> Stage(iter, f, s)]

(* The sum of a function is the value at the whole set of the function that
   the folds choose. *)
LEMMA SumUnfold ==
  ASSUME NEW f, NEW S
  PROVE  SumFunctionOnSet(f, S) = (CHOOSE iter : IsIter(iter, f, S))[S]
BY DEF SumFunctionOnSet, FoldFunctionOnSet, MapThenFoldSet, IsIter, Stage

(* There is such a function on a finite set: one that is right on the sets
   of n elements gives one that is right on those of n + 1. *)
LEMMA IterExists ==
  ASSUME NEW f, NEW S, IsFiniteSet(S)
  PROVE  IsIter(CHOOSE iter : IsIter(iter, f, S), f, S)
<1> DEFINE Upto(n, g) == \A s \in SUBSET S : Cardinality(s) <= n => g[s] = Stage(g, f, s)
           P == {n \in Nat : \E g : g = [s \in SUBSET S |-> g[s]] /\ Upto(n, g)}
<1>1. \A s \in SUBSET S : IsFiniteSet(s) /\ Cardinality(s) \in Nat
  BY FS_Subset, FS_CardinalityType
<1>2. 0 \in P
  <2> DEFINE g == [s \in SUBSET S |-> 0]
  <2>1. Upto(0, g)
    BY <1>1, FS_EmptySet DEF Stage
  <2>2. QED
    BY <2>1
<1>3. ASSUME NEW n \in Nat, n \in P PROVE n + 1 \in P
  <2>1. PICK g : g = [s \in SUBSET S |-> g[s]] /\ Upto(n, g)
    BY <1>3
  <2> DEFINE h == [s \in SUBSET S |-> Stage(g, f, s)]
  <2>2. ASSUME NEW s \in SUBSET S, Cardinality(s) <= n + 1 PROVE h[s] = Stage(h, f, s)
    <3>1. CASE s = {}
      BY <3>1 DEF Stage
    <3>2. CASE s # {}
      <4> DEFINE x == CHOOSE x \in s : TRUE
      <4>1. x \in s
        BY <3>2
      <4>2. Cardinality(s \ {x}) <= n
        <5>1. IsFiniteSet(s) /\ Cardinality(s) \in Nat
          BY <1>1
        <5>2. Cardinality(s) = Cardinality(s \ {x}) + 1 /\ Cardinality(s \ {x}) \in Nat
          BY ONLY <4>1, <5>1, Without
        <5>3. QED
          BY ONLY <2>2, <5>2, n \in Nat
      <4>3. s \ {x} \in SUBSET S
        OBVIOUS
      <4>4. g[s \ {x}] = Stage(g, f, s \ {x})
        BY <2>1, <4>2, <4>3
      <4>5. h[s \ {x}] = g[s \ {x}]
        BY <4>4, <4>3
      <4>6. QED
        BY <4>5, <3>2 DEF Stage
    <3>3. QED
      BY <3>1, <3>2
  <2>3. h = [s \in SUBSET S |-> h[s]] /\ Upto(n + 1, h)
    BY <2>2
  <2>4. n + 1 \in Nat
    OBVIOUS
  <2>5. \E e : e = [s \in SUBSET S |-> e[s]] /\ Upto(n + 1, e)
    <3> HIDE DEF h
    <3>1. QED
      BY <2>3
  <2>6. QED
    BY <2>4, <2>5
<1>4. \A n \in Nat : n \in P
  <2> HIDE DEF P
  <2>1. QED
    BY ONLY <1>2, <1>3, Induction
<1>5. PICK g : g = [s \in SUBSET S |-> g[s]] /\ Upto(Cardinality(S), g)
  BY <1>1, <1>4
<1>6. \A s \in SUBSET S : Cardinality(s) <= Cardinality(S)
  BY FS_Subset
<1>7. IsIter(g, f, S)
  BY <1>5, <1>6 DEF IsIter
<1>8. QED
  BY <1>7

(* Two of them agree where the functions that they sum agree. *)
LEMMA IterAgree ==
  ASSUME NEW f, NEW S, NEW g, IsIter(g, f, S),
         NEW e, NEW T, NEW h, IsIter(h, e, T),
         NEW U, IsFiniteSet(U), U \subseteq S, U \subseteq T, \A x \in U : f[x] = e[x]
  PROVE  g[U] = h[U]
<1> DEFINE P == {n \in Nat : \A s \in SUBSET U : Cardinality(s) = n => g[s] = h[s]}
<1>1. \A s \in SUBSET U : IsFiniteSet(s) /\ Cardinality(s) \in Nat
  BY FS_Subset, FS_CardinalityType
<1>2. \A s \in SUBSET U : g[s] = Stage(g, f, s) /\ h[s] = Stage(h, e, s)
  BY DEF IsIter
<1>3. 0 \in P
  BY <1>1, <1>2, FS_EmptySet DEF Stage
<1>4. ASSUME NEW n \in Nat, n \in P PROVE n + 1 \in P
  <2>1. SUFFICES ASSUME NEW s \in SUBSET U, Cardinality(s) = n + 1 PROVE g[s] = h[s]
    OBVIOUS
  <2> DEFINE x == CHOOSE x \in s : TRUE
  <2>2. s # {} /\ x \in s
    BY <2>1, FS_EmptySet
  <2>3. Cardinality(s \ {x}) = n
    <3>1. IsFiniteSet(s)
      BY <1>1
    <3>2. Cardinality(s) = Cardinality(s \ {x}) + 1 /\ Cardinality(s \ {x}) \in Nat
      BY ONLY <2>2, <3>1, Without
    <3>3. QED
      BY ONLY <2>1, <3>2, n \in Nat
  <2>4. g[s \ {x}] = h[s \ {x}]
    BY <1>4, <2>3
  <2>5. f[x] = e[x]
    BY <2>2
  <2>6. QED
    BY ONLY <1>2, <2>2, <2>4, <2>5, s \in SUBSET U DEF Stage
<1>5. \A n \in Nat : n \in P
  <2> HIDE DEF P
  <2>1. QED
    BY ONLY <1>3, <1>4, Induction
<1>6. QED
  BY <1>1, <1>5

(* The sum of nothing. *)
LEMMA SumEmpty ==
  ASSUME NEW f
  PROVE  SumFunctionOnSet(f, {}) = 0
<1> DEFINE g == CHOOSE iter : IsIter(iter, f, {})
<1>1. IsIter(g, f, {})
  BY ONLY IterExists, FS_EmptySet
<1>2. g[{}] = 0
  BY ONLY <1>1 DEF IsIter, Stage
<1>3. QED
  BY <1>2, SumUnfold

(* Functions that agree on a set have the same sum there. *)
LEMMA SumEqual ==
  ASSUME NEW f, NEW e, NEW S, IsFiniteSet(S), \A x \in S : f[x] = e[x]
  PROVE  SumFunctionOnSet(f, S) = SumFunctionOnSet(e, S)
<1> DEFINE g == CHOOSE iter : IsIter(iter, f, S)
           h == CHOOSE iter : IsIter(iter, e, S)
<1>1. IsIter(g, f, S) /\ IsIter(h, e, S)
  BY ONLY IterExists, IsFiniteSet(S)
<1> HIDE DEF g, h
<1>2. g[S] = h[S]
  BY <1>1, IterAgree
<1>3. QED
  BY <1>2, SumUnfold DEF g, h

(* The element that the fold takes first. *)
LEMMA SumSome ==
  ASSUME NEW f, NEW S, IsFiniteSet(S), S # {}
  PROVE  \E x \in S : SumFunctionOnSet(f, S) = f[x] + SumFunctionOnSet(f, S \ {x})
<1> DEFINE x == CHOOSE x \in S : TRUE
           g == CHOOSE iter : IsIter(iter, f, S)
           h == CHOOSE iter : IsIter(iter, f, S \ {x})
<1>1. x \in S /\ IsFiniteSet(S \ {x})
  BY FS_RemoveElement
<1>2. IsIter(g, f, S) /\ IsIter(h, f, S \ {x})
  BY ONLY IterExists, <1>1, IsFiniteSet(S)
<1>3. g[S] = f[x] + g[S \ {x}]
  BY ONLY <1>2, S # {} DEF IsIter, Stage
<1>4. g[S \ {x}] = h[S \ {x}]
  <2> HIDE DEF g, h, x
  <2>1. QED
    BY ONLY <1>1, <1>2, IterAgree
<1>5. QED
  BY <1>1, <1>3, <1>4, SumUnfold

(* Naturals add up to a natural. *)
LEMMA SumType ==
  ASSUME NEW f, NEW S, IsFiniteSet(S), \A x \in S : f[x] \in Nat
  PROVE  SumFunctionOnSet(f, S) \in Nat
<1> DEFINE P == {n \in Nat : \A s \in SUBSET S : Cardinality(s) = n => SumFunctionOnSet(f, s) \in Nat}
<1>1. \A s \in SUBSET S : IsFiniteSet(s) /\ Cardinality(s) \in Nat
  BY FS_Subset, FS_CardinalityType
<1>2. 0 \in P
  BY <1>1, FS_EmptySet, SumEmpty
<1>3. ASSUME NEW n \in Nat, n \in P PROVE n + 1 \in P
  <2>1. SUFFICES ASSUME NEW s \in SUBSET S, Cardinality(s) = n + 1
                 PROVE SumFunctionOnSet(f, s) \in Nat
    OBVIOUS
  <2>2. s # {}
    BY <2>1, FS_EmptySet
  <2>3. PICK x \in s : SumFunctionOnSet(f, s) = f[x] + SumFunctionOnSet(f, s \ {x})
    BY ONLY <1>1, <2>2, SumSome, s \in SUBSET S
  <2>4. Cardinality(s \ {x}) = n
    BY ONLY <1>1, <2>1, Without, n \in Nat, x \in s
  <2>5. SumFunctionOnSet(f, s \ {x}) \in Nat
    BY <1>3, <2>4
  <2>6. QED
    BY <2>3, <2>5, f[x] \in Nat
<1>4. \A n \in Nat : n \in P
  <2> HIDE DEF P
  <2>1. QED
    BY ONLY <1>2, <1>3, Induction
<1>5. QED
  BY <1>1, <1>4

(* Any element may be taken first. *)
LEMMA SumPick ==
  ASSUME NEW f, NEW S, IsFiniteSet(S), \A x \in S : f[x] \in Nat, NEW c \in S
  PROVE  SumFunctionOnSet(f, S) = f[c] + SumFunctionOnSet(f, S \ {c})
<1> DEFINE P == {n \in Nat : \A s \in SUBSET S : Cardinality(s) = n =>
                    \A d \in s : SumFunctionOnSet(f, s) = f[d] + SumFunctionOnSet(f, s \ {d})}
<1>1. \A s \in SUBSET S : IsFiniteSet(s) /\ Cardinality(s) \in Nat
  BY FS_Subset, FS_CardinalityType
<1>2. 0 \in P
  BY <1>1, FS_EmptySet
<1>3. ASSUME NEW n \in Nat, n \in P PROVE n + 1 \in P
  <2>1. SUFFICES ASSUME NEW s \in SUBSET S, Cardinality(s) = n + 1, NEW d \in s
                 PROVE SumFunctionOnSet(f, s) = f[d] + SumFunctionOnSet(f, s \ {d})
    OBVIOUS
  <2>3. PICK x \in s : SumFunctionOnSet(f, s) = f[x] + SumFunctionOnSet(f, s \ {x})
    <3>1. s # {}
      OBVIOUS
    <3>2. QED
      BY ONLY <1>1, <3>1, SumSome, s \in SUBSET S
  <2>4. CASE x = d
    BY <2>3, <2>4
  <2>5. CASE x # d
    <3>1. Cardinality(s \ {x}) = n /\ Cardinality(s \ {d}) = n
      BY ONLY <1>1, <2>1, Without, n \in Nat, x \in s, d \in s
    <3>2. SumFunctionOnSet(f, s \ {x}) = f[d] + SumFunctionOnSet(f, (s \ {x}) \ {d})
      BY <1>3, <3>1, <2>5
    <3>3. SumFunctionOnSet(f, s \ {d}) = f[x] + SumFunctionOnSet(f, (s \ {d}) \ {x})
      BY <1>3, <3>1, <2>5
    <3>4. (s \ {x}) \ {d} = (s \ {d}) \ {x}
      OBVIOUS
    <3>5. SumFunctionOnSet(f, (s \ {x}) \ {d}) \in Nat
      <4> DEFINE r == (s \ {x}) \ {d}
      <4>1. IsFiniteSet(r) /\ \A y \in r : f[y] \in Nat
        BY <1>1
      <4> HIDE DEF r
      <4>2. SumFunctionOnSet(f, r) \in Nat
        BY ONLY <4>1, SumType
      <4>3. QED
        BY <4>2 DEF r
    <3>6. f[x] \in Nat /\ f[d] \in Nat
      OBVIOUS
    <3>7. SumFunctionOnSet(f, s \ {x}) = f[d] + SumFunctionOnSet(f, (s \ {d}) \ {x})
      BY <3>2, <3>4
    <3>8. SumFunctionOnSet(f, (s \ {d}) \ {x}) \in Nat
      BY <3>4, <3>5
    <3>9. QED
      BY ONLY <2>3, <3>3, <3>6, <3>7, <3>8
  <2>6. QED
    BY <2>4, <2>5
<1>4. \A n \in Nat : n \in P
  <2> HIDE DEF P
  <2>1. QED
    BY ONLY <1>2, <1>3, Induction
<1>5. QED
  BY <1>1, <1>4

(* One element more. *)
LEMMA SumAdd ==
  ASSUME NEW f, NEW S, IsFiniteSet(S), NEW c, c \notin S, \A x \in S \cup {c} : f[x] \in Nat
  PROVE  SumFunctionOnSet(f, S \cup {c}) = SumFunctionOnSet(f, S) + f[c]
<1> DEFINE T == S \cup {c}
<1>1. IsFiniteSet(T) /\ c \in T /\ T \ {c} = S
  BY FS_AddElement
<1> HIDE DEF T
<1>2. \A x \in T : f[x] \in Nat
  BY DEF T
<1>3. SumFunctionOnSet(f, T) = f[c] + SumFunctionOnSet(f, T \ {c})
  BY ONLY <1>1, <1>2, SumPick
<1>4. SumFunctionOnSet(f, S) \in Nat /\ f[c] \in Nat
  <2>1. \A x \in S : f[x] \in Nat
    OBVIOUS
  <2>2. SumFunctionOnSet(f, S) \in Nat
    BY ONLY <2>1, IsFiniteSet(S), SumType
  <2>3. QED
    BY <2>2
<1>5. QED
  <2>1. SumFunctionOnSet(f, T) = f[c] + SumFunctionOnSet(f, S)
    BY <1>1, <1>3
  <2>2. QED
    BY <2>1, <1>4 DEF T

(* The sum of two sets that share nothing. *)
LEMMA SumDisjoint ==
  ASSUME NEW f, NEW S, NEW T, IsFiniteSet(S), IsFiniteSet(T), S \cap T = {},
         \A x \in S \cup T : f[x] \in Nat
  PROVE  SumFunctionOnSet(f, S \cup T) = SumFunctionOnSet(f, S) + SumFunctionOnSet(f, T)
<1> DEFINE Adds(s) == SumFunctionOnSet(f, S \cup s) = SumFunctionOnSet(f, S) + SumFunctionOnSet(f, s)
           P == {n \in Nat : \A s \in SUBSET T : Cardinality(s) = n => Adds(s)}
<1>1. \A s \in SUBSET T : IsFiniteSet(s) /\ Cardinality(s) \in Nat /\ IsFiniteSet(S \cup s)
  BY FS_Subset, FS_CardinalityType, FS_Union
<1>0. SumFunctionOnSet(f, S) \in Nat /\ \A s \in SUBSET T : SumFunctionOnSet(f, s) \in Nat
  <2>1. \A x \in S : f[x] \in Nat
    OBVIOUS
  <2>2. \A s \in SUBSET T : \A x \in s : f[x] \in Nat
    OBVIOUS
  <2>3. QED
    BY ONLY <1>1, <2>1, <2>2, IsFiniteSet(S), SumType
<1>2. 0 \in P
  <2>1. SUFFICES Adds({})
    BY <1>1, FS_EmptySet
  <2>2. S \cup {} = S
    OBVIOUS
  <2>3. QED
    BY <2>2, <1>0, SumEmpty
<1>3. ASSUME NEW n \in Nat, n \in P PROVE n + 1 \in P
  <2>1. SUFFICES ASSUME NEW s \in SUBSET T, Cardinality(s) = n + 1 PROVE Adds(s)
    OBVIOUS
  <2>2. PICK c \in s : TRUE
    <3>1. Cardinality(s) # 0
      BY <2>1
    <3>2. QED
      BY ONLY <3>1, FS_EmptySet
  <2> DEFINE r == s \ {c}
  <2>3. Cardinality(r) = n /\ r \in SUBSET T
    <3>1. IsFiniteSet(s)
      BY <1>1
    <3>2. Cardinality(s) = Cardinality(s \ {c}) + 1 /\ Cardinality(s \ {c}) \in Nat
      BY ONLY <3>1, Without, c \in s
    <3>3. QED
      BY <2>1, <3>2
  <2>4. Adds(r)
    BY <1>3, <2>3
  <2>5. s = r \cup {c} /\ S \cup s = (S \cup r) \cup {c} /\ c \notin r /\ c \notin S \cup r
    OBVIOUS
  <2>6. /\ \A x \in (S \cup r) \cup {c} : f[x] \in Nat
        /\ \A x \in r \cup {c} : f[x] \in Nat
    OBVIOUS
  <2> HIDE DEF r
  <2>7. SumFunctionOnSet(f, (S \cup r) \cup {c}) = SumFunctionOnSet(f, S \cup r) + f[c]
    <3>1. IsFiniteSet(S \cup r)
      BY <1>1, <2>3
    <3>2. QED
      BY ONLY <3>1, <2>5, <2>6, SumAdd
  <2>8. SumFunctionOnSet(f, r \cup {c}) = SumFunctionOnSet(f, r) + f[c]
    <3>1. IsFiniteSet(r)
      BY <1>1, <2>3
    <3>2. QED
      BY ONLY <3>1, <2>5, <2>6, SumAdd
  <2>9. f[c] \in Nat /\ SumFunctionOnSet(f, r) \in Nat
    BY <1>0, <2>3
  <2>10. SumFunctionOnSet(f, S \cup s) = SumFunctionOnSet(f, S \cup r) + f[c]
    BY <2>5, <2>7
  <2>11. SumFunctionOnSet(f, s) = SumFunctionOnSet(f, r) + f[c]
    BY <2>5, <2>8
  <2>12. QED
    BY ONLY <1>0, <2>4, <2>9, <2>10, <2>11
<1>4. \A n \in Nat : n \in P
  <2> HIDE DEF P
  <2>1. QED
    BY ONLY <1>2, <1>3, Induction
<1>5. QED
  BY <1>1, <1>4

(* The sum of the sums of the parts is the sum of the whole. *)
LEMMA SumPartition ==
  ASSUME NEW I, IsFiniteSet(I), NEW Q, \A i \in I : IsFiniteSet(Q[i]),
         \A i, j \in I : i # j => Q[i] \cap Q[j] = {},
         NEW f, \A i \in I : \A x \in Q[i] : f[x] \in Nat,
         NEW g, \A i \in I : g[i] = SumFunctionOnSet(f, Q[i])
  PROVE  SumFunctionOnSet(g, I) = SumFunctionOnSet(f, UNION {Q[i] : i \in I})
<1> DEFINE All(s) == UNION {Q[i] : i \in s}
           Adds(s) == IsFiniteSet(All(s)) /\ SumFunctionOnSet(g, s) = SumFunctionOnSet(f, All(s))
           P == {n \in Nat : \A s \in SUBSET I : Cardinality(s) = n => Adds(s)}
<1>1. \A s \in SUBSET I : IsFiniteSet(s) /\ Cardinality(s) \in Nat
  BY FS_Subset, FS_CardinalityType
<1>0. \A i \in I : g[i] \in Nat
  BY SumType
<1>2. 0 \in P
  <2>1. SUFFICES Adds({})
    BY <1>1, FS_EmptySet
  <2>2. All({}) = {}
    OBVIOUS
  <2>3. QED
    BY <2>2, SumEmpty, FS_EmptySet
<1>3. ASSUME NEW n \in Nat, n \in P PROVE n + 1 \in P
  <2>1. SUFFICES ASSUME NEW s \in SUBSET I, Cardinality(s) = n + 1 PROVE Adds(s)
    OBVIOUS
  <2>2. PICK c \in s : TRUE
    <3>1. Cardinality(s) # 0
      BY <2>1
    <3>2. QED
      BY ONLY <3>1, FS_EmptySet
  <2> DEFINE r == s \ {c}
  <2>3. Cardinality(r) = n /\ r \in SUBSET I
    <3>1. IsFiniteSet(s)
      BY <1>1
    <3>2. Cardinality(s) = Cardinality(s \ {c}) + 1 /\ Cardinality(s \ {c}) \in Nat
      BY ONLY <3>1, Without, c \in s
    <3>3. QED
      BY <2>1, <3>2
  <2>4. Adds(r)
    BY <1>3, <2>3
  <2>5. s = r \cup {c} /\ All(s) = All(r) \cup Q[c] /\ c \notin r
    OBVIOUS
  <2>6. All(r) \cap Q[c] = {}
    BY <2>3
  <2>7. \A x \in All(r) \cup Q[c] : f[x] \in Nat
    BY <2>3
  <2>8. IsFiniteSet(Q[c]) /\ c \in I /\ g[c] = SumFunctionOnSet(f, Q[c])
    OBVIOUS
  <2> HIDE DEF r, All
  <2>9. SumFunctionOnSet(f, All(r) \cup Q[c]) = SumFunctionOnSet(f, All(r)) + SumFunctionOnSet(f, Q[c])
    BY ONLY <2>4, <2>6, <2>7, <2>8, SumDisjoint
  <2>10. SumFunctionOnSet(g, r \cup {c}) = SumFunctionOnSet(g, r) + g[c]
    <3>1. \A x \in r \cup {c} : g[x] \in Nat
      BY <1>0, <2>3
    <3>2. IsFiniteSet(r)
      BY <1>1, <2>3
    <3>3. QED
      BY ONLY <3>1, <3>2, <2>5, SumAdd
  <2>11. IsFiniteSet(All(r) \cup Q[c])
    BY ONLY <2>4, <2>8, FS_Union
  <2>12. QED
    BY ONLY <2>4, <2>5, <2>8, <2>9, <2>10, <2>11
<1>4. \A n \in Nat : n \in P
  <2> HIDE DEF P
  <2>1. QED
    BY ONLY <1>2, <1>3, Induction
<1>5. QED
  BY <1>1, <1>4

(* Ones add up to how many there are. *)
LEMMA SumOfOnes ==
  ASSUME NEW S, IsFiniteSet(S), NEW f, \A x \in S : f[x] = 1
  PROVE  SumFunctionOnSet(f, S) = Cardinality(S)
<1> DEFINE P == {n \in Nat : \A s \in SUBSET S : Cardinality(s) = n => SumFunctionOnSet(f, s) = n}
<1>1. \A s \in SUBSET S : IsFiniteSet(s) /\ Cardinality(s) \in Nat
  BY FS_Subset, FS_CardinalityType
<1>2. 0 \in P
  BY <1>1, FS_EmptySet, SumEmpty
<1>3. ASSUME NEW n \in Nat, n \in P PROVE n + 1 \in P
  <2>1. SUFFICES ASSUME NEW s \in SUBSET S, Cardinality(s) = n + 1
                 PROVE SumFunctionOnSet(f, s) = n + 1
    OBVIOUS
  <2>2. s # {}
    BY <2>1, FS_EmptySet
  <2>3. PICK x \in s : SumFunctionOnSet(f, s) = f[x] + SumFunctionOnSet(f, s \ {x})
    BY ONLY <1>1, <2>2, SumSome, s \in SUBSET S
  <2>4. Cardinality(s \ {x}) = n
    BY ONLY <1>1, <2>1, Without, n \in Nat, x \in s
  <2>5. SumFunctionOnSet(f, s \ {x}) = n
    BY <1>3, <2>4
  <2>6. QED
    BY <2>3, <2>5, f[x] = 1
<1>4. \A n \in Nat : n \in P
  <2> HIDE DEF P
  <2>1. QED
    BY ONLY <1>2, <1>3, Induction
<1>5. QED
  BY <1>1, <1>4

(* Whole division. *)
LEMMA DivBounds ==
  ASSUME NEW a \in Nat, NEW b \in Nat \ {0}
  PROVE  a \div b \in Nat /\ b * (a \div b) <= a /\ a < b * (a \div b) + b
BY SMTT(20)

(* A product grows with its factor. *)
LEMMA TimesMono ==
  ASSUME NEW a \in Nat, NEW b \in Nat, NEW c \in Nat, a <= b
  PROVE  c * a <= c * b
BY SMTT(20)
(* What is less as a product is less as a factor. *)
LEMMA TimesLess ==
  ASSUME NEW a \in Nat, NEW b \in Nat, NEW c \in Nat, c * a < c * b
  PROVE  a < b
BY TimesMono
(* A quotient grows with what is divided. *)
LEMMA DivMono ==
  ASSUME NEW a \in Nat, NEW c \in Nat, NEW b \in Nat \ {0}, a <= c
  PROVE  a \div b <= c \div b
<1> DEFINE x == a \div b
           y == c \div b
<1>1. x \in Nat /\ y \in Nat /\ b * x <= a /\ c < b * y + b
  BY DivBounds
<1> HIDE DEF x, y
<1>2. b * x < b * (y + 1)
  <2>1. b * (y + 1) = b * y + b /\ b * x \in Nat /\ b * y \in Nat
    BY <1>1
  <2>2. QED
    BY <1>1, <2>1
<1>3. x < y + 1
  BY <1>1, <1>2, TimesLess
<1>4. QED
  BY <1>1, <1>3 DEF x, y

(* The greatest of a finite set of naturals. *)
LEMMA Greatest ==
  ASSUME NEW S \in SUBSET Nat, IsFiniteSet(S), S # {}
  PROVE  \E n \in S : \A m \in S : m <= n
<1> DEFINE Bounded(s) == s # {} => \E n \in s : \A m \in s : m <= n
           P == {k \in Nat : \A s \in SUBSET S : Cardinality(s) = k => Bounded(s)}
<1>1. \A s \in SUBSET S : IsFiniteSet(s) /\ Cardinality(s) \in Nat
  BY FS_Subset, FS_CardinalityType
<1>2. 0 \in P
  BY <1>1, FS_EmptySet
<1>3. ASSUME NEW k \in Nat, k \in P PROVE k + 1 \in P
  <2>0. SUFFICES ASSUME NEW s \in SUBSET S, Cardinality(s) = k + 1, s # {} PROVE Bounded(s)
    OBVIOUS
  <2>1. Cardinality(s) = k + 1 /\ \E c \in s : TRUE
    BY <2>0
  <2> PICK c \in s : TRUE
    BY <2>1
  <2> DEFINE r == s \ {c}
  <2>2. Cardinality(r) = k
    <3>1. IsFiniteSet(s)
      BY <1>1
    <3>2. Cardinality(s) = Cardinality(r) + 1 /\ Cardinality(r) \in Nat
      BY ONLY <3>1, Without, c \in s
    <3>3. QED
      BY ONLY <2>1, <3>2, k \in Nat
  <2>3. Bounded(r)
    BY <1>3, <2>2
  <2>4. CASE r = {}
    BY <2>4
  <2>5. CASE r # {}
    <3>1. PICK n \in r : \A m \in r : m <= n
      BY <2>3, <2>5
    <3>2. n \in Nat /\ c \in Nat /\ \A m \in s : m \in r \/ m = c
      OBVIOUS
    <3>3. CASE c <= n
      BY <3>1, <3>2, <3>3
    <3>4. CASE n < c
      <4>1. \A m \in s : m <= c
        BY <3>1, <3>2, <3>4, \A m \in r : m \in Nat
      <4>2. QED
        BY <4>1
    <3>5. QED
      BY <3>2, <3>3, <3>4
  <2>6. QED
    BY <2>4, <2>5
<1>4. \A k \in Nat : k \in P
  <2> HIDE DEF P
  <2>1. QED
    BY ONLY <1>2, <1>3, Induction
<1>5. QED
  BY <1>1, <1>4

(* What is least is Min, and what is greatest Max. *)
LEMMA ExtremesAre ==
  ASSUME NEW S \in SUBSET Nat
  PROVE  /\ \A n \in S : (\A m \in S : n <= m) => Min(S) = n
         /\ \A n \in S : (\A m \in S : m <= n) => Max(S) = n
<1>1. ASSUME NEW n \in S, \A m \in S : n <= m PROVE Min(S) = n
  <2>1. Min(S) \in S /\ \A m \in S : Min(S) <= m
    BY <1>1 DEF Min
  <2>2. Min(S) <= n /\ n <= Min(S) /\ n \in Nat /\ Min(S) \in Nat
    BY <1>1, <2>1
  <2>3. QED
    BY ONLY <2>2
<1>2. ASSUME NEW n \in S, \A m \in S : m <= n PROVE Max(S) = n
  <2>1. \A m \in S : n >= m
    BY <1>2
  <2>2. Max(S) \in S /\ \A m \in S : Max(S) >= m
    BY <2>1 DEF Max
  <2>3. Max(S) >= n /\ Max(S) <= n /\ n \in Nat /\ Max(S) \in Nat
    BY <1>2, <2>2
  <2>4. QED
    BY ONLY <2>3
<1>3. QED
  BY <1>1, <1>2

(* Ranks tell statuses apart. *)
LEMMA Ranks ==
  /\ Status = {"Good", "Uncertain", "Bad"}
  /\ \A s \in Status : Rank[s] \in Nat
  /\ \A s, q \in Status : Rank[s] = Rank[q] => s = q
  /\ \A s \in Status : Rank["Good"] <= Rank[s]
BY DEF Status, Rank

(* The worst status is WorstOf. *)
LEMMA WorstIs ==
  ASSUME NEW S \in SUBSET Status, NEW s \in S, \A q \in S : Rank[q] <= Rank[s]
  PROVE  WorstOf(S) = s
<1> DEFINE w == WorstOf(S)
<1>1. w \in S /\ \A q \in S : Rank[q] <= Rank[w]
  BY DEF WorstOf
<1>2. Rank[w] <= Rank[s] /\ Rank[s] <= Rank[w]
  BY <1>1
<1> HIDE DEF w
<1>3. Rank[w] = Rank[s]
  <2>1. Rank[w] \in Nat /\ Rank[s] \in Nat
    BY <1>1, Ranks
  <2>2. QED
    BY <1>2, <2>1
<1>4. w = s
  BY <1>1, <1>3, Ranks
<1>5. QED
  BY <1>4 DEF w

(* There is a worst status. *)
LEMMA WorstExists ==
  ASSUME NEW S \in SUBSET Status, S # {}
  PROVE  WorstOf(S) \in S /\ \A q \in S : Rank[q] <= Rank[WorstOf(S)]
<1>1. \E s \in S : \A q \in S : Rank[q] <= Rank[s]
  <2>0. /\ S \subseteq {"Good", "Uncertain", "Bad"}
        /\ Rank["Good"] = 0 /\ Rank["Uncertain"] = 2 /\ Rank["Bad"] = 3
    BY DEF Status, Rank
  <2>1. CASE "Bad" \in S
    BY <2>0, <2>1
  <2>2. CASE "Bad" \notin S /\ "Uncertain" \in S
    BY <2>0, <2>2
  <2>3. CASE "Bad" \notin S /\ "Uncertain" \notin S
    <3>1. S = {"Good"}
      BY <2>0, <2>3
    <3>2. QED
      BY <2>0, <3>1
  <2>4. QED
    BY <2>1, <2>2, <2>3
<1>2. QED
  BY <1>1 DEF WorstOf

-----------------------------------------------------------------------------

(* What a row or a point says of the samples with some numbers.            *)

Sample == [time : Nat, value : Nat, status : Status, range : {"InRange", "OutOfRange"}]

Row == [bucket : Nat, of : SUBSET Nat, samples : Nat, high : Nat, highStatus : Status, first : Nat, last : Nat,
        minimum : Nat, maximum : Nat, total : Nat, count : Nat, status : Status]

ValueOf(l)   == [i \in 1..Len(l) |-> l[i].value]
Values(l, S) == {i \in S : l[i].value # NoValue}
High(l, S)   == {i \in S : l[i].range = "OutOfRange"}

SaysTotal(l, p, S) == p.total = SumFunctionOnSet(ValueOf(l), Values(l, S))
SaysCount(l, p, S) == p.count = Cardinality(Values(l, S))
SaysFirst(l, p, S) ==
  IF Values(l, S) = {} THEN p.first = NoValue
  ELSE \E i \in Values(l, S) : p.first = l[i].value /\ \A j \in Values(l, S) : i <= j
SaysLast(l, p, S) ==
  IF Values(l, S) = {} THEN p.last = NoValue
  ELSE \E i \in Values(l, S) : p.last = l[i].value /\ \A j \in Values(l, S) : j <= i
SaysMinimum(l, p, S) ==
  IF Values(l, S) = {} THEN p.minimum = NoValue
  ELSE \E i \in Values(l, S) : p.minimum = l[i].value /\ \A j \in Values(l, S) : l[i].value <= l[j].value
SaysMaximum(l, p, S) ==
  IF Values(l, S) = {} THEN p.maximum = NoValue
  ELSE \E i \in Values(l, S) : p.maximum = l[i].value /\ \A j \in Values(l, S) : l[j].value <= l[i].value
SaysStatus(l, p, S) ==
  S # {} => \E i \in S : p.status = l[i].status /\ \A j \in S : Rank[l[j].status] <= Rank[l[i].status]
SaysHighStatus(l, p, S) ==
  /\ p.highStatus = "Good" \/ \E i \in High(l, S) : p.highStatus = l[i].status
  /\ \A j \in High(l, S) : Rank[l[j].status] <= Rank[p.highStatus]

Says(l, p, S) ==
  /\ SaysTotal(l, p, S) /\ SaysCount(l, p, S) /\ SaysFirst(l, p, S) /\ SaysLast(l, p, S)
  /\ SaysMinimum(l, p, S) /\ SaysMaximum(l, p, S)
  /\ SaysStatus(l, p, S) /\ SaysHighStatus(l, p, S)

RowSays(l, r, S) ==
  /\ r \in Row /\ r.samples = Cardinality(S)
  /\ r.high > 0 <=> High(l, S) # {}
  /\ Says(l, r, S)

(* What a sample is. *)
LEMMA SampleFields ==
  ASSUME NEW s \in Sample
  PROVE  /\ s.time \in Nat /\ s.value \in Nat /\ s.status \in Status
         /\ s.range \in {"InRange", "OutOfRange"}
BY DEF Sample

(* What a row is. *)
LEMMA RowFields ==
  ASSUME NEW r \in Row
  PROVE  /\ r.bucket \in Nat /\ r.of \in SUBSET Nat /\ r.samples \in Nat /\ r.high \in Nat /\ r.highStatus \in Status
         /\ r.first \in Nat /\ r.last \in Nat /\ r.minimum \in Nat /\ r.maximum \in Nat
         /\ r.total \in Nat /\ r.count \in Nat /\ r.status \in Status
BY DEF Row

(* The numbers of samples are finite in number. *)
LEMMA Numbers ==
  ASSUME NEW l \in Seq(Sample), NEW S \in SUBSET (1..Len(l))
  PROVE  /\ IsFiniteSet(S) /\ IsFiniteSet(Values(l, S)) /\ IsFiniteSet(High(l, S))
         /\ Values(l, S) \subseteq S /\ High(l, S) \subseteq S /\ S \subseteq Nat
         /\ \A i \in S : l[i] \in Sample /\ ValueOf(l)[i] \in Nat /\ ValueOf(l)[i] = l[i].value
<1>1. Len(l) \in Nat /\ \A i \in 1..Len(l) : l[i] \in Sample
  OBVIOUS
<1>2. IsFiniteSet(1..Len(l))
  BY <1>1, FS_Interval
<1>3. \A T \in SUBSET (1..Len(l)) : IsFiniteSet(T)
  BY ONLY <1>2, FS_Subset
<1>4. Values(l, S) \subseteq S /\ High(l, S) \subseteq S
  BY DEF Values, High
<1>5. \A i \in S : ValueOf(l)[i] = l[i].value /\ l[i].value \in Nat
  BY <1>1, SampleFields DEF ValueOf
<1>6. QED
  BY <1>1, <1>3, <1>4, <1>5

(* A row with other values is a row. *)
LEMMA OtherValues ==
  ASSUME NEW a \in Row, NEW f \in Nat, NEW e \in Nat, NEW mi \in Nat, NEW ma \in Nat,
         NEW t \in Nat, NEW c \in Nat
  PROVE  [a EXCEPT !.first = f, !.last = e, !.minimum = mi, !.maximum = ma,
                   !.total = t, !.count = c] \in Row
<1>1. [a EXCEPT !.first = f, !.last = e, !.minimum = mi] \in Row
  BY DEF Row
<1>2. ASSUME NEW b \in Row PROVE [b EXCEPT !.maximum = ma, !.total = t, !.count = c] \in Row
  BY DEF Row
<1>3. QED
  BY ONLY <1>1, <1>2

(* A row with other counts and statuses is a row. *)
LEMMA OtherCounts ==
  ASSUME NEW a \in Row, NEW o \in SUBSET Nat, NEW n \in Nat, NEW h \in Nat, NEW hs \in Status, NEW st \in Status
  PROVE  [a EXCEPT !.of = o, !.samples = n, !.high = h, !.highStatus = hs, !.status = st] \in Row
<1>1. [a EXCEPT !.of = o, !.samples = n, !.high = h] \in Row
  BY DEF Row
<1>2. ASSUME NEW b \in Row PROVE [b EXCEPT !.highStatus = hs, !.status = st] \in Row
  BY DEF Row
<1>3. QED
  BY ONLY <1>1, <1>2

(* A sample with a value, and one without. *)
LEMMA WithValueFields ==
  ASSUME NEW a \in Row, NEW v \in Nat
  PROVE  LET w == WithValue(a, v) IN
         /\ w \in Row /\ w.bucket = a.bucket /\ w.of = a.of /\ w.samples = a.samples /\ w.high = a.high
         /\ w.highStatus = a.highStatus /\ w.status = a.status
         /\ v = NoValue => w = a
         /\ v # NoValue =>
              /\ w.first = IF a.count = 0 THEN v ELSE a.first
              /\ w.last = v
              /\ w.minimum = IF a.count = 0 THEN v ELSE Lesser(a.minimum, v)
              /\ w.maximum = IF a.count = 0 THEN v ELSE Greater(a.maximum, v)
              /\ w.total = a.total + v
              /\ w.count = a.count + 1
<1>1. CASE v = NoValue
  BY <1>1 DEF WithValue
<1>2. CASE v # NoValue
  <2> DEFINE f  == IF a.count = 0 THEN v ELSE a.first
             mi == IF a.count = 0 THEN v ELSE Lesser(a.minimum, v)
             ma == IF a.count = 0 THEN v ELSE Greater(a.maximum, v)
             t  == a.total + v
             c  == a.count + 1
  <2>1. f \in Nat /\ mi \in Nat /\ ma \in Nat /\ t \in Nat /\ c \in Nat
    BY RowFields DEF Lesser, Greater
  <2>2. WithValue(a, v) = [a EXCEPT !.first = f, !.last = v, !.minimum = mi, !.maximum = ma,
                                    !.total = t, !.count = c]
    BY <1>2 DEF WithValue
  <2> HIDE DEF f, mi, ma, t, c
  <2>3. WithValue(a, v) \in Row
    <3>1. [a EXCEPT !.first = f, !.last = v, !.minimum = mi, !.maximum = ma,
                    !.total = t, !.count = c] \in Row
      BY ONLY <2>1, OtherValues, a \in Row, v \in Nat
    <3>2. QED
      BY ONLY <2>2, <3>1
  <2>4. LET w == WithValue(a, v) IN
         /\ w.bucket = a.bucket /\ w.of = a.of /\ w.samples = a.samples /\ w.high = a.high
         /\ w.highStatus = a.highStatus /\ w.status = a.status
         /\ w.first = f /\ w.last = v /\ w.minimum = mi /\ w.maximum = ma
         /\ w.total = t /\ w.count = c
    BY ONLY <2>2, a \in Row DEF Row
  <2>5. QED
    BY <1>2, <2>3, <2>4 DEF f, mi, ma, t, c
<1>3. QED
  BY <1>1, <1>2

(* What Updated does to each column. *)
LEMMA UpdatedFields ==
  ASSUME NEW a \in Row, NEW s \in Sample, NEW k \in Nat
  PROVE  LET u == Updated(a, s, k)
             w == WithValue(a, s.value) IN
         /\ u \in Row /\ u.bucket = a.bucket /\ u.of = a.of \cup {k} /\ u.samples = a.samples + 1
         /\ u.high = IF s.range = "OutOfRange" THEN a.high + 1 ELSE a.high
         /\ u.highStatus = IF s.range = "OutOfRange" THEN Worse(a.highStatus, s.status)
                           ELSE a.highStatus
         /\ u.status = IF a.samples = 0 THEN s.status ELSE Worse(a.status, s.status)
         /\ u.first = w.first /\ u.last = w.last /\ u.minimum = w.minimum
         /\ u.maximum = w.maximum /\ u.total = w.total /\ u.count = w.count
<1> DEFINE w == WithValue(a, s.value)
<1>1. /\ w \in Row /\ w.bucket = a.bucket /\ w.of = a.of /\ w.samples = a.samples /\ w.high = a.high
      /\ w.highStatus = a.highStatus /\ w.status = a.status
  BY SampleFields, WithValueFields
<1>2. \A old \in Status : Worse(old, s.status) \in Status
  BY SampleFields DEF Worse
<1> HIDE DEF w
<1>3. Updated(a, s, k) =
        [w EXCEPT !.of         = @ \cup {k},
                  !.samples    = @ + 1,
                  !.high       = IF s.range = "OutOfRange" THEN @ + 1 ELSE @,
                  !.highStatus = IF s.range = "OutOfRange" THEN Worse(@, s.status) ELSE @,
                  !.status     = IF a.samples = 0 THEN s.status ELSE Worse(@, s.status)]
  BY DEF Updated, w
<1>4. s.status \in Status /\ a.highStatus \in Status /\ a.status \in Status
  BY SampleFields, RowFields
<1>5. QED
  <2> DEFINE u == Updated(a, s, k)
  <2>1. /\ u.bucket = a.bucket /\ u.of = a.of \cup {k} /\ u.samples = a.samples + 1
        /\ u.high = IF s.range = "OutOfRange" THEN a.high + 1 ELSE a.high
        /\ u.highStatus = IF s.range = "OutOfRange" THEN Worse(a.highStatus, s.status)
                          ELSE a.highStatus
        /\ u.status = IF a.samples = 0 THEN s.status ELSE Worse(a.status, s.status)
        /\ u.first = w.first /\ u.last = w.last /\ u.minimum = w.minimum
        /\ u.maximum = w.maximum /\ u.total = w.total /\ u.count = w.count
    BY <1>1, <1>3 DEF Row
  <2>2. u \in Row
    <3>1. /\ a.samples \in Nat /\ a.high \in Nat
          /\ Worse(a.highStatus, s.status) \in Status /\ Worse(a.status, s.status) \in Status
      BY RowFields, <1>2, <1>4
    <3> DEFINE o  == w.of \cup {k}
               n  == w.samples + 1
               h  == IF s.range = "OutOfRange" THEN w.high + 1 ELSE w.high
               hs == IF s.range = "OutOfRange" THEN Worse(w.highStatus, s.status) ELSE w.highStatus
               st == IF a.samples = 0 THEN s.status ELSE Worse(w.status, s.status)
    <3>2. o \in SUBSET Nat /\ n \in Nat /\ h \in Nat /\ hs \in Status /\ st \in Status
      BY <1>1, <1>4, <3>1, RowFields
    <3>3. Updated(a, s, k) =
            [w EXCEPT !.of = o, !.samples = n, !.high = h, !.highStatus = hs, !.status = st]
      BY ONLY <1>3
    <3> HIDE DEF o, n, h, hs, st
    <3>4. [w EXCEPT !.of = o, !.samples = n, !.high = h, !.highStatus = hs, !.status = st] \in Row
      BY ONLY <1>1, <3>2, OtherCounts
    <3>5. QED
      BY <3>3, <3>4
  <2>3. QED
    BY <2>1, <2>2 DEF w

(* A sample more: an accumulator that says what the samples S are says of
   them and the next what they are. *)
LEMMA Adds ==
  ASSUME NEW l \in Seq(Sample), NEW S \in SUBSET (1..Len(l)),
         NEW n \in 1..Len(l), \A i \in S : i < n,
         NEW a, RowSays(l, a, S)
  PROVE  RowSays(l, Updated(a, l[n], n), S \cup {n})
<1> DEFINE s == l[n]
           T == S \cup {n}
           V == Values(l, S)
           H == High(l, S)
           w == WithValue(a, s.value)
           u == Updated(a, s, n)
<1>1. /\ s \in Sample /\ T \in SUBSET (1..Len(l)) /\ n \notin S /\ n \in Nat
      /\ s.value \in Nat /\ s.status \in Status /\ s.range \in {"InRange", "OutOfRange"}
  BY SampleFields
<1>2. /\ IsFiniteSet(S) /\ IsFiniteSet(V) /\ IsFiniteSet(H) /\ V \subseteq S /\ H \subseteq S
      /\ \A i \in T : l[i] \in Sample /\ ValueOf(l)[i] \in Nat /\ ValueOf(l)[i] = l[i].value
      /\ S \subseteq Nat
  <2>1. \A X \in SUBSET (1..Len(l)) :
          /\ IsFiniteSet(X) /\ IsFiniteSet(Values(l, X)) /\ IsFiniteSet(High(l, X))
          /\ Values(l, X) \subseteq X /\ High(l, X) \subseteq X /\ X \subseteq Nat
          /\ \A i \in X : l[i] \in Sample /\ ValueOf(l)[i] \in Nat /\ ValueOf(l)[i] = l[i].value
    BY ONLY Numbers, l \in Seq(Sample)
  <2>2. QED
    BY <1>1, <2>1
<1>3. Values(l, T) = IF s.value = NoValue THEN V ELSE V \cup {n}
  BY DEF Values
<1>4. High(l, T) = IF s.range = "OutOfRange" THEN H \cup {n} ELSE H
  BY DEF High
<1>5. /\ a \in Row /\ a.samples = Cardinality(S) /\ (a.high > 0 <=> H # {}) /\ Says(l, a, S)
      /\ a.samples \in Nat /\ a.count \in Nat /\ a.high \in Nat /\ a.total \in Nat
      /\ a.status \in Status /\ a.highStatus \in Status
  BY RowFields DEF RowSays
<1>6. /\ a.count = Cardinality(V) /\ (a.count = 0 <=> V = {}) /\ (a.samples = 0 <=> S = {})
  <2>1. a.count = Cardinality(V)
    BY <1>5 DEF Says, SaysCount
  <2>2. QED
    BY <2>1, <1>2, <1>5, FS_EmptySet
<1>7. /\ w.bucket = a.bucket /\ w.samples = a.samples /\ w.high = a.high
      /\ w.highStatus = a.highStatus /\ w.status = a.status
      /\ s.value = NoValue => w = a
      /\ s.value # NoValue =>
           /\ w.first = IF a.count = 0 THEN s.value ELSE a.first
           /\ w.last = s.value
           /\ w.minimum = IF a.count = 0 THEN s.value ELSE Lesser(a.minimum, s.value)
           /\ w.maximum = IF a.count = 0 THEN s.value ELSE Greater(a.maximum, s.value)
           /\ w.total = a.total + s.value
           /\ w.count = a.count + 1
  BY <1>1, <1>5, WithValueFields
<1>8. /\ u \in Row /\ u.bucket = a.bucket /\ u.of = a.of \cup {n} /\ u.samples = a.samples + 1
      /\ u.high = IF s.range = "OutOfRange" THEN a.high + 1 ELSE a.high
      /\ u.highStatus = IF s.range = "OutOfRange" THEN Worse(a.highStatus, s.status)
                        ELSE a.highStatus
      /\ u.status = IF a.samples = 0 THEN s.status ELSE Worse(a.status, s.status)
      /\ u.first = w.first /\ u.last = w.last /\ u.minimum = w.minimum
      /\ u.maximum = w.maximum /\ u.total = w.total /\ u.count = w.count
  <2> HIDE DEF s
  <2>1. s \in Sample /\ a \in Row /\ n \in Nat
    BY <1>1, <1>5
  <2>2. QED
    BY ONLY <2>1, UpdatedFields
<1>9. /\ SaysTotal(l, a, S) /\ SaysFirst(l, a, S) /\ SaysLast(l, a, S) /\ SaysMinimum(l, a, S)
      /\ SaysMaximum(l, a, S) /\ SaysStatus(l, a, S) /\ SaysHighStatus(l, a, S)
  BY <1>5 DEF Says
<1>10. s = l[n] /\ T = S \cup {n} /\ V = Values(l, S) /\ H = High(l, S)
  OBVIOUS
<1>11. \A i \in V : i < n /\ i \in T /\ l[i].value \in Nat
  BY <1>2
<1> HIDE DEF s, T, V, H, w, u
<1>12. u.samples = Cardinality(T)
  <2>1. Cardinality(T) = Cardinality(S) + 1
    BY ONLY <1>1, <1>2, <1>10, FS_AddElement
  <2>2. QED
    BY <2>1, <1>5, <1>8
<1>13. u.high > 0 <=> High(l, T) # {}
  <2>1. CASE s.range = "OutOfRange"
    <3>1. u.high = a.high + 1 /\ High(l, T) = H \cup {n}
      BY <1>4, <1>8, <2>1
    <3>2. u.high > 0
      BY <1>5, <3>1
    <3>3. QED
      BY <3>1, <3>2
  <2>2. CASE s.range # "OutOfRange"
    BY <1>4, <1>5, <1>8, <2>2
  <2>3. QED
    BY <2>1, <2>2
<1>14. SaysTotal(l, u, T) /\ SaysCount(l, u, T)
  <2>1. CASE s.value = NoValue
    BY <1>3, <1>6, <1>7, <1>8, <1>9, <1>10, <2>1 DEF SaysTotal, SaysCount
  <2>2. CASE s.value # NoValue
    <3>1. n \notin V /\ \A i \in V \cup {n} : ValueOf(l)[i] \in Nat
      BY <1>1, <1>2, <1>10, <1>11
    <3>2. SumFunctionOnSet(ValueOf(l), V \cup {n}) = SumFunctionOnSet(ValueOf(l), V) + ValueOf(l)[n]
      BY ONLY <1>2, <3>1, SumAdd
    <3>3. Cardinality(V \cup {n}) = Cardinality(V) + 1
      BY ONLY <1>2, <3>1, FS_AddElement
    <3>4. ValueOf(l)[n] = s.value
      BY <1>2, <1>10
    <3>5. QED
      BY <1>3, <1>6, <1>7, <1>8, <1>9, <1>10, <2>2, <3>2, <3>3, <3>4 DEF SaysTotal, SaysCount
  <2>3. QED
    BY <2>1, <2>2
<1>15. SaysFirst(l, u, T) /\ SaysLast(l, u, T)
  <2>1. CASE s.value = NoValue
    BY <1>3, <1>7, <1>8, <1>9, <1>10, <2>1 DEF SaysFirst, SaysLast
  <2>2. CASE s.value # NoValue /\ V = {}
    BY <1>1, <1>3, <1>6, <1>7, <1>8, <1>10, <2>2 DEF SaysFirst, SaysLast
  <2>3. CASE s.value # NoValue /\ V # {}
    <3>1. PICK i \in V : a.first = l[i].value /\ \A j \in V : i <= j
      BY <1>9, <1>10, <2>3 DEF SaysFirst
    <3>2. u.first = l[i].value /\ u.last = l[n].value
      BY <1>6, <1>7, <1>8, <1>10, <2>3, <3>1
    <3>3. Values(l, T) = V \cup {n}
      BY <1>3, <2>3
    <3>4. /\ \A j \in V \cup {n} : i <= j
          /\ \A j \in V \cup {n} : j <= n
      BY <1>1, <1>2, <1>11, <3>1
    <3>5. QED
      BY <3>2, <3>3, <3>4 DEF SaysFirst, SaysLast
  <2>4. QED
    BY <2>1, <2>2, <2>3
<1>16. SaysMinimum(l, u, T) /\ SaysMaximum(l, u, T)
  <2>1. CASE s.value = NoValue
    BY <1>3, <1>7, <1>8, <1>9, <1>10, <2>1 DEF SaysMinimum, SaysMaximum
  <2>2. CASE s.value # NoValue /\ V = {}
    BY <1>1, <1>3, <1>6, <1>7, <1>8, <1>10, <2>2 DEF SaysMinimum, SaysMaximum
  <2>3. CASE s.value # NoValue /\ V # {}
    <3>0. Values(l, T) = V \cup {n} /\ s.value = l[n].value /\ s.value \in Nat
      BY <1>1, <1>3, <1>10, <2>3
    <3>1. SaysMinimum(l, u, T)
      <4>1. PICK i \in V : a.minimum = l[i].value /\ \A j \in V : l[i].value <= l[j].value
        BY <1>9, <1>10, <2>3 DEF SaysMinimum
      <4>2. u.minimum = Lesser(l[i].value, l[n].value) /\ l[i].value \in Nat
        BY <1>6, <1>7, <1>8, <1>10, <1>11, <2>3, <4>1
      <4>3. CASE l[i].value < l[n].value
        <5>1. u.minimum = l[i].value
          BY <4>2, <4>3 DEF Lesser
        <5>2. \A j \in V \cup {n} : l[i].value <= l[j].value
          BY <4>1, <4>2, <4>3, <3>0
        <5>3. QED
          BY <5>1, <5>2, <3>0 DEF SaysMinimum
      <4>4. CASE ~(l[i].value < l[n].value)
        <5>1. u.minimum = l[n].value
          BY <4>2, <4>4 DEF Lesser
        <5>2. \A j \in V \cup {n} : l[n].value <= l[j].value
          BY <4>1, <4>2, <4>4, <3>0, <1>11
        <5>3. QED
          BY <5>1, <5>2, <3>0 DEF SaysMinimum
      <4>5. QED
        BY <4>3, <4>4
    <3>2. SaysMaximum(l, u, T)
      <4>1. PICK i \in V : a.maximum = l[i].value /\ \A j \in V : l[j].value <= l[i].value
        BY <1>9, <1>10, <2>3 DEF SaysMaximum
      <4>2. u.maximum = Greater(l[i].value, l[n].value) /\ l[i].value \in Nat
        BY <1>6, <1>7, <1>8, <1>10, <1>11, <2>3, <4>1
      <4>3. CASE l[i].value > l[n].value
        <5>1. u.maximum = l[i].value
          BY <4>2, <4>3 DEF Greater
        <5>2. \A j \in V \cup {n} : l[j].value <= l[i].value
          BY <4>1, <4>2, <4>3, <3>0
        <5>3. QED
          BY <5>1, <5>2, <3>0 DEF SaysMaximum
      <4>4. CASE ~(l[i].value > l[n].value)
        <5>1. u.maximum = l[n].value
          BY <4>2, <4>4 DEF Greater
        <5>2. \A j \in V \cup {n} : l[j].value <= l[n].value
          BY <4>1, <4>2, <4>4, <3>0, <1>11
        <5>3. QED
          BY <5>1, <5>2, <3>0 DEF SaysMaximum
      <4>5. QED
        BY <4>3, <4>4
    <3>3. QED
      BY <3>1, <3>2
  <2>4. QED
    BY <2>1, <2>2, <2>3
<1>17. \A i \in T : l[i].status \in Status /\ Rank[l[i].status] \in Nat
  BY <1>2, SampleFields, Ranks
<1>18. SaysStatus(l, u, T)
  <2>1. CASE S = {}
    <3>1. u.status = l[n].status /\ T = {n}
      BY <1>6, <1>8, <1>10, <2>1
    <3>2. QED
      BY <3>1, <1>17 DEF SaysStatus
  <2>2. CASE S # {}
    <3>1. PICK i \in S : a.status = l[i].status /\ \A j \in S : Rank[l[j].status] <= Rank[l[i].status]
      BY <1>9, <2>2 DEF SaysStatus
    <3>2. u.status = Worse(l[i].status, l[n].status)
      BY <1>6, <1>8, <1>10, <2>2, <3>1
    <3>3. i \in T /\ n \in T /\ T = S \cup {n}
      BY <1>10
    <3>4. CASE Rank[l[n].status] >= Rank[l[i].status]
      <4>1. u.status = l[n].status
        BY <3>2, <3>4 DEF Worse
      <4>2. \A j \in T : Rank[l[j].status] <= Rank[l[n].status]
        BY <1>17, <3>1, <3>3, <3>4
      <4>3. QED
        BY <3>3, <4>1, <4>2 DEF SaysStatus
    <3>5. CASE ~(Rank[l[n].status] >= Rank[l[i].status])
      <4>1. u.status = l[i].status
        BY <3>2, <3>5 DEF Worse
      <4>2. \A j \in T : Rank[l[j].status] <= Rank[l[i].status]
        BY <1>17, <3>1, <3>3, <3>5
      <4>3. QED
        BY <3>3, <4>1, <4>2 DEF SaysStatus
    <3>6. QED
      BY <3>4, <3>5
  <2>3. QED
    BY <2>1, <2>2
<1>19. SaysHighStatus(l, u, T)
  <2>1. CASE s.range # "OutOfRange"
    BY <1>4, <1>8, <1>9, <1>10, <2>1 DEF SaysHighStatus
  <2>2. CASE s.range = "OutOfRange"
    <3>1. High(l, T) = H \cup {n} /\ u.highStatus = Worse(a.highStatus, l[n].status)
      BY <1>4, <1>8, <1>10, <2>2
    <3>2. /\ a.highStatus = "Good" \/ \E i \in H : a.highStatus = l[i].status
          /\ \A j \in H : Rank[l[j].status] <= Rank[a.highStatus]
      BY <1>9, <1>10 DEF SaysHighStatus
    <3>3. /\ Rank[a.highStatus] \in Nat /\ Rank[l[n].status] \in Nat
          /\ \A j \in H : Rank[l[j].status] \in Nat
      BY <1>2, <1>5, <1>10, <1>17, Ranks
    <3>4. CASE Rank[l[n].status] >= Rank[a.highStatus]
      <4>1. u.highStatus = l[n].status
        BY <3>1, <3>4 DEF Worse
      <4>2. \A j \in H \cup {n} : Rank[l[j].status] <= Rank[l[n].status]
        BY <3>2, <3>3, <3>4
      <4>3. QED
        BY <3>1, <4>1, <4>2 DEF SaysHighStatus
    <3>5. CASE ~(Rank[l[n].status] >= Rank[a.highStatus])
      <4>1. u.highStatus = a.highStatus
        BY <3>1, <3>5 DEF Worse
      <4>2. \A j \in H \cup {n} : Rank[l[j].status] <= Rank[a.highStatus]
        BY <3>2, <3>3, <3>5
      <4>3. QED
        BY <3>1, <3>2, <4>1, <4>2 DEF SaysHighStatus
    <3>6. QED
      BY <3>4, <3>5
  <2>3. QED
    BY <2>1, <2>2
<1>20. RowSays(l, u, T)
  BY <1>8, <1>12, <1>13, <1>14, <1>15, <1>16, <1>18, <1>19 DEF RowSays, Says
<1>21. QED
  BY <1>8, <1>20 DEF u, s, T

(* The accumulator of a minute that begins says what no samples are. *)
LEMMA EmptySays ==
  ASSUME NEW l, NEW b \in Nat
  PROVE  RowSays(l, Empty(b), {}) /\ Empty(b).bucket = b
<1>1. Values(l, {}) = {} /\ High(l, {}) = {}
  BY DEF Values, High
<1>2. SumFunctionOnSet(ValueOf(l), {}) = 0 /\ Cardinality({}) = 0
  BY SumEmpty, FS_EmptySet
<1>3. Empty(b) \in Row
  BY Ranks DEF Empty, Row, NoValue
<1>4. Says(l, Empty(b), {})
  BY <1>1, <1>2
     DEF Empty, Says, SaysTotal, SaysCount, SaysFirst, SaysLast, SaysMinimum, SaysMaximum,
         SaysStatus, SaysHighStatus
<1>5. QED
  BY <1>1, <1>2, <1>3, <1>4 DEF RowSays, Empty

(* What is said of samples that are in the log stays true when another is
   appended. *)
LEMMA StillSays ==
  ASSUME NEW l \in Seq(Sample), NEW s \in Sample, NEW S \in SUBSET (1..Len(l)), NEW p
  PROVE  /\ Says(Append(l, s), p, S) <=> Says(l, p, S)
         /\ RowSays(Append(l, s), p, S) <=> RowSays(l, p, S)
<1> DEFINE m == Append(l, s)
<1>1. /\ Len(l) \in Nat /\ Len(m) = Len(l) + 1 /\ m \in Seq(Sample)
      /\ \A i \in 1..Len(l) : m[i] = l[i]
  OBVIOUS
<1> HIDE DEF m
<1>2. Values(m, S) = Values(l, S) /\ High(m, S) = High(l, S)
  BY <1>1 DEF Values, High
<1>3. Values(l, S) \subseteq S /\ High(l, S) \subseteq S /\ IsFiniteSet(Values(l, S))
  BY Numbers
<1>4. \A i \in S : ValueOf(m)[i] = ValueOf(l)[i]
  BY <1>1 DEF ValueOf
<1>5. SumFunctionOnSet(ValueOf(m), Values(l, S)) = SumFunctionOnSet(ValueOf(l), Values(l, S))
  <2>1. \A i \in Values(l, S) : ValueOf(m)[i] = ValueOf(l)[i]
    BY <1>3, <1>4
  <2>2. QED
    BY ONLY <1>3, <2>1, SumEqual
<1>6. \A i \in S : m[i] = l[i]
  BY <1>1
<1>7. SaysTotal(m, p, S) <=> SaysTotal(l, p, S)
  BY <1>2, <1>5 DEF SaysTotal
<1>8. SaysCount(m, p, S) <=> SaysCount(l, p, S)
  BY <1>2 DEF SaysCount
<1>9. SaysFirst(m, p, S) <=> SaysFirst(l, p, S)
  BY <1>2, <1>3, <1>6 DEF SaysFirst
<1>10. SaysLast(m, p, S) <=> SaysLast(l, p, S)
  BY <1>2, <1>3, <1>6 DEF SaysLast
<1>11. SaysMinimum(m, p, S) <=> SaysMinimum(l, p, S)
  BY <1>2, <1>3, <1>6 DEF SaysMinimum
<1>12. SaysMaximum(m, p, S) <=> SaysMaximum(l, p, S)
  BY <1>2, <1>3, <1>6 DEF SaysMaximum
<1>13. SaysStatus(m, p, S) <=> SaysStatus(l, p, S)
  BY <1>6 DEF SaysStatus
<1>14. SaysHighStatus(m, p, S) <=> SaysHighStatus(l, p, S)
  BY <1>2, <1>3, <1>6 DEF SaysHighStatus
<1>15. Says(m, p, S) <=> Says(l, p, S)
  BY <1>7, <1>8, <1>9, <1>10, <1>11, <1>12, <1>13, <1>14 DEF Says
<1>16. QED
  BY <1>2, <1>15 DEF RowSays, m

(* What is said of samples is the point that they make. *)
LEMMA SaysReference ==
  ASSUME log \in Seq(Sample), NEW S \in SUBSET (1..Len(log)), S # {},
         NEW p, Says(log, p, S), p.high = (High(log, S) # {}),
         NEW from, NEW to
  PROVE  Reference(from, to, S) =
           [from |-> from, to |-> to, total |-> p.total, count |-> p.count, first |-> p.first,
            last |-> p.last, minimum |-> p.minimum, maximum |-> p.maximum,
            status |-> p.status, high |-> p.high, highStatus |-> p.highStatus]
<1> DEFINE V == {i \in S : log[i].value # NoValue}
           H == {i \in S : log[i].range = "OutOfRange"}
<1>1. V = Values(log, S) /\ H = High(log, S)
  BY DEF Values, High
<1>2. /\ IsFiniteSet(V) /\ V \subseteq S /\ H \subseteq S /\ S \subseteq Nat
      /\ \A i \in S : log[i] \in Sample /\ ValueOf(log)[i] \in Nat /\ ValueOf(log)[i] = log[i].value
  BY Numbers, <1>1
<1>3. \A i \in S : log[i].value \in Nat /\ log[i].status \in Status
  BY <1>2, SampleFields
<1> HIDE DEF V, H
<1>4. SumFunction([i \in V |-> log[i].value]) = p.total
  <2> DEFINE f == [i \in V |-> log[i].value]
  <2>1. DOMAIN f = V /\ \A i \in V : f[i] = ValueOf(log)[i]
    BY <1>2
  <2> HIDE DEF f
  <2>2. SumFunctionOnSet(f, V) = SumFunctionOnSet(ValueOf(log), V)
    BY ONLY <1>2, <2>1, SumEqual
  <2>3. p.total = SumFunctionOnSet(ValueOf(log), V)
    BY <1>1 DEF Says, SaysTotal
  <2>4. SumFunction(f) = p.total
    BY <2>1, <2>2, <2>3 DEF SumFunction
  <2>5. QED
    BY <2>4 DEF f
<1>5. Cardinality(V) = p.count
  BY <1>1 DEF Says, SaysCount
<1>6. V \in SUBSET Nat
  BY <1>2
<1>7. (IF V = {} THEN NoValue ELSE log[Min(V)].value) = p.first
  <2>1. CASE V = {}
    BY <1>1, <2>1 DEF Says, SaysFirst
  <2>2. CASE V # {}
    <3>1. PICK i \in V : p.first = log[i].value /\ \A j \in V : i <= j
      BY <1>1, <2>2 DEF Says, SaysFirst
    <3>2. Min(V) = i
      BY ONLY <1>6, <3>1, ExtremesAre
    <3>3. QED
      BY <2>2, <3>1, <3>2
  <2>3. QED
    BY <2>1, <2>2
<1>8. (IF V = {} THEN NoValue ELSE log[Max(V)].value) = p.last
  <2>1. CASE V = {}
    BY <1>1, <2>1 DEF Says, SaysLast
  <2>2. CASE V # {}
    <3>1. PICK i \in V : p.last = log[i].value /\ \A j \in V : j <= i
      BY <1>1, <2>2 DEF Says, SaysLast
    <3>2. Max(V) = i
      BY ONLY <1>6, <3>1, ExtremesAre
    <3>3. QED
      BY <2>2, <3>1, <3>2
  <2>3. QED
    BY <2>1, <2>2
<1> DEFINE W == {log[i].value : i \in V}
<1>9. W \in SUBSET Nat
  BY <1>2, <1>3
<1>10. (IF V = {} THEN NoValue ELSE Min(W)) = p.minimum
  <2>1. CASE V = {}
    BY <1>1, <2>1 DEF Says, SaysMinimum
  <2>2. CASE V # {}
    <3>1. PICK i \in V : p.minimum = log[i].value /\ \A j \in V : log[i].value <= log[j].value
      BY <1>1, <2>2 DEF Says, SaysMinimum
    <3>2. p.minimum \in W /\ \A x \in W : p.minimum <= x
      BY <3>1
    <3> HIDE DEF W
    <3>3. Min(W) = p.minimum
      BY ONLY <1>9, <3>2, ExtremesAre
    <3>4. QED
      BY <2>2, <3>3
  <2>3. QED
    BY <2>1, <2>2
<1>11. (IF V = {} THEN NoValue ELSE Max(W)) = p.maximum
  <2>1. CASE V = {}
    BY <1>1, <2>1 DEF Says, SaysMaximum
  <2>2. CASE V # {}
    <3>1. PICK i \in V : p.maximum = log[i].value /\ \A j \in V : log[j].value <= log[i].value
      BY <1>1, <2>2 DEF Says, SaysMaximum
    <3>2. p.maximum \in W /\ \A x \in W : x <= p.maximum
      BY <3>1
    <3> HIDE DEF W
    <3>3. Max(W) = p.maximum
      BY ONLY <1>9, <3>2, ExtremesAre
    <3>4. QED
      BY <2>2, <3>3
  <2>3. QED
    BY <2>1, <2>2
<1>12. WorstOf({log[i].status : i \in S}) = p.status
  <2>1. PICK i \in S : p.status = log[i].status /\ \A j \in S : Rank[log[j].status] <= Rank[log[i].status]
    BY DEF Says, SaysStatus
  <2> DEFINE X == {log[j].status : j \in S}
  <2>2. X \in SUBSET Status /\ p.status \in X /\ \A q \in X : Rank[q] <= Rank[p.status]
    BY <1>3, <2>1
  <2> HIDE DEF X
  <2>3. WorstOf(X) = p.status
    BY ONLY <2>2, WorstIs
  <2>4. QED
    BY <2>3 DEF X
<1>13. WorstOf({"Good"} \cup {log[i].status : i \in H}) = p.highStatus
  <2>1. /\ p.highStatus = "Good" \/ \E i \in H : p.highStatus = log[i].status
        /\ \A j \in H : Rank[log[j].status] <= Rank[p.highStatus]
    BY <1>1 DEF Says, SaysHighStatus
  <2> DEFINE X == {"Good"} \cup {log[j].status : j \in H}
  <2>2. X \in SUBSET Status /\ p.highStatus \in X
    BY <1>2, <1>3, <2>1, Ranks
  <2>3. \A q \in X : Rank[q] <= Rank[p.highStatus]
    BY <2>1, <2>2, Ranks
  <2> HIDE DEF X
  <2>4. WorstOf(X) = p.highStatus
    BY ONLY <2>2, <2>3, WorstIs
  <2>5. QED
    BY <2>4 DEF X
<1>14. p.high = (H # {})
  BY <1>1
<1>15. Reference(from, to, S) =
         [from |-> from, to |-> to,
          total |-> SumFunction([i \in V |-> log[i].value]),
          count |-> Cardinality(V),
          first |-> IF V = {} THEN NoValue ELSE log[Min(V)].value,
          last |-> IF V = {} THEN NoValue ELSE log[Max(V)].value,
          minimum |-> IF V = {} THEN NoValue ELSE Min(W),
          maximum |-> IF V = {} THEN NoValue ELSE Max(W),
          status |-> WorstOf({log[i].status : i \in S}),
          high |-> H # {},
          highStatus |-> WorstOf({"Good"} \cup {log[i].status : i \in H})]
  BY DEF Reference, V, H, W
<1>16. QED
  BY ONLY <1>4, <1>5, <1>7, <1>8, <1>10, <1>11, <1>12, <1>13, <1>14, <1>15

-----------------------------------------------------------------------------

(* Points that are merged.                                                 *)

(* The image of a finite set under a function is finite, and not larger. *)
LEMMA FiniteImage ==
  ASSUME NEW S, IsFiniteSet(S), NEW f
  PROVE  /\ IsFiniteSet({f[x] : x \in S})
         /\ Cardinality({f[x] : x \in S}) <= Cardinality(S)
<1> DEFINE T == {f[x] : x \in S}
           g == [x \in S |-> f[x]]
<1>1. g \in Surjection(S, T)
  BY DEF Surjection
<1> HIDE DEF T, g
<1>2. IsFiniteSet(T) /\ Cardinality(T) <= Cardinality(S)
  BY ONLY <1>1, IsFiniteSet(S), FS_Surjection
<1>3. QED
  BY <1>2 DEF T

(* Each point of G says what the samples Q of it are, and points are in the
   order of their samples. *)
InOrder(l, G, Q) ==
  /\ l \in Seq(Sample) /\ IsFiniteSet(G) /\ G # {}
  /\ \A p \in G :
       /\ Q[p] \in SUBSET (1..Len(l)) /\ Q[p] # {}
       /\ Says(l, p, Q[p])
       /\ p.high = (High(l, Q[p]) # {})
       /\ p.from \in Nat
  /\ \A p, q \in G : p # q =>
       \/ p.from < q.from /\ \A i \in Q[p], j \in Q[q] : i < j
       \/ q.from < p.from /\ \A i \in Q[p], j \in Q[q] : j < i

(* The samples of all of them. *)
Together(Q, G) == UNION {Q[p] : p \in G}

Usable(G) == {p \in G : p.count > 0}

(* The usable points are those that have samples with a value. *)
LEMMA UsableHaveValues ==
  ASSUME NEW l, NEW G, NEW Q, InOrder(l, G, Q)
  PROVE  /\ \A p \in G : p.count \in Nat /\ (p.count > 0 <=> Values(l, Q[p]) # {})
         /\ IsFiniteSet(Usable(G))
         /\ \A p \in G : IsFiniteSet(Values(l, Q[p])) /\ Values(l, Q[p]) \subseteq Q[p]
         /\ \A p \in G : \A i \in Q[p] :
              /\ l[i] \in Sample /\ l[i].value \in Nat /\ l[i].status \in Status
              /\ i \in 1..Len(l) /\ i \in Nat
              /\ ValueOf(l)[i] = l[i].value
         /\ Values(l, UNION {Q[p] : p \in G}) = UNION {Values(l, Q[p]) : p \in Usable(G)}
         /\ High(l, UNION {Q[p] : p \in G}) = UNION {High(l, Q[p]) : p \in G}
<1>1. l \in Seq(Sample) /\ Len(l) \in Nat /\ \A p \in G : Q[p] \in SUBSET (1..Len(l))
  BY DEF InOrder
<1>2. \A p \in G :
        /\ IsFiniteSet(Values(l, Q[p])) /\ Values(l, Q[p]) \subseteq Q[p]
        /\ \A i \in Q[p] : l[i] \in Sample /\ ValueOf(l)[i] = l[i].value
  BY ONLY <1>1, Numbers
<1>3. \A p \in G : p.count = Cardinality(Values(l, Q[p]))
  BY DEF InOrder, Says, SaysCount
<1>4. \A p \in G : p.count \in Nat /\ (p.count > 0 <=> Values(l, Q[p]) # {})
  <2>1. \A p \in G : p.count \in Nat
    BY <1>2, <1>3, FS_CardinalityType
  <2>2. \A p \in G : p.count = 0 <=> Values(l, Q[p]) = {}
    BY <1>2, <1>3, FS_EmptySet
  <2>3. QED
    BY <2>1, <2>2
<1>5. IsFiniteSet(Usable(G))
  BY FS_Subset DEF InOrder, Usable
<1>6. \A p \in G : \A i \in Q[p] :
        l[i].value \in Nat /\ l[i].status \in Status /\ i \in 1..Len(l) /\ i \in Nat
  BY <1>1, <1>2, SampleFields
<1>7. Values(l, UNION {Q[p] : p \in G}) = UNION {Values(l, Q[p]) : p \in Usable(G)}
  <2>1. ASSUME NEW i \in Values(l, UNION {Q[p] : p \in G})
        PROVE  i \in UNION {Values(l, Q[p]) : p \in Usable(G)}
    <3>1. PICK p \in G : i \in Q[p] /\ l[i].value # NoValue
      BY DEF Values
    <3>2. i \in Values(l, Q[p])
      BY <3>1 DEF Values
    <3>3. p \in Usable(G)
      BY <1>4, <3>2 DEF Usable
    <3>4. QED
      BY <3>2, <3>3
  <2>2. ASSUME NEW i \in UNION {Values(l, Q[p]) : p \in Usable(G)}
        PROVE  i \in Values(l, UNION {Q[p] : p \in G})
    BY DEF Values, Usable
  <2>3. QED
    BY <2>1, <2>2
<1>8. High(l, UNION {Q[p] : p \in G}) = UNION {High(l, Q[p]) : p \in G}
  BY DEF High
<1>9. QED
  BY <1>2, <1>4, <1>5, <1>6, <1>7, <1>8

(* The columns of a merged point. *)
LEMMA MergedFields ==
  ASSUME NEW G
  PROVE  LET m == GroupPoint(G) IN
         /\ m.from = Min({p.from : p \in G}) /\ m.to = Max({p.to : p \in G})
         /\ m.total = SumFunction([p \in Usable(G) |-> p.total])
         /\ m.count = SumFunction([p \in Usable(G) |-> p.count])
         /\ m.first = IF Usable(G) = {} THEN NoValue
                      ELSE (CHOOSE p \in Usable(G) : \A q \in Usable(G) : p.from <= q.from).first
         /\ m.last = IF Usable(G) = {} THEN NoValue
                     ELSE (CHOOSE p \in Usable(G) : \A q \in Usable(G) : q.from <= p.from).last
         /\ m.minimum = IF Usable(G) = {} THEN NoValue ELSE Min({p.minimum : p \in Usable(G)})
         /\ m.maximum = IF Usable(G) = {} THEN NoValue ELSE Max({p.maximum : p \in Usable(G)})
         /\ m.status = WorstOf({p.status : p \in G})
         /\ m.high = (\E p \in G : p.high)
         /\ m.highStatus = WorstOf({p.highStatus : p \in G})
         /\ m = [from |-> m.from, to |-> m.to, total |-> m.total, count |-> m.count,
                 first |-> m.first, last |-> m.last, minimum |-> m.minimum,
                 maximum |-> m.maximum, status |-> m.status, high |-> m.high,
                 highStatus |-> m.highStatus]
BY DEF GroupPoint, Usable

(* The total of the points, and how many values they have. *)
LEMMA MergedTotal ==
  ASSUME NEW l, NEW G, NEW Q, InOrder(l, G, Q)
  PROVE  /\ SaysTotal(l, GroupPoint(G), Together(Q, G))
         /\ SaysCount(l, GroupPoint(G), Together(Q, G))
<1> DEFINE V  == [p \in Usable(G) |-> Values(l, Q[p])]
           ft == [p \in Usable(G) |-> p.total]
           fc == [p \in Usable(G) |-> p.count]
           one == [i \in 1..Len(l) |-> 1]
           A  == UNION {V[p] : p \in Usable(G)}
           f  == ValueOf(l)
           I  == Usable(G)
<1>1. I \subseteq G /\ IsFiniteSet(I)
  BY UsableHaveValues DEF Usable
<1>2. \A p \in I : V[p] = Values(l, Q[p]) /\ IsFiniteSet(V[p]) /\ V[p] \subseteq Q[p]
  BY <1>1, UsableHaveValues
<1>3. \A p, q \in I : p # q => V[p] \cap V[q] = {}
  <2>1. SUFFICES ASSUME NEW p \in I, NEW q \in I, p # q, NEW i \in V[p], i \in V[q] PROVE FALSE
    OBVIOUS
  <2>2. p \in G /\ q \in G /\ i \in Q[p] /\ i \in Q[q]
    BY <1>1, <1>2, <2>1
  <2>3. i \in Nat
    BY <2>2, UsableHaveValues
  <2>4. i < i
    BY <2>1, <2>2 DEF InOrder
  <2>5. QED
    BY <2>3, <2>4
<1>4. \A p \in I : \A i \in V[p] : f[i] \in Nat /\ one[i] \in Nat /\ one[i] = 1
  BY <1>1, <1>2, UsableHaveValues
<1>5. \A p \in I : ft[p] = SumFunctionOnSet(f, V[p])
  BY <1>1, <1>2 DEF InOrder, Says, SaysTotal
<1>6. \A p \in I : fc[p] = SumFunctionOnSet(one, V[p])
  <2>1. TAKE p \in I
  <2>2. SumFunctionOnSet(one, V[p]) = Cardinality(V[p])
    <3> DEFINE o == one
               s == V[p]
    <3>1. IsFiniteSet(s) /\ \A i \in s : o[i] = 1
      BY <1>2, <1>4
    <3> HIDE DEF o, s
    <3>2. SumFunctionOnSet(o, s) = Cardinality(s)
      BY ONLY <3>1, SumOfOnes
    <3>3. QED
      BY <3>2 DEF o, s
  <2>3. QED
    BY <1>1, <1>2, <2>2 DEF InOrder, Says, SaysCount
<1>7. A = Values(l, UNION {Q[p] : p \in G})
  BY <1>2, UsableHaveValues
<1>8. DOMAIN ft = I /\ DOMAIN fc = I
  OBVIOUS
<1>9. IsFiniteSet(A) /\ \A i \in A : one[i] = 1
  <2>1. IsFiniteSet({V[p] : p \in I})
    BY ONLY <1>1, FiniteImage
  <2>2. IsFiniteSet(A)
    BY ONLY <1>2, <2>1, FS_UNION
  <2>3. QED
    BY <1>4, <2>2
<1>10. A = UNION {V[p] : p \in I}
  OBVIOUS
<1> HIDE DEF V, ft, fc, one, A, f, I
<1>11. SumFunctionOnSet(ft, I) = SumFunctionOnSet(f, A)
  BY ONLY <1>1, <1>2, <1>3, <1>4, <1>5, <1>10, SumPartition
<1>12. SumFunctionOnSet(fc, I) = SumFunctionOnSet(one, A)
  BY ONLY <1>1, <1>2, <1>3, <1>4, <1>6, <1>10, SumPartition
<1>13. SumFunctionOnSet(one, A) = Cardinality(A)
  BY ONLY <1>9, SumOfOnes
<1>14. GroupPoint(G).total = SumFunctionOnSet(ft, I) /\ GroupPoint(G).count = SumFunctionOnSet(fc, I)
  <2>1. GroupPoint(G).total = SumFunction(ft) /\ GroupPoint(G).count = SumFunction(fc)
    BY MergedFields DEF ft, fc
  <2>2. QED
    BY <2>1, <1>8 DEF SumFunction
<1>15. QED
  BY <1>7, <1>11, <1>12, <1>13, <1>14 DEF SaysTotal, SaysCount, Together, f

(* The first and the last value of the points. *)
LEMMA MergedEnds ==
  ASSUME NEW l, NEW G, NEW Q, InOrder(l, G, Q)
  PROVE  /\ SaysFirst(l, GroupPoint(G), Together(Q, G))
         /\ SaysLast(l, GroupPoint(G), Together(Q, G))
<1> DEFINE U == UNION {Q[p] : p \in G}
           I == Usable(G)
           m == GroupPoint(G)
<1>1. /\ I \subseteq G /\ IsFiniteSet(I) /\ \A p \in G : p.from \in Nat
      /\ Values(l, U) = UNION {Values(l, Q[p]) : p \in I}
      /\ \A p \in I : Values(l, Q[p]) # {}
      /\ \A p \in G : Values(l, Q[p]) \subseteq Q[p] /\ \A i \in Q[p] : i \in Nat
  <2>1. /\ IsFiniteSet(I) /\ Values(l, U) = UNION {Values(l, Q[p]) : p \in I}
        /\ \A p \in G : p.count > 0 <=> Values(l, Q[p]) # {}
        /\ \A p \in G : Values(l, Q[p]) \subseteq Q[p]
        /\ \A p \in G : \A i \in Q[p] : i \in Nat /\ l[i].value \in Nat
    <3>1. IsFiniteSet(I) /\ Values(l, U) = UNION {Values(l, Q[p]) : p \in I}
      BY UsableHaveValues
    <3>2. \A p \in G : (p.count > 0 <=> Values(l, Q[p]) # {}) /\ Values(l, Q[p]) \subseteq Q[p]
      BY UsableHaveValues
    <3>3. \A p \in G : \A i \in Q[p] : i \in Nat /\ l[i].value \in Nat
      BY UsableHaveValues
    <3>4. QED
      BY ONLY <3>1, <3>2, <3>3
  <2>2. I \subseteq G /\ \A p \in I : p.count > 0
    BY DEF Usable
  <2> HIDE DEF I, U
  <2>3. QED
    BY <2>1, <2>2 DEF InOrder
<1>0. /\ I = {} => m.first = NoValue /\ m.last = NoValue
      /\ I # {} => /\ m.first = (CHOOSE p \in I : \A q \in I : p.from <= q.from).first
                   /\ m.last = (CHOOSE p \in I : \A q \in I : q.from <= p.from).last
  BY MergedFields
<1> SUFFICES SaysFirst(l, m, U) /\ SaysLast(l, m, U)
  BY DEF Together
<1> HIDE DEF U, I, m
<1>2. CASE I = {}
  <2>1. Values(l, U) = {}
    BY <1>1, <1>2
  <2>2. QED
    BY <1>0, <1>2, <2>1 DEF SaysFirst, SaysLast
<1>3. CASE I # {}
  <2>1. Values(l, U) # {}
    BY <1>1, <1>3
  <2>2. \A p, q \in I : p # q =>
          \/ p.from < q.from /\ \A i \in Values(l, Q[p]), j \in Values(l, Q[q]) : i < j
          \/ q.from < p.from /\ \A i \in Values(l, Q[p]), j \in Values(l, Q[q]) : j < i
    <3>1. TAKE p, q \in I
    <3>2. p \in G /\ q \in G /\ Values(l, Q[p]) \subseteq Q[p] /\ Values(l, Q[q]) \subseteq Q[q]
      BY <1>1
    <3>3. QED
      BY <3>2 DEF InOrder
  <2>3. SaysFirst(l, m, U)
    <3> DEFINE e == CHOOSE p \in I : \A q \in I : p.from <= q.from
    <3>1. \E p \in I : \A q \in I : p.from <= q.from
      <4> DEFINE F == {p.from : p \in I}
      <4>1. F \in SUBSET Nat /\ F # {}
        BY <1>1, <1>3
      <4> HIDE DEF F
      <4>2. PICK x \in F : \A y \in F : x <= y
        BY ONLY <4>1, Smallest
      <4>3. QED
        BY <4>2 DEF F
    <3>2. e \in I /\ \A q \in I : e.from <= q.from
      BY <3>1
    <3>3. m.first = e.first
      BY <1>0, <1>3
    <3> HIDE DEF e
    <3>4. PICK i \in Values(l, Q[e]) : e.first = l[i].value /\ \A j \in Values(l, Q[e]) : i <= j
      BY <1>1, <3>2 DEF InOrder, Says, SaysFirst
    <3>5. i \in Values(l, U)
      BY <1>1, <3>2
    <3>6. ASSUME NEW j \in Values(l, U) PROVE i <= j
      <4>1. PICK q \in I : j \in Values(l, Q[q])
        BY <1>1
      <4>2. i \in Nat /\ j \in Nat /\ e.from \in Nat /\ q.from \in Nat /\ e.from <= q.from
        BY <1>1, <3>2, <4>1
      <4>3. CASE q = e
        BY <3>4, <4>1, <4>3
      <4>4. CASE q # e
        <5>1. ~(q.from < e.from)
          BY <4>2
        <5>2. i < j
          BY <2>2, <3>2, <4>1, <4>4, <5>1
        <5>3. QED
          BY <4>2, <5>2
      <4>5. QED
        BY <4>3, <4>4
    <3>7. QED
      BY <2>1, <3>3, <3>4, <3>5, <3>6 DEF SaysFirst
  <2>4. SaysLast(l, m, U)
    <3> DEFINE e == CHOOSE p \in I : \A q \in I : q.from <= p.from
    <3>1. \E p \in I : \A q \in I : q.from <= p.from
      <4> DEFINE f == [p \in I |-> p.from]
                 F == {f[p] : p \in I}
      <4>1. F \in SUBSET Nat /\ F # {}
        BY <1>1, <1>3
      <4>2. IsFiniteSet(F)
        BY ONLY <1>1, FiniteImage
      <4> HIDE DEF F
      <4>3. PICK x \in F : \A y \in F : y <= x
        BY ONLY <4>1, <4>2, Greatest
      <4>4. QED
        BY <4>3 DEF F
    <3>2. e \in I /\ \A q \in I : q.from <= e.from
      BY <3>1
    <3>3. m.last = e.last
      BY <1>0, <1>3
    <3> HIDE DEF e
    <3>4. PICK i \in Values(l, Q[e]) : e.last = l[i].value /\ \A j \in Values(l, Q[e]) : j <= i
      BY <1>1, <3>2 DEF InOrder, Says, SaysLast
    <3>5. i \in Values(l, U)
      BY <1>1, <3>2
    <3>6. ASSUME NEW j \in Values(l, U) PROVE j <= i
      <4>1. PICK q \in I : j \in Values(l, Q[q])
        BY <1>1
      <4>2. i \in Nat /\ j \in Nat /\ e.from \in Nat /\ q.from \in Nat /\ q.from <= e.from
        BY <1>1, <3>2, <4>1
      <4>3. CASE q = e
        BY <3>4, <4>1, <4>3
      <4>4. CASE q # e
        <5>1. ~(e.from < q.from)
          BY <4>2
        <5>2. j < i
          BY <2>2, <3>2, <4>1, <4>4, <5>1
        <5>3. QED
          BY <4>2, <5>2
      <4>5. QED
        BY <4>3, <4>4
    <3>7. QED
      BY <2>1, <3>3, <3>4, <3>5, <3>6 DEF SaysLast
  <2>5. QED
    BY <2>3, <2>4
<1>4. QED
  BY <1>2, <1>3

(* The extremes of the points. *)
LEMMA MergedExtremes ==
  ASSUME NEW l, NEW G, NEW Q, InOrder(l, G, Q)
  PROVE  /\ SaysMinimum(l, GroupPoint(G), Together(Q, G))
         /\ SaysMaximum(l, GroupPoint(G), Together(Q, G))
<1> DEFINE U == UNION {Q[p] : p \in G}
           I == Usable(G)
           m == GroupPoint(G)
<1>1. /\ I \subseteq G /\ IsFiniteSet(I)
      /\ Values(l, U) = UNION {Values(l, Q[p]) : p \in I}
      /\ \A p \in I : Values(l, Q[p]) # {}
      /\ \A p \in G : Values(l, Q[p]) \subseteq Q[p] /\ \A i \in Q[p] : l[i].value \in Nat
  <2>1. /\ IsFiniteSet(I) /\ Values(l, U) = UNION {Values(l, Q[p]) : p \in I}
        /\ \A p \in G : p.count > 0 <=> Values(l, Q[p]) # {}
        /\ \A p \in G : Values(l, Q[p]) \subseteq Q[p]
        /\ \A p \in G : \A i \in Q[p] : i \in Nat /\ l[i].value \in Nat
    <3>1. IsFiniteSet(I) /\ Values(l, U) = UNION {Values(l, Q[p]) : p \in I}
      BY UsableHaveValues
    <3>2. \A p \in G : (p.count > 0 <=> Values(l, Q[p]) # {}) /\ Values(l, Q[p]) \subseteq Q[p]
      BY UsableHaveValues
    <3>3. \A p \in G : \A i \in Q[p] : i \in Nat /\ l[i].value \in Nat
      BY UsableHaveValues
    <3>4. QED
      BY ONLY <3>1, <3>2, <3>3
  <2>2. I \subseteq G /\ \A p \in I : p.count > 0
    BY DEF Usable
  <2> HIDE DEF I, U
  <2>3. QED
    BY <2>1, <2>2
<1>0. /\ I = {} => m.minimum = NoValue /\ m.maximum = NoValue
      /\ I # {} => /\ m.minimum = Min({p.minimum : p \in I})
                   /\ m.maximum = Max({p.maximum : p \in I})
  BY MergedFields
<1> SUFFICES SaysMinimum(l, m, U) /\ SaysMaximum(l, m, U)
  BY DEF Together
<1> HIDE DEF U, I, m
<1>2. CASE I = {}
  <2>1. Values(l, U) = {}
    BY <1>1, <1>2
  <2>2. QED
    BY <1>0, <1>2, <2>1 DEF SaysMinimum, SaysMaximum
<1>3. CASE I # {}
  <2>1. Values(l, U) # {}
    BY <1>1, <1>3
  <2>2. SaysMinimum(l, m, U)
    <3> DEFINE F == {p.minimum : p \in I}
    <3>1. \A p \in I : \E i \in Values(l, Q[p]) :
            p.minimum = l[i].value /\ \A j \in Values(l, Q[p]) : l[i].value <= l[j].value
      BY <1>1 DEF InOrder, Says, SaysMinimum
    <3>2. F \in SUBSET Nat /\ F # {}
      BY <1>1, <1>3, <3>1
    <3> HIDE DEF F
    <3>3. PICK x \in F : \A y \in F : x <= y
      BY ONLY <3>2, Smallest
    <3>4. Min(F) = x
      BY ONLY <3>2, <3>3, ExtremesAre
    <3>5. PICK p \in I : x = p.minimum
      BY DEF F
    <3>6. PICK i \in Values(l, Q[p]) : p.minimum = l[i].value
      BY <3>1
    <3>7. m.minimum = l[i].value
      BY <1>0, <1>3, <3>4, <3>5, <3>6 DEF F
    <3>8. i \in Values(l, U) /\ l[i].value \in Nat
      BY <1>1
    <3>9. ASSUME NEW j \in Values(l, U) PROVE l[i].value <= l[j].value
      <4>1. PICK q \in I : j \in Values(l, Q[q])
        BY <1>1
      <4>2. PICK k \in Values(l, Q[q]) : q.minimum = l[k].value /\ l[k].value <= l[j].value
        BY <3>1, <4>1
      <4>3. x <= q.minimum
        BY <3>3 DEF F
      <4>4. l[k].value \in Nat /\ l[j].value \in Nat
        BY <1>1, <4>1
      <4>5. QED
        BY <3>5, <3>6, <3>8, <4>2, <4>3, <4>4
    <3>10. QED
      BY <2>1, <3>7, <3>8, <3>9 DEF SaysMinimum
  <2>3. SaysMaximum(l, m, U)
    <3> DEFINE f == [p \in I |-> p.maximum]
               F == {f[p] : p \in I}
    <3>1. \A p \in I : \E i \in Values(l, Q[p]) :
            p.maximum = l[i].value /\ \A j \in Values(l, Q[p]) : l[j].value <= l[i].value
      BY <1>1 DEF InOrder, Says, SaysMaximum
    <3>2. F \in SUBSET Nat /\ F # {} /\ F = {p.maximum : p \in I}
      BY <1>1, <1>3, <3>1
    <3>3. IsFiniteSet(F)
      BY ONLY <1>1, FiniteImage
    <3> HIDE DEF F
    <3>4. PICK x \in F : \A y \in F : y <= x
      BY ONLY <3>2, <3>3, Greatest
    <3>5. Max(F) = x
      BY ONLY <3>2, <3>4, ExtremesAre
    <3>6. PICK p \in I : x = p.maximum
      BY <3>2
    <3>7. PICK i \in Values(l, Q[p]) : p.maximum = l[i].value
      BY <3>1
    <3>8. m.maximum = l[i].value
      BY <1>0, <1>3, <3>2, <3>5, <3>6, <3>7
    <3>9. i \in Values(l, U) /\ l[i].value \in Nat
      BY <1>1
    <3>10. ASSUME NEW j \in Values(l, U) PROVE l[j].value <= l[i].value
      <4>1. PICK q \in I : j \in Values(l, Q[q])
        BY <1>1
      <4>2. PICK k \in Values(l, Q[q]) : q.maximum = l[k].value /\ l[j].value <= l[k].value
        BY <3>1, <4>1
      <4>3. q.maximum <= x
        BY <3>2, <3>4
      <4>4. l[k].value \in Nat /\ l[j].value \in Nat
        BY <1>1, <4>1
      <4>5. QED
        BY <3>6, <3>7, <3>9, <4>2, <4>3, <4>4
    <3>11. QED
      BY <2>1, <3>8, <3>9, <3>10 DEF SaysMaximum
  <2>4. QED
    BY <2>2, <2>3
<1>4. QED
  BY <1>2, <1>3

(* The statuses of the points. *)
LEMMA MergedStatuses ==
  ASSUME NEW l, NEW G, NEW Q, InOrder(l, G, Q)
  PROVE  /\ SaysStatus(l, GroupPoint(G), Together(Q, G))
         /\ SaysHighStatus(l, GroupPoint(G), Together(Q, G))
         /\ GroupPoint(G).high = (High(l, Together(Q, G)) # {})
<1> DEFINE U == UNION {Q[p] : p \in G}
           m == GroupPoint(G)
<1>1. /\ High(l, U) = UNION {High(l, Q[p]) : p \in G}
      /\ \A p \in G : \A i \in Q[p] : l[i].status \in Status /\ Rank[l[i].status] \in Nat
      /\ \A p \in G : High(l, Q[p]) \subseteq Q[p]
      /\ G # {} /\ \A p \in G : Q[p] # {}
  <2>1. /\ High(l, U) = UNION {High(l, Q[p]) : p \in G}
        /\ \A p \in G : \A i \in Q[p] : l[i].status \in Status
    BY UsableHaveValues
  <2>2. \A p \in G : High(l, Q[p]) \subseteq Q[p]
    BY DEF High
  <2>3. G # {} /\ \A p \in G : Q[p] # {}
    BY DEF InOrder
  <2>4. QED
    BY <2>1, <2>2, <2>3, Ranks
<1>0. U = UNION {Q[p] : p \in G}
  OBVIOUS
<1>5. /\ m.status = WorstOf({p.status : p \in G}) /\ m.high = (\E p \in G : p.high)
      /\ m.highStatus = WorstOf({p.highStatus : p \in G})
  BY MergedFields
<1> HIDE DEF m, U
<1>2. SaysStatus(l, m, U)
  <2> DEFINE X == {p.status : p \in G}
  <2>1. \A p \in G : \E i \in Q[p] :
          p.status = l[i].status /\ \A j \in Q[p] : Rank[l[j].status] <= Rank[l[i].status]
    BY <1>1 DEF InOrder, Says, SaysStatus
  <2>2. X \in SUBSET Status /\ X # {}
    BY <1>1, <2>1
  <2> HIDE DEF X
  <2>3. WorstOf(X) \in X /\ \A q \in X : Rank[q] <= Rank[WorstOf(X)]
    BY ONLY <2>2, WorstExists
  <2>4. m.status = WorstOf(X)
    BY <1>5 DEF X
  <2>5. PICK p \in G : WorstOf(X) = p.status
    BY <2>3 DEF X
  <2>6. PICK i \in Q[p] : p.status = l[i].status
    BY <2>1
  <2>7. ASSUME NEW j \in U PROVE Rank[l[j].status] <= Rank[l[i].status]
    <3>1. PICK q \in G : j \in Q[q]
      BY <1>0
    <3>2. PICK k \in Q[q] : q.status = l[k].status /\ Rank[l[j].status] <= Rank[l[k].status]
      BY <2>1, <3>1
    <3>3. Rank[q.status] <= Rank[p.status]
      BY <2>3, <2>5 DEF X
    <3>4. /\ Rank[l[j].status] \in Nat /\ Rank[l[k].status] \in Nat /\ Rank[l[i].status] \in Nat
      BY <1>1, <3>1
    <3>5. QED
      BY <2>6, <3>2, <3>3, <3>4
  <2>8. i \in U /\ m.status = l[i].status
    BY <1>0, <2>4, <2>5, <2>6
  <2>9. QED
    BY <2>7, <2>8 DEF SaysStatus
<1>3. SaysHighStatus(l, m, U)
  <2> DEFINE X == {p.highStatus : p \in G}
  <2>1. \A p \in G :
          /\ p.highStatus = "Good" \/ \E i \in High(l, Q[p]) : p.highStatus = l[i].status
          /\ \A j \in High(l, Q[p]) : Rank[l[j].status] <= Rank[p.highStatus]
    BY DEF InOrder, Says, SaysHighStatus
  <2>2. X \in SUBSET Status /\ X # {}
    <3>1. \A p \in G : p.highStatus \in Status
      BY <1>1, <2>1, Ranks
    <3>2. QED
      BY <1>1, <3>1
  <2> HIDE DEF X
  <2>3. WorstOf(X) \in X /\ \A q \in X : Rank[q] <= Rank[WorstOf(X)]
    BY ONLY <2>2, WorstExists
  <2>4. m.highStatus = WorstOf(X)
    BY <1>5 DEF X
  <2>5. PICK p \in G : WorstOf(X) = p.highStatus
    BY <2>3 DEF X
  <2>6. m.highStatus = "Good" \/ \E i \in High(l, U) : m.highStatus = l[i].status
    BY <1>1, <2>1, <2>4, <2>5
  <2>7. ASSUME NEW j \in High(l, U) PROVE Rank[l[j].status] <= Rank[m.highStatus]
    <3>1. PICK q \in G : j \in High(l, Q[q])
      BY <1>1
    <3>2. Rank[l[j].status] <= Rank[q.highStatus]
      BY <2>1, <3>1
    <3>3. q.highStatus \in X
      BY DEF X
    <3>4. Rank[q.highStatus] <= Rank[m.highStatus]
      BY <2>3, <2>4, <3>3
    <3>5. Rank[l[j].status] \in Nat /\ Rank[q.highStatus] \in Nat /\ Rank[m.highStatus] \in Nat
      BY <1>1, <2>2, <2>3, <2>4, <3>1, <3>3, Ranks
    <3>6. QED
      BY ONLY <3>2, <3>4, <3>5
  <2>8. QED
    BY <2>6, <2>7 DEF SaysHighStatus
<1>4. m.high = (High(l, U) # {})
  <2>1. m.high = (\E p \in G : p.high)
    BY <1>5
  <2>2. \A p \in G : p.high = (High(l, Q[p]) # {})
    BY DEF InOrder
  <2>3. (\E p \in G : p.high) <=> High(l, U) # {}
    <3>1. \A p \in G : p.high <=> High(l, Q[p]) # {}
      BY <2>2
    <3>2. (\E p \in G : p.high) <=> \E p \in G : High(l, Q[p]) # {}
      BY ONLY <3>1
    <3>3. High(l, U) # {} <=> \E p \in G : High(l, Q[p]) # {}
      <4>1. \A i : i \in High(l, U) <=> \E p \in G : i \in High(l, Q[p])
        BY <1>1
      <4>2. QED
        BY ONLY <4>1
    <3>4. QED
      BY ONLY <3>2, <3>3
  <2>4. QED
    BY <2>1, <2>3
<1>6. QED
  BY <1>2, <1>3, <1>4 DEF m, U, Together

(* A merged point says what the samples of its points are. *)
LEMMA MergedSays ==
  ASSUME NEW l, NEW G, NEW Q, InOrder(l, G, Q)
  PROVE  /\ Says(l, GroupPoint(G), Together(Q, G))
         /\ GroupPoint(G).high = (High(l, Together(Q, G)) # {})
BY MergedTotal, MergedEnds, MergedExtremes, MergedStatuses DEF Says

(* From when to when a merged point is. *)
LEMMA MergedSpan ==
  ASSUME NEW G, IsFiniteSet(G), G # {}, \A p \in G : p.from \in Nat /\ p.to = p.from
  PROVE  /\ \E p \in G : GroupPoint(G).from = p.from /\ \A q \in G : p.from <= q.from
         /\ \E p \in G : GroupPoint(G).to = p.from /\ \A q \in G : q.from <= p.from
<1> DEFINE f == [p \in G |-> p.from]
           F == {f[p] : p \in G}
           m == GroupPoint(G)
<1>1. F \in SUBSET Nat /\ F # {} /\ F = {p.from : p \in G} /\ F = {p.to : p \in G}
  OBVIOUS
<1>2. IsFiniteSet(F)
  BY ONLY FiniteImage, IsFiniteSet(G)
<1>3. m.from = Min(F) /\ m.to = Max(F)
  BY <1>1, MergedFields
<1> HIDE DEF F, m
<1>4. PICK x \in F : \A y \in F : x <= y
  BY ONLY <1>1, Smallest
<1>5. PICK z \in F : \A y \in F : y <= z
  BY ONLY <1>1, <1>2, Greatest
<1>6. Min(F) = x /\ Max(F) = z
  BY ONLY <1>1, <1>4, <1>5, ExtremesAre
<1>7. \E p \in G : m.from = p.from /\ \A q \in G : p.from <= q.from
  BY <1>1, <1>3, <1>4, <1>6
<1>8. \E p \in G : m.to = p.from /\ \A q \in G : q.from <= p.from
  BY <1>1, <1>3, <1>5, <1>6
<1>9. QED
  BY <1>7, <1>8 DEF m

(* Points at different times. *)
Apart(points) ==
  /\ IsFiniteSet(points) /\ \A p \in points : p.from \in Nat
  /\ \A p, q \in points : p # q => p.from # q.from

(* A point's turn is a number, which grows with its time and is bounded. *)
LEMMA Turns ==
  ASSUME NEW points, Apart(points), NEW width \in Nat \ {0}
  PROVE  /\ \A p \in points : Turn(points, width, p) \in Nat
         /\ \A p \in points : width * Turn(points, width, p) < Cardinality(points)
         /\ \A p, q \in points :
              p.from <= q.from => Turn(points, width, p) <= Turn(points, width, q)
<1> DEFINE before(p) == {q \in points : q.from < p.from}
           n(p) == Cardinality(before(p))
<1>1. \A p \in points : n(p) \in Nat /\ IsFiniteSet(before(p))
  BY FS_Subset, FS_CardinalityType DEF Apart
<1>2. \A p \in points : n(p) < Cardinality(points)
  <2>1. TAKE p \in points
  <2>2. p \in points \ before(p) /\ before(p) \in SUBSET points /\ IsFiniteSet(points)
    BY DEF Apart
  <2> DEFINE b == before(p)
  <2> HIDE DEF b
  <2>3. Cardinality(b) <= Cardinality(points) /\ Cardinality(b) # Cardinality(points)
    <3>1. b \in SUBSET points /\ b # points
      BY <2>2 DEF b
    <3>2. QED
      BY ONLY <2>2, <3>1, FS_Subset
  <2>4. Cardinality(b) \in Nat /\ Cardinality(points) \in Nat
    BY <1>1, <2>2, FS_CardinalityType DEF b
  <2>5. Cardinality(b) < Cardinality(points)
    BY ONLY <2>3, <2>4
  <2>6. QED
    BY <2>5 DEF b
<1>3. \A p, q \in points : p.from <= q.from => n(p) <= n(q)
  <2>1. SUFFICES ASSUME NEW p \in points, NEW q \in points, p.from <= q.from PROVE n(p) <= n(q)
    OBVIOUS
  <2>2. before(p) \in SUBSET before(q)
    BY <2>1 DEF Apart
  <2> DEFINE a == before(p)
             b == before(q)
  <2>3. IsFiniteSet(b)
    BY <1>1
  <2> HIDE DEF a, b
  <2>4. a \in SUBSET b
    BY <2>2 DEF a, b
  <2>5. Cardinality(a) <= Cardinality(b)
    BY ONLY <2>3, <2>4, FS_Subset
  <2>6. QED
    BY <2>5 DEF a, b
<1>4. \A p : Turn(points, width, p) = n(p) \div width
  BY DEF Turn
<1>5. Cardinality(points) \in Nat
  BY FS_CardinalityType DEF Apart
<1> HIDE DEF n
<1>6. \A p \in points : n(p) \div width \in Nat /\ width * (n(p) \div width) <= n(p)
  BY ONLY <1>1, DivBounds, width \in Nat \ {0}
<1>7. \A p, q \in points : n(p) <= n(q) => n(p) \div width <= n(q) \div width
  BY ONLY <1>1, DivMono, width \in Nat \ {0}
<1>8. \A p \in points : width * (n(p) \div width) < Cardinality(points)
  <2>1. TAKE p \in points
  <2> DEFINE x == width * (n(p) \div width)
  <2>2. x \in Nat
    BY <1>6
  <2>3. x <= n(p) /\ n(p) < Cardinality(points) /\ n(p) \in Nat
    BY <1>1, <1>2, <1>6
  <2> HIDE DEF x
  <2>4. x < Cardinality(points)
    BY ONLY <2>2, <2>3, <1>5
  <2>5. QED
    BY <2>4 DEF x
<1>9. QED
  BY <1>3, <1>4, <1>6, <1>7, <1>8

(* The points are in groups, one after the other, without one between two of
   a group. *)
LEMMA GroupsPart ==
  ASSUME NEW points, Apart(points), NEW width \in Nat \ {0}
  PROVE  /\ \A g \in Groups(points, width) : g # {} /\ g \subseteq points /\ IsFiniteSet(g)
         /\ \A p \in points : \E g \in Groups(points, width) : p \in g
         /\ \A g, h \in Groups(points, width) : g # h =>
              \/ \A p \in g, q \in h : p.from < q.from
              \/ \A p \in g, q \in h : q.from < p.from
         /\ \A g \in Groups(points, width) : \A p, q \in g, r \in points :
              p.from <= r.from /\ r.from <= q.from => r \in g
<1> DEFINE t(p) == Turn(points, width, p)
           group(p) == {q \in points : t(q) = t(p)}
<1>1. /\ \A p \in points : t(p) \in Nat /\ p.from \in Nat
      /\ \A p, q \in points : p.from <= q.from => t(p) <= t(q)
      /\ IsFiniteSet(points)
  BY Turns DEF Apart
<1>2. \A p, q \in points : t(p) < t(q) => p.from < q.from
  <2>1. SUFFICES ASSUME NEW p \in points, NEW q \in points, t(p) < t(q), ~(p.from < q.from)
                 PROVE FALSE
    OBVIOUS
  <2>2. q.from <= p.from
    BY <1>1, <2>1
  <2>3. t(q) <= t(p) /\ t(p) \in Nat /\ t(q) \in Nat
    BY <1>1, <2>2
  <2>4. QED
    BY ONLY <2>1, <2>3
<1> HIDE DEF t
<1>3. \A g \in Groups(points, width) : \E p \in points : g = group(p)
  BY DEF Groups, t
<1>4. \A p \in points : group(p) \in Groups(points, width) /\ p \in group(p)
  BY DEF Groups, t
<1>5. \A g \in Groups(points, width) : g # {} /\ g \subseteq points
  BY <1>3, <1>4
<1>6. \A g \in Groups(points, width) : IsFiniteSet(g)
  BY ONLY <1>1, <1>5, FS_Subset
<1>7. ASSUME NEW g \in Groups(points, width), NEW h \in Groups(points, width), g # h
      PROVE  \/ \A p \in g, q \in h : p.from < q.from
             \/ \A p \in g, q \in h : q.from < p.from
  <2>1. PICK x \in points : g = group(x)
    BY <1>3
  <2>2. PICK y \in points : h = group(y)
    BY <1>3
  <2>3. t(x) # t(y)
    BY <1>7, <2>1, <2>2
  <2>4. t(x) < t(y) \/ t(y) < t(x)
    BY <1>1, <2>3
  <2>5. CASE t(x) < t(y)
    BY <1>2, <2>1, <2>2, <2>5
  <2>6. CASE t(y) < t(x)
    BY <1>2, <2>1, <2>2, <2>6
  <2>7. QED
    BY <2>4, <2>5, <2>6
<1>8. ASSUME NEW g \in Groups(points, width), NEW p \in g, NEW q \in g, NEW r \in points,
             p.from <= r.from, r.from <= q.from
      PROVE  r \in g
  <2>1. PICK x \in points : g = group(x)
    BY <1>3
  <2>2. p \in points /\ q \in points /\ t(p) = t(x) /\ t(q) = t(x)
    BY <2>1
  <2>3. t(p) <= t(r) /\ t(r) <= t(q) /\ t(p) \in Nat /\ t(r) \in Nat /\ t(q) \in Nat
    BY <1>1, <1>8, <2>2
  <2>4. t(r) = t(x)
    BY ONLY <2>2, <2>3
  <2>5. QED
    BY <2>1, <2>4
<1>9. QED
  BY <1>4, <1>5, <1>6, <1>7, <1>8

(* There are no more groups than points were asked for. *)
LEMMA GroupsFit ==
  ASSUME NEW points, Apart(points), NEW limit \in Nat \ {0}
  PROVE  LET width == Width(Cardinality(points), limit) IN
         /\ width \in Nat \ {0}
         /\ IsFiniteSet(Groups(points, width)) /\ Cardinality(Groups(points, width)) <= limit
<1> DEFINE n == Cardinality(points)
           width == Width(n, limit)
           c == Ceiling(n, limit)
           t(p) == Turn(points, width, p)
           Gs == Groups(points, width)
<1>1. n \in Nat /\ IsFiniteSet(points)
  BY FS_CardinalityType DEF Apart
<1> HIDE DEF n
<1>2. c \in Nat /\ n <= limit * c
  <2> DEFINE a == n + limit - 1
  <2>1. a \in Nat
    BY <1>1
  <2>2. c = a \div limit
    BY DEF Ceiling
  <2> HIDE DEF a, c
  <2>3. c \in Nat /\ a < limit * c + limit
    BY ONLY <2>1, <2>2, DivBounds, limit \in Nat \ {0}
  <2>4. limit * c \in Nat
    BY <2>3
  <2> DEFINE x == limit * c
  <2> HIDE DEF x
  <2>5. n <= x
    <3>1. x \in Nat /\ n + limit - 1 < x + limit
      BY <2>3, <2>4 DEF a, x
    <3>2. QED
      BY ONLY <3>1, <1>1, limit \in Nat \ {0}
  <2>6. QED
    BY <2>3, <2>5 DEF x
<1> HIDE DEF c
<1>3. width \in Nat \ {0} /\ c <= width
  BY <1>2 DEF Width, Greater, c
<1> HIDE DEF width
<1>4. n <= limit * width
  <2>1. limit * c <= limit * width
    BY ONLY <1>2, <1>3, TimesMono, limit \in Nat \ {0}
  <2> DEFINE x == limit * c
             y == limit * width
  <2>2. x \in Nat /\ y \in Nat /\ n <= x /\ x <= y
    BY <1>2, <1>3, <2>1
  <2> HIDE DEF x, y
  <2>3. n <= y
    BY ONLY <1>1, <2>2
  <2>4. QED
    BY <2>3 DEF y
<1>5. \A p \in points : t(p) \in 0..(limit - 1)
  <2>1. TAKE p \in points
  <2>2. t(p) \in Nat /\ width * t(p) < n
    BY <1>3, Turns DEF n
  <2> DEFINE k == t(p)
  <2>3. width * k < width * limit
    <3> DEFINE x == width * k
               y == width * limit
    <3>1. limit * width = width * limit
      BY <1>3
    <3>2. x \in Nat /\ y \in Nat /\ x < n /\ n <= y
      BY <1>3, <1>4, <2>2, <3>1
    <3> HIDE DEF x, y
    <3>3. x < y
      BY ONLY <1>1, <3>2
    <3>4. QED
      BY <3>3 DEF x, y
  <2>4. k \in Nat
    BY <2>2
  <2> HIDE DEF k
  <2>5. k < limit
    BY ONLY <1>3, <2>4, <2>3, TimesLess, limit \in Nat \ {0}
  <2>6. QED
    BY <2>2, <2>5 DEF k
<1> DEFINE turnOf == [g \in Gs |-> t(CHOOSE p \in g : TRUE)]
<1>6. \A g \in Gs : g # {} /\ g \subseteq points
  BY <1>3, GroupsPart
<1>7. \A g \in Gs, p \in points : p \in g => g = {q \in points : t(q) = t(p)}
  BY DEF Groups
<1>8. turnOf \in Injection(Gs, 0..(limit - 1))
  <2> HIDE DEF Gs, t
  <2>1. \A g \in Gs : \E q \in points : q = (CHOOSE p \in g : TRUE) /\ q \in g /\ turnOf[g] = t(q)
    BY <1>6
  <2>2. turnOf \in [Gs -> 0..(limit - 1)]
    BY <1>5, <2>1
  <2>3. ASSUME NEW g \in Gs, NEW h \in Gs, turnOf[g] = turnOf[h] PROVE g = h
    <3>1. PICK p \in points : p \in g /\ turnOf[g] = t(p)
      BY <2>1
    <3>2. PICK q \in points : q \in h /\ turnOf[h] = t(q)
      BY <2>1
    <3>3. t(p) = t(q)
      BY <2>3, <3>1, <3>2
    <3>4. g = {x \in points : t(x) = t(p)} /\ h = {x \in points : t(x) = t(q)}
      BY <1>7, <3>1, <3>2
    <3>5. QED
      BY <3>3, <3>4
  <2>4. QED
    BY <2>2, <2>3 DEF Injection, IsInjective
<1>9. IsFiniteSet(0..(limit - 1)) /\ Cardinality(0..(limit - 1)) = limit
  <2>1. 0 \in Int /\ limit - 1 \in Int /\ ~(0 > limit - 1)
    OBVIOUS
  <2>2. IsFiniteSet(0..(limit - 1)) /\ Cardinality(0..(limit - 1)) = limit - 1 - 0 + 1
    BY ONLY <2>1, FS_Interval
  <2>3. QED
    BY <2>2
<1> HIDE DEF turnOf, Gs
<1>10. IsFiniteSet(Gs) /\ Cardinality(Gs) <= limit
  <2> DEFINE T == 0..(limit - 1)
  <2> HIDE DEF T
  <2>1. IsFiniteSet(T) /\ Cardinality(T) = limit /\ turnOf \in Injection(Gs, T)
    BY <1>8, <1>9 DEF T
  <2>2. IsFiniteSet(Gs) /\ Cardinality(Gs) <= Cardinality(T)
    BY ONLY <2>1, FS_Injection
  <2>3. QED
    BY <2>1, <2>2
<1>11. QED
  BY <1>3, <1>10 DEF Gs, width, n

-----------------------------------------------------------------------------

(* The invariant.                                                          *)

OrderedLog(l) ==
  /\ l \in Seq(Sample)
  /\ \A i, j \in 1..Len(l) : i < j => l[i].time < l[j].time

InMinute(l, b) == {i \in 1..Len(l) : Bucket(l[i].time) = b}

(* Row r says what the samples are that it has counted, which are of its
   minute and not among those in out, and none before them is left out. *)
RowOk(l, out, r) ==
  /\ r.of # {} /\ r.of \subseteq InMinute(l, r.bucket) /\ r.of \cap out = {}
  /\ RowSays(l, r, r.of)
  /\ \A i \in InMinute(l, r.bucket) \ (r.of \cup out) : \A j \in r.of : j < i

RowsOk(l, out, rows) ==
  /\ IsFiniteSet(rows)
  /\ \A p, q \in rows : p.bucket = q.bucket => p = q
  /\ \A r \in rows : RowOk(l, out, r)

(* What rows leave out: what a failure kept out, and the sample at work. *)
Out == missed.rollups \cup Underway

Old(l, now, i) == Bucket(l[i].time) * Minute + Age.rollups < now

(* Each sample is in a row, unless it is held elsewhere or old. *)
CountedOk(l, held, now, rows) ==
  \A i \in 1..Len(l) : i \in held \cup CountedBy(rows) \/ Old(l, now, i)

(* The tables of a store: its raw rows are samples, and all that are young
   enough, but for those that a failure kept out. *)
RawOk(l, lost, now, store) ==
  /\ DOMAIN store = Tables \cup {"rollups"} /\ store = [t \in DOMAIN store |-> store[t]]
  /\ \A t \in Tables : IsFiniteSet(store[t]) /\ \A r \in store[t] : \E i \in 1..Len(l) : r = l[i]
  /\ \A i \in (1..Len(l)) \ lost : l[i] \in store.fast \/ l[i].time + Age.fast < now

StoreOk(l, out, held, lost, now, store) ==
  /\ RowsOk(l, out, store.rollups)
  /\ CountedOk(l, out \cup held, now, store.rollups)
  /\ RawOk(l, lost, now, store)

(* The rollup in memory has all of its minute. *)
MemoryOk(l, out, held) ==
  /\ RowsOk(l, out, held)
  /\ \A p, q \in held : p = q
  /\ \A m \in held : InMinute(l, m.bucket) \subseteq m.of \cup out

LogInv ==
  /\ OrderedLog(log)
  /\ clock \in 0..MaxClock /\ Len(log) <= MaxSample /\ faults \in 0..MaxFault
  /\ \A i \in 1..Len(log) : log[i].time <= clock
  /\ pc \in {"idle", "sampled", "closed", "counted", "recorded"}
  /\ pc # "idle" => Len(log) > 0 /\ work = db

MissedInv ==
  /\ missed = [raw |-> missed.raw, rollups |-> missed.rollups]
  /\ missed.raw \subseteq 1..Len(log) /\ missed.rollups \subseteq 1..Len(log)
  /\ Underway \cap missed.rollups = {}

(* The sample at work is the next of its minute. *)
UnderwayInv ==
  Underway # {} => InMinute(log, ThisMinute) \subseteq Out \cup CountedBy(memory)
                                                       \cup CountedBy(db.rollups)

ClosedInv == pc = "closed" => memory \subseteq db.rollups

StoresInv ==
  \A store \in {work, db} : StoreOk(log, Out, CountedBy(memory), missed.raw, clock, store)

QueryInv ==
  \/ query = NoQuery
  \/ /\ query.at = "counted" /\ query.from \in Nat /\ query.to \in Nat
     /\ query.limit \in Nat \ {0} /\ query.tables \in SUBSET Tables /\ query.rows \in Nat
     /\ ~query.useRollup => query.rows <= query.limit

AnswerInv == answer.kind \in {"none", "raw", "rollup", "refused"}

RecorderInv ==
  /\ LogInv /\ MissedInv /\ UnderwayInv /\ ClosedInv /\ MemoryOk(log, Out, memory) /\ StoresInv

Inv == RecorderInv /\ QueryInv /\ AnswerInv

(* The minute of a time. *)
LEMMA Buckets ==
  /\ \A t \in Nat : Bucket(t) \in Nat /\ Minute * Bucket(t) <= t /\ t < Minute * Bucket(t) + Minute
  /\ \A t, u \in Nat : t <= u => Bucket(t) <= Bucket(u)
  /\ \A b \in Nat : Bucket(b * Minute) = b
<1>1. Minute \in Nat \ {0}
  BY Bounds
<1>2. \A t \in Nat : Bucket(t) \in Nat /\ Minute * Bucket(t) <= t /\ t < Minute * Bucket(t) + Minute
  BY <1>1, DivBounds DEF Bucket
<1>3. \A t, u \in Nat : t <= u => Bucket(t) <= Bucket(u)
  BY <1>1, DivMono DEF Bucket
<1>4. ASSUME NEW b \in Nat PROVE Bucket(b * Minute) = b
  <2> DEFINE t == b * Minute
             q == Bucket(t)
  <2>1. t \in Nat /\ t = Minute * b /\ Minute * (b + 1) = t + Minute
    BY <1>1
  <2>2. q \in Nat /\ Minute * q <= t /\ t < Minute * q + Minute /\ Minute * (q + 1) = Minute * q + Minute
    BY <1>1, <1>2, <2>1
  <2> HIDE DEF t, q
  <2>3. Minute * q < Minute * (b + 1) /\ Minute * b < Minute * (q + 1)
    <3> DEFINE x == Minute * q
    <3>1. x \in Nat /\ x <= t /\ t < x + Minute
      BY <1>1, <2>2
    <3> HIDE DEF x
    <3>2. x < t + Minute /\ t < x + Minute
      BY ONLY <1>1, <2>1, <3>1
    <3>3. QED
      BY <2>1, <2>2, <3>2 DEF x
  <2>4. q < b + 1 /\ b < q + 1
    BY <1>1, <2>2, <2>3, TimesLess
  <2>5. q = b
    BY ONLY <2>2, <2>4, b \in Nat
  <2>6. QED
    BY <2>5 DEF q, t
<1>5. QED
  BY <1>2, <1>3, <1>4

(* The minutes of a log. *)
LEMMA Minutes ==
  ASSUME NEW l, OrderedLog(l)
  PROVE  /\ Len(l) \in Nat
         /\ \A i \in 1..Len(l) : l[i] \in Sample /\ l[i].time \in Nat /\ Bucket(l[i].time) \in Nat
         /\ \A i, j \in 1..Len(l) : i <= j => Bucket(l[i].time) <= Bucket(l[j].time)
         /\ \A i, j \in 1..Len(l) : Bucket(l[i].time) < Bucket(l[j].time) => i < j
<1>1. Len(l) \in Nat /\ \A i \in 1..Len(l) : l[i] \in Sample /\ l[i].time \in Nat
  BY SampleFields DEF OrderedLog
<1>2. \A i \in 1..Len(l) : Bucket(l[i].time) \in Nat
  BY <1>1, Buckets
<1>3. \A i, j \in 1..Len(l) : i <= j => Bucket(l[i].time) <= Bucket(l[j].time)
  <2>1. SUFFICES ASSUME NEW i \in 1..Len(l), NEW j \in 1..Len(l), i <= j
                 PROVE  Bucket(l[i].time) <= Bucket(l[j].time)
    OBVIOUS
  <2>2. l[i].time <= l[j].time
    <3>1. i = j \/ i < j
      BY <1>1, <2>1
    <3>2. QED
      BY <1>1, <3>1 DEF OrderedLog
  <2>3. QED
    BY <1>1, <2>2, Buckets
<1>4. \A i, j \in 1..Len(l) : Bucket(l[i].time) < Bucket(l[j].time) => i < j
  <2>1. SUFFICES ASSUME NEW i \in 1..Len(l), NEW j \in 1..Len(l), j <= i,
                        Bucket(l[i].time) < Bucket(l[j].time)
                 PROVE  FALSE
    BY <1>1
  <2>2. Bucket(l[j].time) <= Bucket(l[i].time)
    BY <1>3, <2>1
  <2>3. Bucket(l[i].time) \in Nat /\ Bucket(l[j].time) \in Nat
    BY <1>2
  <2>4. QED
    BY ONLY <2>1, <2>2, <2>3
<1>5. QED
  BY <1>1, <1>2, <1>3, <1>4

-----------------------------------------------------------------------------
(* Rows, whatever table they are of.                                       *)

(* What rows have counted. *)
LEMMA CountedIs ==
  ASSUME NEW rows
  PROVE  \A i : i \in CountedBy(rows) <=> \E r \in rows : i \in r.of
BY DEF CountedBy

(* The rows of samples that are of one minute. *)
LEMMA RowFacts ==
  ASSUME NEW l, OrderedLog(l), NEW out, NEW r, RowOk(l, out, r)
  PROVE  /\ r \in Row /\ r.bucket \in Nat /\ r.of \in SUBSET (1..Len(l)) /\ r.of # {}
         /\ \A i \in r.of : Bucket(l[i].time) = r.bucket /\ i \notin out
BY RowFields DEF RowOk, RowSays, InMinute

(* A sample more, which is out. *)
LEMMA RowsAppend ==
  ASSUME NEW l, OrderedLog(l), NEW s \in Sample, NEW out, NEW rows, RowsOk(l, out, rows)
  PROVE  RowsOk(Append(l, s), out \cup {Len(l) + 1}, rows)
<1> DEFINE m == Append(l, s)
           o == out \cup {Len(l) + 1}
<1>1. /\ l \in Seq(Sample) /\ Len(l) \in Nat /\ Len(m) = Len(l) + 1
      /\ \A i \in 1..Len(l) : m[i] = l[i]
      /\ 1..Len(m) = (1..Len(l)) \cup {Len(l) + 1} /\ Len(l) + 1 \notin 1..Len(l)
  BY DEF OrderedLog
<1>2. ASSUME NEW r \in rows PROVE RowOk(m, o, r)
  <2>1. RowOk(l, out, r)
    BY DEF RowsOk
  <2>2. r.of \in SUBSET (1..Len(l))
    BY <2>1, RowFacts
  <2>3. RowSays(m, r, r.of)
    BY <1>1, <2>1, <2>2, StillSays DEF RowOk
  <2> HIDE DEF m
  <2>4. InMinute(l, r.bucket) \subseteq InMinute(m, r.bucket)
        /\ InMinute(m, r.bucket) \subseteq InMinute(l, r.bucket) \cup {Len(l) + 1}
    BY <1>1 DEF InMinute
  <2>5. QED
    BY <1>1, <2>1, <2>2, <2>3, <2>4 DEF RowOk
<1>3. QED
  BY <1>2 DEF RowsOk

(* Rows, with more out that none of them has counted, or less: the last. *)
LEMMA RowsOut ==
  ASSUME NEW l, OrderedLog(l), NEW out, NEW rows, RowsOk(l, out, rows), NEW o,
         \/ out \subseteq o /\ o \cap CountedBy(rows) = {}
         \/ o = out \ {Len(l)} /\ Len(l) \in out
  PROVE  RowsOk(l, o, rows)
<1>1. ASSUME NEW r \in rows PROVE RowOk(l, o, r)
  <2>1. RowOk(l, out, r) /\ r.of \in SUBSET (1..Len(l)) /\ \A i \in r.of : i \notin out
    BY RowFacts DEF RowsOk
  <2>2. \A i \in r.of : i \in CountedBy(rows)
    BY CountedIs
  <2>3. CASE out \subseteq o /\ o \cap CountedBy(rows) = {}
    BY <2>1, <2>2, <2>3 DEF RowOk
  <2>4. CASE o = out \ {Len(l)} /\ Len(l) \in out
    <3>1. \A j \in r.of : j < Len(l)
      <4>1. TAKE j \in r.of
      <4>2. j \in 1..Len(l) /\ j # Len(l) /\ Len(l) \in Nat
        BY <2>1, <2>4 DEF OrderedLog
      <4>3. QED
        BY <4>2
    <3>2. r.of \cap o = {}
      BY <2>1, <2>4
    <3>3. ASSUME NEW i \in InMinute(l, r.bucket) \ (r.of \cup o) PROVE \A j \in r.of : j < i
      BY <2>1, <2>4, <3>1 DEF RowOk
    <3>4. QED
      BY <2>1, <3>2, <3>3 DEF RowOk
  <2>5. QED
    BY <2>3, <2>4
<1>2. QED
  BY <1>1 DEF RowsOk

(* Some of the rows. *)
LEMMA RowsSubset ==
  ASSUME NEW l, NEW out, NEW rows, RowsOk(l, out, rows), NEW some, some \subseteq rows
  PROVE  RowsOk(l, out, some)
<1>1. IsFiniteSet(some)
  BY FS_Subset DEF RowsOk
<1>2. QED
  BY <1>1 DEF RowsOk

(* The rollup in memory is put into a table. *)
LEMMA RowsPut ==
  ASSUME NEW l, OrderedLog(l), NEW out, NEW rows, RowsOk(l, out, rows),
         NEW held, MemoryOk(l, out, held)
  PROVE  /\ RowsOk(l, out, PutRollup(rows, held))
         /\ held \subseteq PutRollup(rows, held)
         /\ CountedBy(rows) \cup CountedBy(held) \subseteq CountedBy(PutRollup(rows, held))
<1> DEFINE P == PutRollup(rows, held)
<1>1. \A r : r \in P <=> r \in held \/ (r \in rows /\ \A q \in held : q.bucket # r.bucket)
  BY DEF PutRollup, OfMinute
<1> HIDE DEF P
<1>2. IsFiniteSet(P)
  <2>1. IsFiniteSet(rows \cup held)
    <3>1. IsFiniteSet(rows) /\ IsFiniteSet(held)
      BY DEF RowsOk, MemoryOk
    <3>2. QED
      BY ONLY <3>1, FS_Union
  <2>2. P \in SUBSET (rows \cup held)
    BY <1>1
  <2>3. QED
    BY ONLY <2>1, <2>2, FS_Subset
<1>3. \A p, q \in P : p.bucket = q.bucket => p = q
  BY <1>1 DEF RowsOk, MemoryOk
<1>4. \A r \in P : RowOk(l, out, r)
  BY <1>1 DEF RowsOk, MemoryOk
<1>5. held \subseteq P
  BY <1>1
<1>6. ASSUME NEW i, i \in CountedBy(rows) \cup CountedBy(held) PROVE i \in CountedBy(P)
  <2>1. CASE \E m \in held : i \in m.of
    BY <1>5, <2>1, CountedIs
  <2>2. CASE ~ \E m \in held : i \in m.of
    <3>1. PICK r \in rows : i \in r.of
      BY <1>6, <2>2, CountedIs
    <3>2. RowOk(l, out, r)
      BY DEF RowsOk
    <3>3. i \in InMinute(l, r.bucket) /\ i \notin out
      BY <3>1, <3>2 DEF RowOk
    <3>4. \A q \in held : q.bucket # r.bucket
      BY <2>2, <3>3 DEF MemoryOk
    <3>5. r \in P
      BY <1>1, <3>4
    <3>6. QED
      BY <3>1, <3>5, CountedIs
  <2>3. QED
    BY <2>1, <2>2
<1>7. QED
  BY <1>2, <1>3, <1>4, <1>5, <1>6 DEF P, RowsOk

-----------------------------------------------------------------------------

(* The recorder.                                                           *)

(* The clock, and what it says of the log. *)
LEMMA ClockFacts ==
  ASSUME LogInv
  PROVE  /\ OrderedLog(log) /\ clock \in Nat /\ Len(log) \in Nat /\ Bucket(clock) \in Nat
         /\ \A i \in 1..Len(log) : log[i].time \in Nat /\ Bucket(log[i].time) \in Nat
                                   /\ Bucket(log[i].time) <= Bucket(clock)
<1>1. OrderedLog(log) /\ clock \in Nat
  BY Bounds DEF LogInv
<1>2. Len(log) \in Nat /\ \A i \in 1..Len(log) : log[i].time \in Nat
  BY <1>1, Minutes
<1>3. \A i \in 1..Len(log) : log[i].time <= clock
  BY DEF LogInv
<1>4. QED
  BY <1>1, <1>2, <1>3, Buckets

(* The ages of the tables. *)
LEMMA Ages ==
  /\ Age.fast \in Nat /\ Age.platform \in Nat /\ Age.rollups \in Nat /\ Minute \in Nat
  /\ \A t \in Tables \cup {"rollups"} : Age[t] \in Nat
BY Bounds DEF Tables

(* The sample at work is the last. *)
LEMMA UnderwayIs ==
  /\ Underway = {} \/ Underway = {Len(log)}
  /\ Underway # {} <=> pc \in {"sampled", "closed"}
BY DEF Underway

(* What is counted or old stays so: the log grows, the clock goes on. *)
LEMMA CountedStays ==
  ASSUME NEW l, OrderedLog(l), NEW held, NEW now \in Nat, NEW rows, CountedOk(l, held, now, rows),
         NEW m, Len(m) \in Nat, \A i \in 1..Len(l) : m[i] = l[i],
         NEW h, NEW later \in Nat, now <= later, NEW new,
         held \cup CountedBy(rows) \subseteq h \cup CountedBy(new),
         \A i \in 1..Len(m) : i \in 1..Len(l) \/ i \in h
  PROVE  CountedOk(m, h, later, new)
<1>1. SUFFICES ASSUME NEW i \in 1..Len(l), i \notin h \cup CountedBy(new)
               PROVE  Old(m, later, i)
  BY DEF CountedOk
<1>2. Old(l, now, i)
  BY <1>1 DEF CountedOk
<1>3. m[i] = l[i]
  OBVIOUS
<1>4. Bucket(l[i].time) \in Nat
  BY Minutes
<1>5. QED
  BY <1>2, <1>3, <1>4, Ages DEF Old

(* So do raw rows that are complete: a sample more is in the table, or lost. *)
LEMMA RawStays ==
  ASSUME NEW l, OrderedLog(l), NEW lost, NEW now \in Nat, NEW store, RawOk(l, lost, now, store),
         NEW m, Len(m) \in Nat, Len(l) <= Len(m), \A i \in 1..Len(l) : m[i] = l[i],
         NEW gone, lost \subseteq gone, NEW later \in Nat, now <= later,
         \A i \in 1..Len(m) : i \in 1..Len(l) \/ i \in gone
  PROVE  RawOk(m, gone, later, store)
<1>1. /\ DOMAIN store = Tables \cup {"rollups"} /\ store = [t \in DOMAIN store |-> store[t]]
      /\ \A t \in Tables : IsFiniteSet(store[t]) /\ \A r \in store[t] : \E i \in 1..Len(l) : r = l[i]
      /\ \A i \in (1..Len(l)) \ lost : l[i] \in store.fast \/ l[i].time + Age.fast < now
  BY DEF RawOk
<1>2. Len(l) \in Nat /\ \A i \in 1..Len(l) : i \in 1..Len(m) /\ m[i] = l[i] /\ l[i].time \in Nat
  BY Minutes
<1>3. \A t \in Tables : \A r \in store[t] : \E i \in 1..Len(m) : r = m[i]
  <2>1. SUFFICES ASSUME NEW t \in Tables, NEW r \in store[t] PROVE \E i \in 1..Len(m) : r = m[i]
    OBVIOUS
  <2>2. PICK i \in 1..Len(l) : r = l[i]
    BY <1>1
  <2>3. QED
    BY <1>2, <2>2
<1>4. \A i \in (1..Len(m)) \ gone : m[i] \in store.fast \/ m[i].time + Age.fast < later
  <2>1. SUFFICES ASSUME NEW i \in 1..Len(l), i \notin lost
                 PROVE  l[i] \in store.fast \/ l[i].time + Age.fast < later
    BY <1>2
  <2>2. l[i] \in store.fast \/ l[i].time + Age.fast < now
    BY <1>1, <2>1
  <2>3. QED
    BY <1>2, <2>2, Ages
<1>5. QED
  BY <1>1, <1>3, <1>4 DEF RawOk

(* A write and its commit: each store is as before or new, and they are the
   same unless the tick ended. *)
LEMMA SaveGives ==
  ASSUME LogInv, NEW new, NEW next, Save(new, next)
  PROVE  /\ work' \in {work, new} /\ db' \in {db, new}
         /\ pc' = next \/ pc' = "idle"
         /\ \/ pc' = next /\ work' = new /\ db' = new
            \/ pc' = "idle" /\ db' = db
         /\ faults' \in 0..MaxFault
<1>1. faults \in 0..MaxFault /\ MaxFault \in Nat
  BY Bounds DEF LogInv
<1>2. CASE work' = new /\ db' = new /\ pc' = next /\ faults' = faults
  BY <1>1, <1>2
<1>3. CASE Fault /\ work' \in {work, new} /\ db' = db /\ pc' = "idle"
  BY <1>1, <1>3 DEF Fault
<1>4. QED
  BY <1>2, <1>3 DEF Save

(* A store after a write of one of its tables. *)
LEMMA Written ==
  ASSUME NEW store, NEW l, NEW lost, NEW now, RawOk(l, lost, now, store)
  PROVE  /\ \A new : LET s == [store EXCEPT !.rollups = new] IN
              /\ s.rollups = new /\ s.fast = store.fast /\ s.platform = store.platform
              /\ RawOk(l, lost, now, s)
         /\ \A new : LET s == [store EXCEPT !.fast = new] IN
              /\ s.rollups = store.rollups /\ s.fast = new /\ s.platform = store.platform
              /\ DOMAIN s = Tables \cup {"rollups"} /\ s = [t \in DOMAIN s |-> s[t]]
         /\ \A new : LET s == [store EXCEPT !.platform = new] IN
              /\ s.rollups = store.rollups /\ s.fast = store.fast /\ s.platform = new
              /\ DOMAIN s = Tables \cup {"rollups"} /\ s = [t \in DOMAIN s |-> s[t]]
BY DEF RawOk, Tables

(* The stores after a step that leaves the samples alone. *)
LEMMA StoreStays ==
  ASSUME NEW l, OrderedLog(l), NEW out, NEW held, NEW lost, NEW now \in Nat, NEW store,
         StoreOk(l, out, held, lost, now, store),
         NEW o, RowsOk(l, o, store.rollups), NEW h,
         out \cup held \subseteq o \cup h \cup CountedBy(store.rollups),
         NEW later \in Nat, now <= later
  PROVE  StoreOk(l, o, h, lost, later, store)
<1>1. Len(l) \in Nat
  BY Minutes
<1>2. (out \cup held) \cup CountedBy(store.rollups) \subseteq (o \cup h) \cup CountedBy(store.rollups)
  OBVIOUS
<1>3. CountedOk(l, out \cup held, now, store.rollups) /\ RawOk(l, lost, now, store)
  BY DEF StoreOk
<1>4. CountedOk(l, o \cup h, later, store.rollups)
  BY <1>1, <1>2, <1>3, CountedStays
<1>5. RawOk(l, lost, later, store)
  BY <1>1, <1>3, RawStays
<1>6. QED
  BY <1>4, <1>5 DEF StoreOk

(* The store that the rollup in memory is written to. *)
LEMMA WithRollupOk ==
  ASSUME RecorderInv
  PROVE  LET new == WithRollup(work) IN
         /\ StoreOk(log, Out, {}, missed.raw, clock, new)
         /\ StoreOk(log, Out, CountedBy(memory), missed.raw, clock, new)
         /\ memory \subseteq new.rollups
         /\ CountedBy(work.rollups) \cup CountedBy(memory) \subseteq CountedBy(new.rollups)
<1> DEFINE new == WithRollup(work)
           held == CountedBy(memory)
<1>1. /\ OrderedLog(log) /\ clock \in Nat /\ Len(log) \in Nat
      /\ StoreOk(log, Out, held, missed.raw, clock, work) /\ MemoryOk(log, Out, memory)
  BY ClockFacts DEF RecorderInv, StoresInv
<1>2. RawOk(log, missed.raw, clock, work) /\ RowsOk(log, Out, work.rollups)
      /\ CountedOk(log, Out \cup held, clock, work.rollups)
  BY <1>1 DEF StoreOk
<1>3. new.rollups = PutRollup(work.rollups, memory) /\ RawOk(log, missed.raw, clock, new)
  BY <1>2, Written DEF WithRollup
<1>4. /\ RowsOk(log, Out, new.rollups) /\ memory \subseteq new.rollups
      /\ CountedBy(work.rollups) \cup held \subseteq CountedBy(new.rollups)
  BY <1>1, <1>2, <1>3, RowsPut
<1> HIDE DEF new, held
<1>5. CountedOk(log, Out \cup {}, clock, new.rollups)
  <2>1. (Out \cup held) \cup CountedBy(work.rollups) \subseteq (Out \cup {}) \cup CountedBy(new.rollups)
    BY <1>4
  <2>2. QED
    BY ONLY <1>1, <1>2, <2>1, CountedStays, clock <= clock
<1>6. CountedOk(log, Out \cup held, clock, new.rollups)
  BY <1>5 DEF CountedOk
<1>7. QED
  BY <1>3, <1>4, <1>5, <1>6 DEF StoreOk, new, held

(* What Inv says of the recorder, for the steps below. *)
LEMMA Facts ==
  ASSUME RecorderInv
  PROVE  /\ LogInv /\ OrderedLog(log) /\ clock \in Nat /\ Len(log) \in Nat
         /\ RowsOk(log, Out, work.rollups) /\ RowsOk(log, Out, db.rollups)
         /\ MemoryOk(log, Out, memory) /\ RowsOk(log, Out, memory)
         /\ StoreOk(log, Out, CountedBy(memory), missed.raw, clock, work)
         /\ StoreOk(log, Out, CountedBy(memory), missed.raw, clock, db)
         /\ RawOk(log, missed.raw, clock, work) /\ RawOk(log, missed.raw, clock, db)
         /\ CountedOk(log, Out \cup CountedBy(memory), clock, work.rollups)
         /\ CountedOk(log, Out \cup CountedBy(memory), clock, db.rollups)
<1>1. LogInv /\ OrderedLog(log) /\ clock \in Nat /\ Len(log) \in Nat
  BY ClockFacts DEF RecorderInv
<1>2. /\ StoreOk(log, Out, CountedBy(memory), missed.raw, clock, work)
      /\ StoreOk(log, Out, CountedBy(memory), missed.raw, clock, db)
      /\ MemoryOk(log, Out, memory)
  BY DEF RecorderInv, StoresInv
<1>3. QED
  BY <1>1, <1>2 DEF StoreOk, MemoryOk

(* Time passes. *)
LEMMA TimePassesKeeps ==
  ASSUME RecorderInv, TimePasses
  PROVE  RecorderInv'
<1>1. /\ log' = log /\ pc' = pc /\ memory' = memory /\ work' = work /\ db' = db
      /\ missed' = missed /\ faults' = faults /\ clock' <= MaxClock
      /\ clock' \in {clock + 1, (Bucket(clock) + 1) * Minute}
  BY DEF TimePasses
<1>2. clock \in Nat /\ clock' \in Nat /\ clock < clock'
  <2>1. clock \in Nat /\ Bucket(clock) \in Nat /\ clock < Minute * Bucket(clock) + Minute
    BY Facts, Buckets
  <2>2. (Bucket(clock) + 1) * Minute = Minute * Bucket(clock) + Minute /\ Minute * Bucket(clock) \in Nat
    BY <2>1, Ages
  <2> DEFINE x == Minute * Bucket(clock)
  <2>3. x \in Nat /\ clock < x + Minute /\ clock' \in {clock + 1, x + Minute} /\ Minute \in Nat
    BY <1>1, <2>1, <2>2, Ages
  <2> HIDE DEF x
  <2>4. QED
    BY ONLY <2>1, <2>3
<1>3. Out' = Out /\ Underway' = Underway
  BY <1>1 DEF Out, Underway
<1>4. LogInv'
  <2>1. \A i \in 1..Len(log) : log[i].time <= clock'
    <3>1. LogInv
      BY Facts
    <3>2. \A i \in 1..Len(log) : log[i].time \in Nat /\ log[i].time <= clock
      BY <3>1, ClockFacts DEF LogInv
    <3>3. QED
      BY <1>2, <3>2
  <2>2. clock' \in 0..MaxClock
    BY <1>1, <1>2, Bounds
  <2>3. LogInv
    BY Facts
  <2>4. QED
    BY <1>1, <2>1, <2>2, <2>3 DEF LogInv
<1>5. MissedInv' /\ ClosedInv'
  BY <1>1, <1>3 DEF RecorderInv, MissedInv, ClosedInv
<1>6. UnderwayInv'
  BY <1>1, <1>3 DEF RecorderInv, UnderwayInv, ThisMinute, Newest
<1>7. \A store \in {work, db} : StoreOk(log, Out, CountedBy(memory), missed.raw, clock', store)
  <2>1. TAKE store \in {work, db}
  <2>2. StoreOk(log, Out, CountedBy(memory), missed.raw, clock, store)
        /\ RowsOk(log, Out, store.rollups) /\ OrderedLog(log)
    BY Facts
  <2>3. clock <= clock'
    BY <1>2
  <2>4. Out \cup CountedBy(memory) \subseteq Out \cup CountedBy(memory) \cup CountedBy(store.rollups)
    OBVIOUS
  <2>5. QED
    BY ONLY <1>2, <2>2, <2>3, <2>4, StoreStays
<1>8. StoresInv' /\ MemoryOk(log, Out, memory)'
  BY <1>1, <1>3, <1>7, Facts DEF StoresInv
<1>9. QED
  BY <1>4, <1>5, <1>6, <1>8 DEF RecorderInv

(* A sample more in the log. *)
LEMMA AppendFacts ==
  ASSUME NEW l, OrderedLog(l), NEW s \in Sample,
         \A i \in 1..Len(l) : l[i].time < s.time
  PROVE  LET m == Append(l, s) IN
         /\ OrderedLog(m) /\ Len(m) = Len(l) + 1 /\ Len(m) \in Nat /\ m[Len(l) + 1] = s
         /\ \A i \in 1..Len(l) : m[i] = l[i]
         /\ 1..Len(m) = (1..Len(l)) \cup {Len(l) + 1} /\ Len(l) + 1 \notin 1..Len(l)
         /\ \A b : InMinute(m, b) \subseteq InMinute(l, b) \cup {Len(l) + 1}
<1> DEFINE m == Append(l, s)
<1>1. /\ l \in Seq(Sample) /\ Len(l) \in Nat /\ Len(m) = Len(l) + 1 /\ m \in Seq(Sample)
      /\ m[Len(l) + 1] = s /\ \A i \in 1..Len(l) : m[i] = l[i]
  BY DEF OrderedLog
<1> HIDE DEF m
<1>2. 1..Len(m) = (1..Len(l)) \cup {Len(l) + 1} /\ Len(l) + 1 \notin 1..Len(l)
  BY <1>1
<1>3. OrderedLog(m)
  <2>1. SUFFICES ASSUME NEW i \in 1..Len(m), NEW j \in 1..Len(m), i < j
                 PROVE  m[i].time < m[j].time
    BY <1>1 DEF OrderedLog
  <2>2. i \in 1..Len(l)
    BY <1>1, <2>1
  <2>3. CASE j \in 1..Len(l)
    BY <1>1, <2>1, <2>2, <2>3 DEF OrderedLog
  <2>4. CASE j = Len(l) + 1
    BY <1>1, <2>2, <2>4
  <2>5. QED
    BY <1>2, <2>3, <2>4
<1>4. \A b : InMinute(m, b) \subseteq InMinute(l, b) \cup {Len(l) + 1}
  BY <1>1, <1>2 DEF InMinute
<1>5. QED
  BY <1>1, <1>2, <1>3, <1>4 DEF m

(* What record_fast does. *)
LEMMA RecordSampleIs ==
  ASSUME RecorderInv, RecordSample
  PROVE  \E s \in Sample :
           /\ s.time = clock /\ \A i \in 1..Len(log) : log[i].time < s.time
           /\ log' = Append(log, s) /\ Len(log) < MaxSample
           /\ Save([work EXCEPT !.fast = @ \cup {s}], "sampled")
<1>1. PICK kind \in Kinds :
        LET s == [time |-> clock, value |-> kind.value, status |-> kind.status,
                  range |-> kind.range]
        IN  log' = Append(log, s) /\ Save([work EXCEPT !.fast = @ \cup {s}], "sampled")
  BY DEF RecordSample
<1> DEFINE s == [time |-> clock, value |-> kind.value, status |-> kind.status,
                 range |-> kind.range]
<1>2. s \in Sample /\ s.time = clock
  BY Facts, Bounds DEF Kind, Sample
<1>3. \A i \in 1..Len(log) : log[i].time < clock
  <2>1. SUFFICES ASSUME NEW i \in 1..Len(log) PROVE log[i].time < clock
    OBVIOUS
  <2>2. /\ Len(log) \in Nat /\ clock \in Nat /\ OrderedLog(log)
        /\ \A j \in 1..Len(log) : log[j].time \in Nat
    BY Facts, Minutes
  <2>3. log # <<>>
    BY <2>2
  <2>4. log[Len(log)].time < clock /\ Len(log) \in 1..Len(log)
    BY <2>1, <2>2, <2>3 DEF RecordSample, Newest
  <2>5. i = Len(log) \/ log[i].time < log[Len(log)].time
    BY <2>2, <2>4 DEF OrderedLog
  <2>6. QED
    BY <2>2, <2>4, <2>5
<1> HIDE DEF s
<1>4. log' = Append(log, s) /\ Save([work EXCEPT !.fast = @ \cup {s}], "sampled")
  BY <1>1 DEF s
<1>5. QED
  BY <1>2, <1>3, <1>4 DEF RecordSample

(* A store that the sample at k is written to, or lost to. *)
LEMMA RawWritten ==
  ASSUME NEW m, NEW lost, NEW now, NEW store, NEW k \in 1..Len(m),
         RawOk(m, lost \cup {k}, now, store)
  PROVE  LET new == [store EXCEPT !.fast = @ \cup {m[k]}] IN
         /\ new.rollups = store.rollups
         /\ RawOk(m, lost, now, new) /\ RawOk(m, lost \cup {k}, now, new)
<1> DEFINE new == [store EXCEPT !.fast = @ \cup {m[k]}]
<1>1. /\ new.rollups = store.rollups /\ new.fast = store.fast \cup {m[k]}
      /\ new.platform = store.platform
      /\ DOMAIN new = Tables \cup {"rollups"} /\ new = [t \in DOMAIN new |-> new[t]]
  BY DEF RawOk, Tables
<1> HIDE DEF new
<1>2. IsFiniteSet(new.fast) /\ IsFiniteSet(new.platform)
  <2>1. IsFiniteSet(store.fast) /\ IsFiniteSet(store.platform)
    BY DEF RawOk, Tables
  <2>2. IsFiniteSet(store.fast \cup {m[k]})
    BY ONLY <2>1, FS_AddElement
  <2>3. QED
    BY <1>1, <2>1, <2>2
<1>3. \A t \in Tables : IsFiniteSet(new[t]) /\ \A r \in new[t] : \E i \in 1..Len(m) : r = m[i]
  BY <1>1, <1>2 DEF RawOk, Tables
<1>4. \A i \in (1..Len(m)) \ lost : m[i] \in new.fast \/ m[i].time + Age.fast < now
  BY <1>1 DEF RawOk
<1>5. QED
  BY <1>1, <1>3, <1>4 DEF RawOk, new

(* A store after record_fast, whether it holds the sample or not. *)
LEMMA StoreAppend ==
  ASSUME RecorderInv, NEW s \in Sample, \A i \in 1..Len(log) : log[i].time < s.time,
         NEW store, StoreOk(log, Out, CountedBy(memory), missed.raw, clock, store)
  PROVE  LET m   == Append(log, s)
             k   == Len(log) + 1
             new == [store EXCEPT !.fast = @ \cup {s}] IN
         /\ StoreOk(m, Out \cup {k}, CountedBy(memory), missed.raw \cup {k}, clock, store)
         /\ StoreOk(m, Out \cup {k}, CountedBy(memory), missed.raw \cup {k}, clock, new)
         /\ StoreOk(m, Out \cup {k}, CountedBy(memory), missed.raw, clock, new)
<1> DEFINE m == Append(log, s)
           k == Len(log) + 1
           new == [store EXCEPT !.fast = @ \cup {s}]
           held == CountedBy(memory)
<1>1. /\ OrderedLog(log) /\ clock \in Nat /\ Len(log) \in Nat
      /\ RowsOk(log, Out, store.rollups) /\ CountedOk(log, Out \cup held, clock, store.rollups)
      /\ RawOk(log, missed.raw, clock, store)
  BY Facts DEF StoreOk
<1>2. /\ OrderedLog(m) /\ Len(m) \in Nat /\ Len(log) <= Len(m) /\ k \in 1..Len(m) /\ m[k] = s
      /\ \A i \in 1..Len(log) : m[i] = log[i]
      /\ 1..Len(m) = (1..Len(log)) \cup {k}
  BY <1>1, AppendFacts
<1>3. RowsOk(m, Out \cup {k}, store.rollups)
  BY <1>1, RowsAppend
<1> HIDE DEF m, k, held
<1>4. CountedOk(m, (Out \cup {k}) \cup held, clock, store.rollups)
  <2>1. (Out \cup held) \cup CountedBy(store.rollups)
          \subseteq ((Out \cup {k}) \cup held) \cup CountedBy(store.rollups)
    OBVIOUS
  <2>2. \A i \in 1..Len(m) : i \in 1..Len(log) \/ i \in (Out \cup {k}) \cup held
    BY <1>2
  <2>3. clock <= clock
    BY <1>1
  <2>4. QED
    BY ONLY <1>1, <1>2, <2>1, <2>2, <2>3, CountedStays
<1>5. RawOk(m, missed.raw \cup {k}, clock, store)
  <2>1. missed.raw \subseteq missed.raw \cup {k} /\ clock <= clock
        /\ \A i \in 1..Len(m) : i \in 1..Len(log) \/ i \in missed.raw \cup {k}
    BY <1>1, <1>2
  <2>2. QED
    BY ONLY <1>1, <1>2, <2>1, RawStays
<1>6. /\ new.rollups = store.rollups /\ RawOk(m, missed.raw, clock, new)
      /\ RawOk(m, missed.raw \cup {k}, clock, new)
  BY <1>2, <1>5, RawWritten
<1> HIDE DEF new
<1>7. QED
  BY <1>3, <1>4, <1>5, <1>6 DEF StoreOk, m, k, new, held

(* A sample of this minute is young. *)
LEMMA Young ==
  ASSUME NEW now \in Nat, NEW b, b = Bucket(now)
  PROVE  ~ (b * Minute + Age.rollups < now)
<1>1. b \in Nat /\ now < Minute * b + Minute
  BY Buckets
<1> DEFINE x == Minute * b
<1>2. x \in Nat /\ b * Minute = x /\ now < x + Minute /\ Age.rollups >= Minute
  BY <1>1, Ages, Bounds
<1> HIDE DEF x
<1>3. QED
  BY ONLY <1>2, Ages, now \in Nat

(* record_fast. *)
LEMMA RecordSampleKeeps ==
  ASSUME RecorderInv, RecordSample
  PROVE  RecorderInv'
<1>1. PICK s \in Sample :
        /\ s.time = clock /\ \A i \in 1..Len(log) : log[i].time < s.time
        /\ log' = Append(log, s) /\ Len(log) < MaxSample
        /\ Save([work EXCEPT !.fast = @ \cup {s}], "sampled")
  BY RecordSampleIs
<1> DEFINE k == Len(log) + 1
           new == [work EXCEPT !.fast = @ \cup {s}]
<1>2. /\ work' \in {work, new} /\ db' \in {db, new} /\ faults' \in 0..MaxFault
      /\ \/ pc' = "sampled" /\ work' = new /\ db' = new
         \/ pc' = "idle" /\ db' = db
  BY <1>1, Facts, SaveGives
<1>3. /\ Underway = {} /\ clock' = clock /\ memory' = memory
      /\ missed' = IF pc' = "idle" THEN [t \in DOMAIN missed |-> missed[t] \cup {Len(log')}]
                   ELSE missed
  BY DEF RecordSample
<1>4. /\ OrderedLog(log') /\ Len(log') = k /\ k \in Nat /\ log'[k] = s /\ k \in 1..Len(log')
      /\ \A i \in 1..Len(log) : log'[i] = log[i]
      /\ 1..Len(log') = (1..Len(log)) \cup {k} /\ k \notin 1..Len(log)
      /\ \A b : InMinute(log', b) \subseteq InMinute(log, b) \cup {k}
  BY <1>1, Facts, AppendFacts
<1> HIDE DEF k
<1>5. /\ missed.raw \subseteq 1..Len(log) /\ missed.rollups \subseteq 1..Len(log)
      /\ missed = [raw |-> missed.raw, rollups |-> missed.rollups] /\ Out = missed.rollups
  BY <1>3 DEF RecorderInv, MissedInv, Out
<1>6. /\ missed' = [raw |-> missed'.raw, rollups |-> missed'.rollups]
      /\ pc' = "idle" => missed'.raw = missed.raw \cup {k} /\ missed'.rollups = missed.rollups \cup {k}
      /\ pc' # "idle" => missed'.raw = missed.raw /\ missed'.rollups = missed.rollups
  <2>1. CASE pc' # "idle"
    BY <1>3, <1>5, <2>1
  <2>2. CASE pc' = "idle"
    <3>1. missed' = [t \in DOMAIN missed |-> missed[t] \cup {k}] /\ DOMAIN missed = {"raw", "rollups"}
      BY <1>3, <1>4, <1>5, <2>2
    <3>2. missed' = [raw |-> missed.raw \cup {k}, rollups |-> missed.rollups \cup {k}]
      BY <3>1
    <3>3. QED
      BY <2>2, <3>2
  <2>3. QED
    BY <2>1, <2>2
<1>7. Underway' = (IF pc' = "idle" THEN {} ELSE {k}) /\ Out' = Out \cup {k}
  BY <1>2, <1>4, <1>5, <1>6 DEF Underway, Out
<1>8. LogInv'
  <2>1. LogInv /\ Len(log) \in Nat /\ MaxSample \in Nat
    BY Facts, Bounds
  <2>2. Len(log') <= MaxSample /\ Len(log') > 0
    BY <1>1, <1>4, <2>1 DEF k
  <2>3. \A i \in 1..Len(log') : log'[i].time <= clock'
    BY <1>1, <1>3, <1>4, <2>1, Facts DEF LogInv
  <2>4. QED
    BY <1>2, <1>3, <1>4, <2>1, <2>2, <2>3 DEF LogInv
<1>9. MissedInv'
  BY <1>4, <1>5, <1>6, <1>7 DEF MissedInv
<1>10. ClosedInv'
  BY <1>2 DEF ClosedInv
<1>11. UnderwayInv'
  <2>1. SUFFICES ASSUME NEW i \in InMinute(log', Bucket(clock)), pc' = "sampled"
                 PROVE  i \in Out' \cup CountedBy(memory') \cup CountedBy(db'.rollups)
    BY <1>1, <1>2, <1>4, <1>7 DEF UnderwayInv, ThisMinute, Newest
  <2>2. CASE i = k
    BY <1>7, <2>2
  <2>3. CASE i # k
    <3>1. i \in 1..Len(log) /\ Bucket(log[i].time) = Bucket(clock)
      BY <1>4, <2>1, <2>3 DEF InMinute
    <3>2. ~ Old(log, clock, i)
      BY <3>1, Facts, Young DEF Old
    <3>3. i \in Out \cup CountedBy(memory) \cup CountedBy(work.rollups)
      BY <3>1, <3>2, Facts DEF CountedOk
    <3>4. db'.rollups = work.rollups
      BY <1>2, <2>1, Written, Facts
    <3>5. QED
      BY <1>3, <1>7, <3>3, <3>4
  <2>4. QED
    BY <2>2, <2>3
<1>12. MemoryOk(log, Out, memory)'
  <2>1. RowsOk(log', Out', memory')
    BY <1>1, <1>3, <1>7, Facts, RowsAppend DEF k
  <2>2. MemoryOk(log, Out, memory)
    BY Facts
  <2>3. \A m \in memory : InMinute(log', m.bucket) \subseteq m.of \cup Out'
    BY <1>4, <1>7, <2>2 DEF MemoryOk
  <2>4. QED
    BY <1>3, <2>1, <2>2, <2>3 DEF MemoryOk
<1>13. StoresInv'
  <2>1. /\ StoreOk(log', Out', CountedBy(memory), missed.raw \cup {k}, clock, work)
        /\ StoreOk(log', Out', CountedBy(memory), missed.raw \cup {k}, clock, new)
        /\ StoreOk(log', Out', CountedBy(memory), missed.raw, clock, new)
        /\ StoreOk(log', Out', CountedBy(memory), missed.raw \cup {k}, clock, db)
    BY <1>1, <1>7, Facts, StoreAppend DEF k
  <2> HIDE DEF new
  <2>2. \A store \in {work', db'} :
          StoreOk(log', Out', CountedBy(memory), missed'.raw, clock, store)
    BY <1>2, <1>6, <2>1
  <2>3. QED
    BY <1>3, <2>2 DEF StoresInv
<1>14. QED
  BY <1>8, <1>9, <1>10, <1>11, <1>12, <1>13 DEF RecorderInv

(* How a tick that is at a sample goes on, and what becomes of the sample. *)
LEMMA NotCountedFacts ==
  ASSUME RecorderInv, pc \in {"sampled", "closed"}, log' = log, NotCounted,
         pc' \in {"idle", "closed", "counted"}
  PROVE  /\ Len(log) \in 1..Len(log) /\ Len(log) \in Out /\ Underway = {Len(log)} /\ work = db
         /\ Out' = IF pc' = "counted" THEN Out \ {Len(log)} ELSE Out
         /\ Underway' = IF pc' = "closed" THEN Underway ELSE {}
         /\ missed'.raw = missed.raw
         /\ MissedInv'
<1>1. /\ Len(log) \in 1..Len(log) /\ Underway = {Len(log)} /\ Len(log) \in Out /\ work = db
  BY Facts DEF LogInv, Underway, Out
<1>2. /\ missed = [raw |-> missed.raw, rollups |-> missed.rollups]
      /\ missed.raw \subseteq 1..Len(log) /\ missed.rollups \subseteq 1..Len(log)
      /\ Len(log) \notin missed.rollups
  BY <1>1 DEF RecorderInv, MissedInv
<1>3. Underway' = IF pc' = "closed" THEN Underway ELSE {}
  BY <1>1 DEF Underway
<1>4. CASE pc' = "idle"
  <2>1. missed' = [raw |-> missed.raw, rollups |-> missed.rollups \cup {Len(log)}]
    BY <1>2, <1>4 DEF NotCounted
  <2>2. /\ missed'.raw = missed.raw /\ missed'.rollups = missed.rollups \cup {Len(log)}
        /\ missed' = [raw |-> missed'.raw, rollups |-> missed'.rollups]
    BY <2>1
  <2>3. QED
    BY <1>1, <1>2, <1>3, <1>4, <2>2 DEF MissedInv, Out
<1>5. CASE pc' # "idle"
  <2>1. missed' = missed
    BY <1>5 DEF NotCounted
  <2>2. QED
    BY <1>1, <1>2, <1>3, <1>5, <2>1 DEF MissedInv, Out
<1>6. QED
  BY <1>4, <1>5

(* _update_rollup, of another minute. *)
LEMMA CloseMinuteKeeps ==
  ASSUME RecorderInv, CloseMinute
  PROVE  RecorderInv'
<1> DEFINE new == WithRollup(work)
<1>1. /\ pc = "sampled" /\ Save(new, "closed") /\ NotCounted
      /\ clock' = clock /\ log' = log /\ memory' = memory
  BY DEF CloseMinute
<1>2. /\ work' \in {work, new} /\ db' \in {db, new} /\ faults' \in 0..MaxFault
      /\ \/ pc' = "closed" /\ work' = new /\ db' = new
         \/ pc' = "idle" /\ db' = db
  BY <1>1, Facts, SaveGives
<1>3. /\ Out' = Out /\ missed'.raw = missed.raw /\ MissedInv' /\ work = db /\ Len(log) \in 1..Len(log)
      /\ Underway' = IF pc' = "closed" THEN Underway ELSE {}
  BY <1>1, <1>2, NotCountedFacts
<1>4. /\ StoreOk(log, Out, CountedBy(memory), missed.raw, clock, new)
      /\ memory \subseteq new.rollups
      /\ CountedBy(work.rollups) \cup CountedBy(memory) \subseteq CountedBy(new.rollups)
  BY WithRollupOk
<1> HIDE DEF new
<1>5. LogInv'
  BY <1>1, <1>2, <1>3, Facts DEF LogInv
<1>6. ClosedInv'
  BY <1>1, <1>2, <1>4 DEF ClosedInv
<1>7. UnderwayInv'
  <2>1. SUFFICES ASSUME pc' = "closed"
                 PROVE  InMinute(log', ThisMinute') \subseteq Out' \cup CountedBy(memory') \cup CountedBy(db'.rollups)
    BY <1>2, <1>3 DEF UnderwayInv
  <2>2. InMinute(log, ThisMinute) \subseteq Out \cup CountedBy(memory) \cup CountedBy(db.rollups)
    BY <1>1, UnderwayIs DEF RecorderInv, UnderwayInv
  <2>3. ThisMinute' = ThisMinute /\ db' = new /\ CountedBy(db.rollups) \subseteq CountedBy(new.rollups)
    BY <1>1, <1>2, <1>3, <1>4, <2>1 DEF ThisMinute, Newest
  <2>4. QED
    BY <1>1, <1>3, <2>2, <2>3
<1>8. StoresInv' /\ MemoryOk(log, Out, memory)'
  BY <1>1, <1>2, <1>3, <1>4, Facts DEF StoresInv
<1>9. QED
  BY <1>3, <1>5, <1>6, <1>7, <1>8 DEF RecorderInv

(* The row that a sample is counted in has all of its minute before it. *)
LEMMA CurrentOk ==
  ASSUME RecorderInv, pc \in {"sampled", "closed"}
  PROVE  LET a == Current(ThisMinute) IN
         /\ RowSays(log, a, a.of) /\ a.bucket = ThisMinute
         /\ a.of \subseteq InMinute(log, ThisMinute) /\ a.of \cap Out = {}
         /\ InMinute(log, ThisMinute) \subseteq a.of \cup Out
         /\ \A m \in memory : m.bucket = ThisMinute => m = a
<1> DEFINE b == ThisMinute
           a == Current(b)
<1>1. Len(log) \in 1..Len(log) /\ OrderedLog(log)
  BY Facts DEF LogInv
<1>2. b \in Nat
  BY <1>1, Minutes DEF ThisMinute, Newest
<1>3. InMinute(log, b) \subseteq Out \cup CountedBy(memory) \cup CountedBy(db.rollups)
  BY UnderwayIs DEF RecorderInv, UnderwayInv
<1>4. /\ RowsOk(log, Out, memory) /\ RowsOk(log, Out, db.rollups) /\ MemoryOk(log, Out, memory)
  BY Facts
<1>5. \A r \in memory \cup db.rollups : RowOk(log, Out, r)
  BY <1>4 DEF RowsOk
<1> HIDE DEF b
<1>6. a = CHOOSE r \in IF OfMinute(memory, b) # {}          THEN OfMinute(memory, b)
                       ELSE IF OfMinute(db.rollups, b) # {} THEN OfMinute(db.rollups, b)
                       ELSE {Empty(b)} : TRUE
  BY DEF Current
<1> HIDE DEF a
<1>7. \A i \in InMinute(log, b) : \A r \in memory \cup db.rollups : i \in r.of => r.bucket = b
  BY <1>5 DEF RowOk, InMinute
<1>8. CASE OfMinute(memory, b) # {}
  <2>1. a \in memory /\ a.bucket = b
    BY <1>6, <1>8 DEF OfMinute
  <2>2. \A m \in memory : m = a
    BY <1>4, <2>1 DEF MemoryOk
  <2>3. RowOk(log, Out, a) /\ InMinute(log, b) \subseteq a.of \cup Out
    BY <1>4, <1>5, <2>1 DEF MemoryOk
  <2>4. QED
    BY <2>1, <2>2, <2>3 DEF RowOk, a, b
<1>9. CASE OfMinute(memory, b) = {} /\ OfMinute(db.rollups, b) # {}
  <2>1. a \in db.rollups /\ a.bucket = b
    BY <1>6, <1>9 DEF OfMinute
  <2>2. \A r \in memory : r.bucket # b
    BY <1>9 DEF OfMinute
  <2>3. InMinute(log, b) \subseteq a.of \cup Out
    <3>1. SUFFICES ASSUME NEW i \in InMinute(log, b), i \notin Out
                   PROVE  i \in a.of
      OBVIOUS
    <3>2. PICK r \in memory \cup db.rollups : i \in r.of
      BY <1>3, <3>1, CountedIs
    <3>3. r.bucket = b
      BY <1>7, <3>2
    <3>4. r = a
      BY <1>4, <2>1, <2>2, <3>3 DEF RowsOk
    <3>5. QED
      BY <3>2, <3>4
  <2>4. RowOk(log, Out, a)
    BY <1>5, <2>1
  <2>5. QED
    BY <2>1, <2>2, <2>3, <2>4 DEF RowOk, a, b
<1>10. CASE OfMinute(memory, b) = {} /\ OfMinute(db.rollups, b) = {}
  <2>1. a = Empty(b)
    BY <1>6, <1>10
  <2>2. \A r \in memory \cup db.rollups : r.bucket # b
    BY <1>10 DEF OfMinute
  <2>3. InMinute(log, b) \subseteq Out
    <3>1. SUFFICES ASSUME NEW i \in InMinute(log, b), i \notin Out
                   PROVE  FALSE
      OBVIOUS
    <3>2. PICK r \in memory \cup db.rollups : i \in r.of
      BY <1>3, <3>1, CountedIs
    <3>3. QED
      BY <1>7, <2>2, <3>2
  <2>4. a.of = {} /\ a.bucket = b /\ RowSays(log, a, {})
    BY <1>2, <2>1, EmptySays DEF Empty
  <2>5. QED
    BY <2>2, <2>3, <2>4 DEF a, b
<1>11. QED
  BY <1>8, <1>9, <1>10

(* _update_rollup, of the sample. *)
LEMMA CountKeeps ==
  ASSUME RecorderInv, Count
  PROVE  RecorderInv'
<1>1. /\ pc \in {"sampled", "closed"} /\ NotCounted
      /\ pc = "sampled" => \A m \in memory : m.bucket = ThisMinute
      /\ clock' = clock /\ log' = log /\ work' = work /\ db' = db
  BY DEF Count
<1>2. CASE OfMinute(memory, ThisMinute) = {} /\ Fault /\ memory' = memory /\ pc' = "idle"
  <2>1. Out' = Out /\ Underway' = {} /\ missed'.raw = missed.raw /\ MissedInv'
    BY <1>1, <1>2, NotCountedFacts
  <2>2. faults' \in 0..MaxFault
    BY <1>2, Facts, Bounds DEF Fault, LogInv
  <2>3. LogInv'
    BY <1>1, <1>2, <2>2, Facts DEF LogInv
  <2>4. ClosedInv' /\ UnderwayInv'
    BY <1>2, <2>1 DEF ClosedInv, UnderwayInv
  <2>5. StoresInv' /\ MemoryOk(log, Out, memory)'
    BY <1>1, <1>2, <2>1, Facts DEF StoresInv
  <2>6. QED
    BY <2>1, <2>3, <2>4, <2>5 DEF RecorderInv
<1>3. CASE /\ memory' = {Updated(Current(ThisMinute), Newest, Len(log))}
           /\ pc' = "counted" /\ faults' = faults
  <2> DEFINE n == Len(log)
             b == ThisMinute
             a == Current(b)
             u == Updated(a, log[n], n)
  <2>1. /\ n \in 1..Len(log) /\ n \in Out /\ work = db /\ Out' = Out \ {n} /\ Underway' = {}
        /\ missed'.raw = missed.raw /\ MissedInv'
    BY <1>1, <1>3, NotCountedFacts
  <2>2. OrderedLog(log) /\ log \in Seq(Sample) /\ clock \in Nat
    BY Facts DEF OrderedLog
  <2>3. n \in InMinute(log, b)
    BY <2>1 DEF InMinute, ThisMinute, Newest
  <2>4. /\ RowSays(log, a, a.of) /\ a.bucket = b
        /\ a.of \subseteq InMinute(log, b) /\ a.of \cap Out = {}
        /\ InMinute(log, b) \subseteq a.of \cup Out
        /\ \A m \in memory : m.bucket = b => m = a
    BY <1>1, CurrentOk
  <2>5. memory' = {u}
    BY <1>3 DEF Newest
  <2> HIDE DEF a, b
  <2>6. a.of \in SUBSET (1..Len(log)) /\ \A i \in a.of : i < n
    <3>1. a.of \in SUBSET (1..Len(log))
      BY <2>4 DEF InMinute
    <3>2. SUFFICES ASSUME NEW i \in a.of PROVE i < n
      BY <3>1
    <3>3. i \in 1..n /\ i # n /\ n \in Nat
      BY <2>1, <2>4, <3>1
    <3>4. QED
      BY <3>3
  <2>7. RowSays(log, u, a.of \cup {n}) /\ u.of = a.of \cup {n} /\ u.bucket = b
    <3>1. /\ log \in Seq(Sample) /\ a.of \in SUBSET (1..Len(log)) /\ n \in 1..Len(log)
          /\ \A i \in a.of : i < n
          /\ RowSays(log, a, a.of) /\ a.bucket = b
      BY <2>1, <2>2, <2>4, <2>6
    <3> DEFINE S == a.of
    <3>2. /\ log \in Seq(Sample) /\ S \in SUBSET (1..Len(log)) /\ n \in 1..Len(log)
          /\ \A i \in S : i < n
          /\ RowSays(log, a, S)
      BY <3>1
    <3> HIDE DEF n, S, u
    <3>3. RowSays(log, Updated(a, log[n], n), S \cup {n})
      BY ONLY <3>2, Adds
    <3>5. a \in Row /\ log[n] \in Sample /\ n \in Nat
      BY <3>2 DEF RowSays
    <3>6. Updated(a, log[n], n).of = a.of \cup {n} /\ Updated(a, log[n], n).bucket = a.bucket
      BY ONLY <3>5, UpdatedFields
    <3>4. QED
      BY <3>1, <3>3, <3>6 DEF S, u
  <2> HIDE DEF u, n
  <2>8. RowOk(log, Out', u) /\ InMinute(log, b) \subseteq u.of \cup Out'
    BY <2>1, <2>3, <2>4, <2>7 DEF RowOk
  <2>9. CountedBy(memory') = u.of
    BY <2>5 DEF CountedBy
  <2>10. MemoryOk(log, Out, memory)'
    <3>1. IsFiniteSet({u})
      BY FS_Singleton
    <3>2. QED
      BY <1>1, <2>5, <2>7, <2>8, <3>1 DEF MemoryOk, RowsOk
  <2>11. StoreOk(log, Out', CountedBy(memory'), missed.raw, clock, db)
    <3>1. StoreOk(log, Out, CountedBy(memory), missed.raw, clock, db) /\ RowsOk(log, Out, db.rollups)
      BY Facts
    <3>2. RowsOk(log, Out', db.rollups)
      BY <2>1, <2>2, <3>1, RowsOut DEF n
    <3>3. CountedBy(memory) \subseteq u.of \cup CountedBy(db.rollups)
      <4>1. SUFFICES ASSUME NEW m \in memory, NEW i \in m.of
                     PROVE  i \in u.of \cup CountedBy(db.rollups)
        BY CountedIs
      <4>2. CASE m.bucket = b
        BY <2>4, <2>7, <4>2
      <4>3. CASE m.bucket # b
        <5>1. pc = "closed"
          BY <1>1, <4>3 DEF b
        <5>2. m \in db.rollups
          BY <5>1 DEF RecorderInv, ClosedInv
        <5>3. QED
          BY <5>2, CountedIs
      <4>4. QED
        BY <4>2, <4>3
    <3>4. Out \cup CountedBy(memory) \subseteq Out' \cup CountedBy(memory') \cup CountedBy(db.rollups)
      BY <2>1, <2>7, <2>9, <3>3
    <3>5. clock <= clock
      BY <2>2
    <3>6. QED
      BY ONLY <2>2, <3>1, <3>2, <3>4, <3>5, StoreStays
  <2>12. StoresInv'
    BY <1>1, <2>1, <2>11 DEF StoresInv
  <2>13. LogInv'
    BY <1>1, <1>3, <2>1, Facts DEF LogInv
  <2>14. ClosedInv' /\ UnderwayInv'
    BY <1>3, <2>1 DEF ClosedInv, UnderwayInv
  <2>15. QED
    BY <2>1, <2>10, <2>12, <2>13, <2>14 DEF RecorderInv
<1>4. QED
  BY <1>2, <1>3 DEF Count

(* What follows the sample in a tick: a write that keeps the stores right. *)
LEMMA RestKeeps ==
  ASSUME RecorderInv, pc \in {"counted", "recorded"}, NEW new, NEW next,
         next \in {"counted", "recorded", "idle"}, Save(new, next),
         StoreOk(log, Out, CountedBy(memory), missed.raw, clock, new),
         clock' = clock, log' = log, memory' = memory, missed' = missed
  PROVE  RecorderInv'
<1>1. /\ work' \in {work, new} /\ db' \in {db, new} /\ faults' \in 0..MaxFault
      /\ pc' \in {"counted", "recorded", "idle"}
      /\ pc' # "idle" => work' = db'
  BY Facts, SaveGives
<1>2. Underway = {} /\ Underway' = {} /\ Out' = Out
  BY <1>1 DEF Underway, Out
<1>3. LogInv'
  BY <1>1, Facts DEF LogInv
<1>4. MissedInv' /\ ClosedInv' /\ UnderwayInv'
  BY <1>1, <1>2 DEF RecorderInv, MissedInv, ClosedInv, UnderwayInv
<1>5. StoresInv' /\ MemoryOk(log, Out, memory)'
  BY <1>1, <1>2, Facts DEF StoresInv
<1>6. QED
  BY <1>3, <1>4, <1>5 DEF RecorderInv

LEMMA FlushKeeps ==
  ASSUME RecorderInv, Flush
  PROVE  RecorderInv'
<1> DEFINE new == WithRollup(work)
<1>1. /\ pc = "counted" /\ Save(new, "counted")
      /\ clock' = clock /\ log' = log /\ memory' = memory /\ missed' = missed
  BY DEF Flush
<1>2. StoreOk(log, Out, CountedBy(memory), missed.raw, clock, new)
  BY WithRollupOk
<1> HIDE DEF new
<1>3. QED
  BY <1>1, <1>2, RestKeeps

LEMMA RecordPlatformKeeps ==
  ASSUME RecorderInv, RecordPlatform
  PROVE  RecorderInv'
<1> DEFINE new == [work EXCEPT !.platform = @ \cup {Newest}]
<1>1. /\ pc = "counted" /\ Save(new, "recorded")
      /\ clock' = clock /\ log' = log /\ memory' = memory /\ missed' = missed
  BY DEF RecordPlatform
<1>2. /\ RowsOk(log, Out, work.rollups) /\ RawOk(log, missed.raw, clock, work)
      /\ CountedOk(log, Out \cup CountedBy(memory), clock, work.rollups)
  BY Facts
<1>3. /\ new.rollups = work.rollups /\ new.fast = work.fast
      /\ new.platform = work.platform \cup {Newest}
      /\ DOMAIN new = Tables \cup {"rollups"} /\ new = [t \in DOMAIN new |-> new[t]]
  BY <1>2 DEF RawOk, Tables
<1> HIDE DEF new
<1>4. IsFiniteSet(new.platform)
  <2>1. IsFiniteSet(work.platform)
    BY <1>2 DEF RawOk, Tables
  <2>2. IsFiniteSet(work.platform \cup {Newest})
    BY ONLY <2>1, FS_AddElement
  <2>3. QED
    BY <1>3, <2>2
<1>5. \E i \in 1..Len(log) : Newest = log[i]
  BY <1>1, Facts DEF LogInv, Newest
<1>6. RawOk(log, missed.raw, clock, new)
  <2>1. \A t \in Tables : IsFiniteSet(new[t]) /\ \A r \in new[t] : \E i \in 1..Len(log) : r = log[i]
    BY <1>2, <1>3, <1>4, <1>5 DEF RawOk, Tables
  <2>2. \A i \in (1..Len(log)) \ missed.raw : log[i] \in new.fast \/ log[i].time + Age.fast < clock
    BY <1>2, <1>3 DEF RawOk
  <2>3. QED
    BY <1>3, <2>1, <2>2 DEF RawOk
<1>7. StoreOk(log, Out, CountedBy(memory), missed.raw, clock, new)
  BY <1>2, <1>3, <1>6 DEF StoreOk
<1>8. QED
  BY <1>1, <1>7, RestKeeps

(* apply_retention, of the rows that are old. *)
LEMMA RetentionKeeps ==
  ASSUME RecorderInv, Retention
  PROVE  RecorderInv'
<1> DEFINE new == [t \in DOMAIN work |-> {r \in work[t] : BeginOf(t, r) + Age[t] >= clock}]
<1>1. /\ pc \in {"counted", "recorded"} /\ Save(new, "idle")
      /\ clock' = clock /\ log' = log /\ memory' = memory /\ missed' = missed
  BY DEF Retention
<1>2. /\ RowsOk(log, Out, work.rollups) /\ RawOk(log, missed.raw, clock, work)
      /\ CountedOk(log, Out \cup CountedBy(memory), clock, work.rollups)
      /\ OrderedLog(log) /\ clock \in Nat
  BY Facts
<1>3. DOMAIN work = Tables \cup {"rollups"} /\ DOMAIN new = DOMAIN work
      /\ new = [t \in DOMAIN new |-> new[t]]
  BY <1>2 DEF RawOk
<1>4. \A t \in DOMAIN work : \A r : r \in new[t] <=> r \in work[t] /\ BeginOf(t, r) + Age[t] >= clock
  OBVIOUS
<1> HIDE DEF new
<1>5. /\ \A r : r \in new.rollups <=> r \in work.rollups /\ r.bucket * Minute + Age.rollups >= clock
      /\ \A r : r \in new.fast <=> r \in work.fast /\ r.time + Age.fast >= clock
      /\ new.platform \subseteq work.platform
  <2>1. "rollups" \in DOMAIN work /\ "fast" \in DOMAIN work /\ "platform" \in DOMAIN work
    BY <1>3 DEF Tables
  <2>2. \A r : r \in new["rollups"] <=> r \in work["rollups"] /\ BeginOf("rollups", r) + Age["rollups"] >= clock
    BY <1>4, <2>1
  <2>3. \A r : r \in new["fast"] <=> r \in work["fast"] /\ BeginOf("fast", r) + Age["fast"] >= clock
    BY <1>4, <2>1
  <2>4. QED
    BY <1>4, <2>1, <2>2, <2>3 DEF BeginOf
<1>6. RowsOk(log, Out, new.rollups)
  BY <1>2, <1>5, RowsSubset
<1>7. CountedOk(log, Out \cup CountedBy(memory), clock, new.rollups)
  <2>1. SUFFICES ASSUME NEW i \in 1..Len(log), i \notin Out \cup CountedBy(memory),
                        i \notin CountedBy(new.rollups), ~ Old(log, clock, i)
                 PROVE  FALSE
    BY DEF CountedOk
  <2>2. i \in CountedBy(work.rollups)
    BY <1>2, <2>1 DEF CountedOk
  <2>3. PICK r \in work.rollups : i \in r.of
    BY <2>2, CountedIs
  <2>4. RowOk(log, Out, r)
    BY <1>2 DEF RowsOk
  <2>5. Bucket(log[i].time) = r.bucket /\ r.bucket \in Nat
    BY <1>2, <2>3, <2>4, RowFacts
  <2>6. ~ (r.bucket * Minute + Age.rollups >= clock)
    BY <1>5, <2>1, <2>3, CountedIs
  <2>7. r.bucket * Minute + Age.rollups < clock
    <3> DEFINE x == r.bucket * Minute
    <3>1. x \in Nat /\ ~ (x + Age.rollups >= clock)
      BY <2>5, <2>6, Ages
    <3> HIDE DEF x
    <3>2. x + Age.rollups < clock
      BY ONLY <1>2, <3>1, Ages
    <3>3. QED
      BY <3>2 DEF x
  <2>8. QED
    BY <2>1, <2>5, <2>7 DEF Old
<1>8. RawOk(log, missed.raw, clock, new)
  <2>1. IsFiniteSet(new.fast) /\ IsFiniteSet(new.platform)
    <3>1. IsFiniteSet(work.fast) /\ IsFiniteSet(work.platform)
      BY <1>2 DEF RawOk, Tables
    <3>2. new.fast \in SUBSET work.fast /\ new.platform \in SUBSET work.platform
      BY <1>5
    <3>3. QED
      BY ONLY <3>1, <3>2, FS_Subset
  <2>2. \A t \in Tables : IsFiniteSet(new[t]) /\ \A r \in new[t] : \E i \in 1..Len(log) : r = log[i]
    BY <1>2, <1>5, <2>1 DEF RawOk, Tables
  <2>3. \A i \in (1..Len(log)) \ missed.raw : log[i] \in new.fast \/ log[i].time + Age.fast < clock
    <3>1. SUFFICES ASSUME NEW i \in (1..Len(log)) \ missed.raw
                   PROVE  log[i] \in new.fast \/ log[i].time + Age.fast < clock
      OBVIOUS
    <3>2. log[i] \in work.fast \/ log[i].time + Age.fast < clock
      BY <1>2 DEF RawOk
    <3>3. log[i].time \in Nat
      BY <1>2, Minutes
    <3>4. QED
      BY <1>2, <1>5, <3>2, <3>3, Ages
  <2>4. QED
    BY <1>3, <2>2, <2>3 DEF RawOk
<1>9. StoreOk(log, Out, CountedBy(memory), missed.raw, clock, new)
  BY <1>6, <1>7, <1>8 DEF StoreOk
<1>10. QED
  BY <1>1, <1>9, RestKeeps

(* The recorder without a rollup in memory, between two ticks. *)
LEMMA Anew ==
  ASSUME memory' = {}, pc' = "idle"
  PROVE  /\ CountedBy(memory') = {} /\ Underway' = {} /\ ClosedInv' /\ UnderwayInv'
         /\ Out' = missed'.rollups /\ MemoryOk(log, Out, memory)'
<1>1. CountedBy(memory') = {} /\ Underway' = {}
  BY DEF CountedBy, Underway
<1>2. MemoryOk(log, Out, memory)'
  BY FS_EmptySet DEF MemoryOk, RowsOk
<1>3. QED
  BY <1>1, <1>2 DEF ClosedInv, UnderwayInv, Out

(* stop(). *)
LEMMA StopKeeps ==
  ASSUME RecorderInv, Stop
  PROVE  RecorderInv'
<1> DEFINE new == WithRollup(work)
<1>1. /\ Underway = {} /\ memory' = {} /\ pc' = "idle" /\ work' = new /\ db' = new
      /\ clock' = clock /\ log' = log /\ missed' = missed /\ faults' = faults
  BY DEF Stop
<1>2. StoreOk(log, Out, {}, missed.raw, clock, new)
  BY WithRollupOk
<1> HIDE DEF new
<1>3. /\ CountedBy(memory') = {} /\ Underway' = {} /\ ClosedInv' /\ UnderwayInv'
      /\ Out' = missed'.rollups /\ MemoryOk(log, Out, memory)'
  BY <1>1, Anew
<1>4. Out' = Out
  BY <1>1, <1>3 DEF Out
<1>5. LogInv'
  BY <1>1, Facts DEF LogInv
<1>6. MissedInv'
  BY <1>1, <1>3 DEF RecorderInv, MissedInv
<1>7. StoresInv'
  BY <1>1, <1>2, <1>3, <1>4 DEF StoresInv
<1>8. QED
  BY <1>3, <1>5, <1>6, <1>7 DEF RecorderInv

(* The process dies. *)
LEMMA KillKeeps ==
  ASSUME RecorderInv, Kill
  PROVE  RecorderInv'
<1> DEFINE lost == (CountedBy(memory) \cup Underway) \ CountedBy(db.rollups)
<1>1. /\ memory' = {} /\ pc' = "idle" /\ work' = db /\ db' = db
      /\ clock' = clock /\ log' = log /\ Fault
      /\ missed' = [missed EXCEPT !.rollups = @ \cup lost]
  BY DEF Kill
<1>2. /\ CountedBy(memory') = {} /\ Underway' = {} /\ ClosedInv' /\ UnderwayInv'
      /\ Out' = missed'.rollups /\ MemoryOk(log, Out, memory)'
  BY <1>1, Anew
<1>3. lost \subseteq 1..Len(log)
  <2>1. ASSUME NEW i \in CountedBy(memory) PROVE i \in 1..Len(log)
    <3>1. PICK m \in memory : i \in m.of
      BY CountedIs
    <3>2. RowOk(log, Out, m) /\ OrderedLog(log)
      BY Facts DEF RowsOk
    <3>3. QED
      BY <3>1, <3>2, RowFacts
  <2>2. Underway \subseteq 1..Len(log)
    BY Facts DEF Underway, LogInv
  <2>3. QED
    BY <2>1, <2>2
<1> HIDE DEF lost
<1>4. /\ missed = [raw |-> missed.raw, rollups |-> missed.rollups]
      /\ missed.raw \subseteq 1..Len(log) /\ missed.rollups \subseteq 1..Len(log)
  BY DEF RecorderInv, MissedInv
<1>5. /\ missed' = [raw |-> missed'.raw, rollups |-> missed'.rollups]
      /\ missed'.raw = missed.raw /\ missed'.rollups = missed.rollups \cup lost
  <2>1. missed' = [raw |-> missed.raw, rollups |-> missed.rollups \cup lost]
    BY <1>1, <1>4
  <2>2. QED
    BY <2>1
<1>6. MissedInv'
  BY <1>1, <1>2, <1>3, <1>4, <1>5 DEF MissedInv
<1>7. faults' \in 0..MaxFault
  BY <1>1, Facts, Bounds DEF Fault, LogInv
<1>8. LogInv'
  BY <1>1, <1>7, Facts DEF LogInv
<1>9. Out \cap CountedBy(db.rollups) = {}
  <2>1. SUFFICES ASSUME NEW i \in Out, i \in CountedBy(db.rollups) PROVE FALSE
    OBVIOUS
  <2>2. PICK r \in db.rollups : i \in r.of
    BY <2>1, CountedIs
  <2>3. RowOk(log, Out, r)
    BY Facts DEF RowsOk
  <2>4. QED
    BY <2>2, <2>3 DEF RowOk
<1>10. /\ Out \subseteq Out' /\ Out' \cap CountedBy(db.rollups) = {}
       /\ Out \cup CountedBy(memory) \subseteq Out' \cup {} \cup CountedBy(db.rollups)
  BY <1>2, <1>5, <1>9 DEF Out, lost
<1>11. StoreOk(log, Out', {}, missed.raw, clock, db)
  <2>1. /\ OrderedLog(log) /\ RowsOk(log, Out, db.rollups) /\ clock \in Nat /\ clock <= clock
        /\ StoreOk(log, Out, CountedBy(memory), missed.raw, clock, db)
    BY Facts
  <2>2. RowsOk(log, Out', db.rollups)
    BY ONLY <1>10, <2>1, RowsOut
  <2>3. QED
    BY ONLY <1>10, <2>1, <2>2, StoreStays
<1>12. StoresInv'
  BY <1>1, <1>2, <1>5, <1>11 DEF StoresInv
<1>13. QED
  BY <1>2, <1>6, <1>8, <1>12 DEF RecorderInv

-----------------------------------------------------------------------------

(* The queries, and the invariant.                                         *)

(* The rows of an interval are finite in number. *)
LEMMA RawPointsFinite ==
  ASSUME RecorderInv, NEW tables \in SUBSET Tables, NEW from, NEW to
  PROVE  /\ IsFiniteSet(RawPoints(tables, from, to))
         /\ Cardinality(RawPoints(tables, from, to)) \in Nat
<1> DEFINE part == [t \in tables |-> {t} \X InTime(db[t], from, to)]
           P == {part[t] : t \in tables}
<1>1. IsFiniteSet(Tables)
  <2>1. Tables = {"fast"} \cup {"platform"}
    BY DEF Tables
  <2>2. IsFiniteSet({"fast"})
    BY FS_Singleton
  <2>3. QED
    BY ONLY <2>1, <2>2, FS_AddElement
<1>2. IsFiniteSet(tables)
  BY ONLY <1>1, FS_Subset, tables \in SUBSET Tables
<1>3. \A t \in tables : IsFiniteSet(InTime(db[t], from, to))
  <2>1. TAKE t \in tables
  <2>2. RawOk(log, missed.raw, clock, db)
    BY Facts
  <2>3. IsFiniteSet(db[t]) /\ InTime(db[t], from, to) \in SUBSET db[t]
    BY <2>2 DEF RawOk, InTime
  <2>4. QED
    BY ONLY <2>3, FS_Subset
<1>4. \A t \in tables : IsFiniteSet(part[t])
  <2>1. TAKE t \in tables
  <2>2. IsFiniteSet({t}) /\ IsFiniteSet(InTime(db[t], from, to))
    BY <1>3, FS_Singleton
  <2>3. IsFiniteSet({t} \X InTime(db[t], from, to))
    BY ONLY <2>2, FS_Product
  <2>4. QED
    BY <2>3
<1>5. IsFiniteSet(P)
  <2> HIDE DEF part
  <2>1. QED
    BY ONLY <1>2, FiniteImage
<1>6. IsFiniteSet(UNION P)
  <2>1. \A Q \in P : IsFiniteSet(Q)
    BY <1>4
  <2> HIDE DEF P
  <2>2. QED
    BY ONLY <1>5, <2>1, FS_UNION
<1>7. RawPoints(tables, from, to) = UNION P
  BY DEF RawPoints
<1>8. QED
  BY <1>6, <1>7, FS_CardinalityType

(* What CountRows counts, and chooses. *)
LEMMA CountRowsKeeps ==
  ASSUME RecorderInv, CountRows
  PROVE  QueryInv'
<1>1. PICK q \in Asked :
        LET points == RawPoints(q.tables, q.from, q.to) IN
        query' = [at |-> "counted", from |-> q.from, to |-> q.to, limit |-> q.limit,
                  tables |-> q.tables, rows |-> Cardinality(points),
                  useRollup |-> UsesRollup(Cardinality(points),
                                           Cardinality(RollupsIn(q.from, q.to)), q.limit)]
  BY DEF CountRows
<1>2. q.from \in Nat /\ q.to \in Nat /\ q.limit \in Nat \ {0} /\ q.tables \in SUBSET Tables
  BY Bounds
<1> DEFINE n == Cardinality(RawPoints(q.tables, q.from, q.to))
           m == Cardinality(RollupsIn(q.from, q.to))
<1>3. n \in Nat
  BY <1>2, RawPointsFinite
<1>4. /\ query'.at = "counted" /\ query'.from = q.from /\ query'.to = q.to /\ query'.limit = q.limit
      /\ query'.tables = q.tables /\ query'.rows = n
      /\ query'.useRollup = UsesRollup(n, m, q.limit)
  BY <1>1
<1> HIDE DEF n, m
<1>5. ~query'.useRollup => n <= q.limit
  <2>1. query'.useRollup <=> (n > q.limit \/ (n = 0 /\ m > 0))
    BY <1>4 DEF UsesRollup
  <2>2. ~(n > q.limit) => n <= q.limit
    BY <1>2, <1>3
  <2>3. QED
    BY ONLY <2>1, <2>2
<1>6. QED
  BY <1>2, <1>3, <1>4, <1>5 DEF QueryInv

(* The invariant holds in the beginning. *)
LEMMA InitInv ==
  ASSUME Init
  PROVE  Inv
<1>1. log = <<>> /\ Len(log) = 0 /\ 1..Len(log) = {} /\ clock = 0 /\ memory = {} /\ pc = "idle"
      /\ missed = [raw |-> {}, rollups |-> {}] /\ faults = 0
  BY DEF Init
<1>2. LogInv
  <2>1. OrderedLog(log)
    BY <1>1 DEF OrderedLog
  <2>2. QED
    BY <1>1, <2>1, Bounds DEF LogInv
<1>3. Underway = {} /\ CountedBy(memory) = {}
  BY <1>1 DEF Underway, CountedBy
<1>4. MissedInv /\ UnderwayInv /\ ClosedInv
  BY <1>1, <1>3 DEF MissedInv, UnderwayInv, ClosedInv
<1>5. MemoryOk(log, Out, memory)
  BY <1>1, FS_EmptySet DEF MemoryOk, RowsOk
<1>6. StoresInv
  <2>1. \A store \in {work, db} : store = NoRows
    BY DEF Init
  <2>2. /\ DOMAIN NoRows = Tables \cup {"rollups"} /\ NoRows = [t \in DOMAIN NoRows |-> NoRows[t]]
        /\ NoRows.rollups = {} /\ \A t \in Tables : NoRows[t] = {}
    BY DEF NoRows
  <2>3. IsFiniteSet({})
    BY FS_EmptySet
  <2>4. RowsOk(log, Out, {}) /\ CountedOk(log, Out \cup CountedBy(memory), clock, {})
    BY <1>1, <2>3 DEF RowsOk, CountedOk
  <2>5. RawOk(log, missed.raw, clock, NoRows)
    BY <1>1, <2>2, <2>3 DEF RawOk
  <2>6. StoreOk(log, Out, CountedBy(memory), missed.raw, clock, NoRows)
    BY <2>2, <2>4, <2>5 DEF StoreOk
  <2>7. QED
    BY <2>1, <2>6 DEF StoresInv
<1>7. QueryInv /\ AnswerInv
  BY DEF Init, QueryInv, AnswerInv, NoAnswer
<1>8. QED
  BY <1>2, <1>4, <1>5, <1>6, <1>7 DEF Inv, RecorderInv

(* A query changes nothing of the recorder. *)
LEMMA SameRecorder ==
  ASSUME RecorderInv, UNCHANGED <<clock, log, pc, memory, work, db, missed, faults>>
  PROVE  RecorderInv'
<1>1. Underway' = Underway /\ Out' = Out
  BY DEF Underway, Out
<1>2. LogInv'
  BY DEF RecorderInv, LogInv
<1>3. MissedInv' /\ ClosedInv'
  BY <1>1 DEF RecorderInv, MissedInv, ClosedInv
<1>4. UnderwayInv'
  BY <1>1 DEF RecorderInv, UnderwayInv, ThisMinute, Newest
<1>5. StoresInv' /\ MemoryOk(log, Out, memory)'
  BY <1>1 DEF RecorderInv, StoresInv
<1>6. QED
  BY <1>2, <1>3, <1>4, <1>5 DEF RecorderInv

(* Every step keeps the invariant. *)
LEMMA StepInv ==
  ASSUME Inv, [Next]_vars
  PROVE  Inv'
<1>1. RecorderInv /\ QueryInv /\ AnswerInv
  BY DEF Inv
<1>2. CASE \/ TimePasses \/ RecordSample \/ CloseMinute \/ Count \/ Flush
           \/ RecordPlatform \/ Retention \/ Stop \/ Kill
  <2>1. RecorderInv'
    BY <1>1, <1>2, TimePassesKeeps, RecordSampleKeeps, CloseMinuteKeeps, CountKeeps, FlushKeeps,
       RecordPlatformKeeps, RetentionKeeps, StopKeeps, KillKeeps
  <2>2. query' = query /\ answer' = answer
    BY <1>2 DEF TimePasses, RecordSample, CloseMinute, Count, Flush, RecordPlatform, Retention,
                Stop, Kill
  <2>3. QED
    BY <1>1, <2>1, <2>2 DEF Inv, QueryInv, AnswerInv
<1>3. CASE CountRows
  <2>1. UNCHANGED <<clock, log, pc, memory, work, db, missed, faults>> /\ answer' = answer
    BY <1>3 DEF CountRows
  <2>2. QED
    BY <1>1, <1>3, <2>1, SameRecorder, CountRowsKeeps DEF Inv, AnswerInv
<1>4. CASE ReadRollups \/ ReadRaw
  <2>1. UNCHANGED <<clock, log, pc, memory, work, db, missed, faults>>
    BY <1>4 DEF ReadRollups, ReadRaw
  <2>2. query' = NoQuery /\ answer'.kind \in {"rollup", "refused", "raw"}
    BY <1>4 DEF ReadRollups, ReadRaw
  <2>3. QED
    BY <1>1, <2>1, <2>2, SameRecorder DEF Inv, AnswerInv, QueryInv
<1>5. CASE UNCHANGED vars
  <2>1. /\ UNCHANGED <<clock, log, pc, memory, work, db, missed, faults>>
        /\ query' = query /\ answer' = answer
    BY <1>5 DEF vars
  <2>2. QED
    BY <1>1, <2>1, SameRecorder DEF Inv, QueryInv, AnswerInv
<1>6. QED
  BY <1>2, <1>3, <1>4, <1>5 DEF Next

(* The invariant holds. *)
THEOREM Invariant == Spec => []Inv
<1>1. Init => Inv
  BY InitInv
<1>2. Inv /\ [Next]_vars => Inv'
  BY StepInv
<1>3. QED
  BY <1>1, <1>2, PTL DEF Spec

(* The types; a minute has one rollup, and a row is a sample of the log. *)
THEOREM TypeCorrect == Spec => []TypeOK
<1>1. ASSUME Inv PROVE TypeOK
  <2>1. RecorderInv /\ LogInv /\ AnswerInv
    BY <1>1, Facts DEF Inv
  <2>2. \A store \in {work, db} : RowsOk(log, Out, store.rollups) /\ RawOk(log, missed.raw, clock, store)
    BY <2>1, Facts
  <2>3. \A p, q \in memory : p = q
    BY <2>1, Facts DEF MemoryOk
  <2>4. QED
    BY <2>1, <2>2, <2>3 DEF LogInv, AnswerInv, TypeOK, RowsOk, RawOk
<1>2. QED
  BY <1>1, Invariant, PTL

(* The point that a row makes. *)
LEMMA PointOfRow ==
  ASSUME RecorderInv, NEW r, RowOk(log, Out, r)
  PROVE  /\ r.bucket \in Nat /\ r.of \in SUBSET (1..Len(log)) /\ r.of # {}
         /\ Says(log, RollupPoint(r), r.of)
         /\ RollupPoint(r).high = (High(log, r.of) # {})
         /\ RollupPoint(r).from = r.bucket /\ RollupPoint(r).to = r.bucket
         /\ RollupPoint(r) = Reference(r.bucket, r.bucket, r.of)
<1> DEFINE S == r.of
           p == RollupPoint(r)
<1>1. OrderedLog(log) /\ log \in Seq(Sample)
  BY Facts DEF OrderedLog
<1>2. r.bucket \in Nat /\ S \in SUBSET (1..Len(log)) /\ S # {}
  BY <1>1, RowFacts
<1>3. RowSays(log, r, S)
  BY DEF RowOk
<1>4. p = [from |-> r.bucket, to |-> r.bucket, total |-> r.total, count |-> r.count,
           first |-> r.first, last |-> r.last, minimum |-> r.minimum, maximum |-> r.maximum,
           status |-> r.status, high |-> r.high > 0, highStatus |-> r.highStatus]
  BY DEF RollupPoint
<1>5. /\ p.from = r.bucket /\ p.to = r.bucket /\ p.total = r.total /\ p.count = r.count
      /\ p.first = r.first /\ p.last = r.last /\ p.minimum = r.minimum /\ p.maximum = r.maximum
      /\ p.status = r.status /\ p.highStatus = r.highStatus
  BY <1>4
<1>6. p.high = (High(log, S) # {})
  <2>1. p.high = (r.high > 0)
    BY <1>4
  <2>2. (r.high > 0) <=> High(log, S) # {}
    BY <1>3 DEF RowSays
  <2>3. QED
    BY <2>1, <2>2
<1> HIDE DEF S, p
<1>7. Says(log, r, S)
  BY <1>3 DEF RowSays
<1>8. Says(log, p, S)
  <2>1. SaysTotal(log, p, S) /\ SaysCount(log, p, S)
    BY <1>5, <1>7 DEF Says, SaysTotal, SaysCount
  <2>2. SaysFirst(log, p, S) /\ SaysLast(log, p, S)
    BY <1>5, <1>7 DEF Says, SaysFirst, SaysLast
  <2>3. SaysMinimum(log, p, S) /\ SaysMaximum(log, p, S)
    BY <1>5, <1>7 DEF Says, SaysMinimum, SaysMaximum
  <2>4. SaysStatus(log, p, S) /\ SaysHighStatus(log, p, S)
    BY <1>5, <1>7 DEF Says, SaysStatus, SaysHighStatus
  <2>5. QED
    BY <2>1, <2>2, <2>3, <2>4 DEF Says
<1>9. p = Reference(r.bucket, r.bucket, S)
  <2>1. Reference(r.bucket, r.bucket, S) =
           [from |-> r.bucket, to |-> r.bucket, total |-> p.total, count |-> p.count,
            first |-> p.first, last |-> p.last, minimum |-> p.minimum, maximum |-> p.maximum,
            status |-> p.status, high |-> p.high, highStatus |-> p.highStatus]
    BY ONLY <1>1, <1>2, <1>6, <1>8, SaysReference
  <2>2. p = [from |-> r.bucket, to |-> r.bucket, total |-> p.total, count |-> p.count,
            first |-> p.first, last |-> p.last, minimum |-> p.minimum, maximum |-> p.maximum,
            status |-> p.status, high |-> p.high, highStatus |-> p.highStatus]
    BY <1>4
  <2>3. QED
    BY ONLY <2>1, <2>2
<1>10. QED
  BY <1>2, <1>5, <1>6, <1>8, <1>9 DEF S, p

(* A rollup says of the samples it has counted what they are, and of its
   minute none before them is left out but by a failure. *)
THEOREM RollupsSayWhatWasRecorded == Spec => []RollupsAreExact
<1>1. ASSUME Inv PROVE RollupsAreExact
  <2>1. RecorderInv
    BY <1>1 DEF Inv
  <2>2. SUFFICES ASSUME NEW r \in db.rollups \cup memory
                 PROVE  /\ r.of # {} /\ r.of \subseteq Recorded(r.bucket, r.bucket) \ missed.rollups
                        /\ RollupPoint(r) = Reference(r.bucket, r.bucket, r.of)
                        /\ r.samples = Cardinality(r.of)
                        /\ \A i \in Recorded(r.bucket, r.bucket) \ (r.of \cup missed.rollups) :
                             \A j \in r.of : j < i
    BY DEF RollupsAreExact
  <2>3. RowOk(log, Out, r)
    BY <2>1, <2>2, Facts DEF RowsOk
  <2>4. /\ r.bucket \in Nat /\ r.of \in SUBSET (1..Len(log)) /\ r.of # {}
        /\ RollupPoint(r) = Reference(r.bucket, r.bucket, r.of)
    BY <2>1, <2>3, PointOfRow
  <2>5. OrderedLog(log) /\ Len(log) \in Nat
    BY <2>1, Facts
  <2>6. Recorded(r.bucket, r.bucket) = InMinute(log, r.bucket)
    <3>1. \A i \in 1..Len(log) : Bucket(log[i].time) \in Nat
      BY <2>5, Minutes
    <3>2. \A i \in 1..Len(log) : r.bucket <= Bucket(log[i].time) /\ Bucket(log[i].time) <= r.bucket
                                   <=> Bucket(log[i].time) = r.bucket
      BY <2>4, <3>1
    <3>3. QED
      BY <3>2 DEF Recorded, InMinute
  <2>7. r.of \subseteq InMinute(log, r.bucket) \ missed.rollups /\ r.samples = Cardinality(r.of)
    BY <2>3 DEF RowOk, RowSays, Out
  <2>8. \A i \in InMinute(log, r.bucket) \ (r.of \cup missed.rollups) : \A j \in r.of : j < i
    <3>1. SUFFICES ASSUME NEW i \in InMinute(log, r.bucket), i \notin r.of, i \notin missed.rollups,
                          NEW j \in r.of
                   PROVE  j < i
      OBVIOUS
    <3>2. CASE i \notin Underway
      BY <2>3, <3>1, <3>2 DEF RowOk, Out
    <3>3. CASE i \in Underway
      <4>1. i = Len(log) /\ j \in 1..Len(log) /\ j # i
        BY <2>4, <3>1, <3>3, UnderwayIs
      <4>2. QED
        BY <2>5, <4>1
    <3>4. QED
      BY <3>2, <3>3
  <2>9. QED
    BY <2>4, <2>6, <2>7, <2>8
<1>2. QED
  BY <1>1, Invariant, PTL

-----------------------------------------------------------------------------

(* The answers.                                                            *)

(* The points of an interval. *)
PointsIn(from, to) == {RollupPoint(r) : r \in RollupsIn(from, to)}

(* What the stored rollups of some minutes have counted. *)
CountedIn(from, to) == CountedBy({r \in db.rollups : from <= r.bucket /\ r.bucket <= to})

(* Point p says what the samples are that the rollups of its minutes count. *)
Exact(p) ==
  CountedIn(p.from, p.to) # {} /\ p = Reference(p.from, p.to, CountedIn(p.from, p.to))

(* The same, by the rows. *)
LEMMA CountedInIs ==
  ASSUME NEW from, NEW to
  PROVE  \A i : i \in CountedIn(from, to) <=>
                 \E r \in db.rollups : from <= r.bucket /\ r.bucket <= to /\ i \in r.of
BY DEF CountedIn, CountedBy

(* What the one rollup of a minute has counted. *)
LEMMA CountedInOne ==
  ASSUME RecorderInv, NEW r \in db.rollups
  PROVE  /\ RowOk(log, Out, r) /\ r.bucket \in Nat
         /\ CountedIn(r.bucket, r.bucket) = r.of
<1>1. RowsOk(log, Out, db.rollups)
  BY Facts
<1>2. \A q \in db.rollups : RowOk(log, Out, q) /\ q.bucket \in Nat
  BY <1>1, PointOfRow DEF RowsOk
<1>3. \A q \in db.rollups : r.bucket <= q.bucket /\ q.bucket <= r.bucket <=> q = r
  <2>1. TAKE q \in db.rollups
  <2>2. r.bucket <= q.bucket /\ q.bucket <= r.bucket <=> q.bucket = r.bucket
    BY <1>2
  <2>3. QED
    BY <1>1, <2>2 DEF RowsOk
<1>4. ASSUME NEW i PROVE i \in CountedIn(r.bucket, r.bucket) <=> i \in r.of
  BY <1>3, CountedInIs
<1>5. CountedIn(r.bucket, r.bucket) = r.of
  BY <1>4
<1>6. QED
  BY <1>2, <1>5

(* The points of an interval are those of the rows in it, one of a minute. *)
LEMMA PointsOfRows ==
  ASSUME RecorderInv, NEW from, NEW to
  PROVE  /\ Apart(PointsIn(from, to))
         /\ \A p \in PointsIn(from, to) :
              /\ p.from \in Nat /\ p.to = p.from
              /\ Bucket(from) <= p.from /\ p.from <= Bucket(to)
              /\ CountedIn(p.from, p.from) \in SUBSET (1..Len(log))
              /\ CountedIn(p.from, p.from) # {}
              /\ \A i \in CountedIn(p.from, p.from) : Bucket(log[i].time) = p.from
              /\ Says(log, p, CountedIn(p.from, p.from))
              /\ p.high = (High(log, CountedIn(p.from, p.from)) # {})
              /\ Exact(p)
         /\ \A r \in db.rollups : Bucket(from) <= r.bucket /\ r.bucket <= Bucket(to) =>
              \E p \in PointsIn(from, to) : p.from = r.bucket
<1> DEFINE R == RollupsIn(from, to)
           f == [r \in R |-> RollupPoint(r)]
           P == {f[r] : r \in R}
<1>1. P = PointsIn(from, to)
  BY DEF PointsIn
<1>2. R \in SUBSET db.rollups /\ \A r \in R : Bucket(from) <= r.bucket /\ r.bucket <= Bucket(to)
  BY DEF RollupsIn
<1>3. \A r \in db.rollups : Bucket(from) <= r.bucket /\ r.bucket <= Bucket(to) => r \in R
  BY DEF RollupsIn
<1>4. \A r \in R : f[r] = RollupPoint(r)
  OBVIOUS
<1>5. RowsOk(log, Out, db.rollups) /\ OrderedLog(log)
  BY Facts
<1>6. IsFiniteSet(R)
  BY <1>2, <1>5, FS_Subset DEF RowsOk
<1> HIDE DEF R, f
<1>7. IsFiniteSet(P)
  BY ONLY <1>6, FiniteImage
<1>8. \A r \in R :
        /\ r \in db.rollups /\ RowOk(log, Out, r) /\ r.bucket \in Nat
        /\ f[r].from = r.bucket /\ f[r].to = r.bucket
        /\ CountedIn(r.bucket, r.bucket) = r.of
        /\ r.of \in SUBSET (1..Len(log)) /\ r.of # {}
        /\ Says(log, f[r], r.of) /\ f[r].high = (High(log, r.of) # {})
        /\ f[r] = Reference(r.bucket, r.bucket, r.of)
  <2>1. TAKE r \in R
  <2>2. r \in db.rollups
    BY <1>2
  <2>3. RowOk(log, Out, r) /\ r.bucket \in Nat /\ CountedIn(r.bucket, r.bucket) = r.of
    BY <2>2, CountedInOne
  <2>4. f[r] = RollupPoint(r)
    BY <1>4
  <2>5. QED
    BY <2>2, <2>3, <2>4, PointOfRow
<1>9. \A r \in R : \A i \in r.of : Bucket(log[i].time) = r.bucket
  BY <1>5, <1>8, RowFacts
<1>10. \A p, q \in P : p # q => p.from # q.from
  <2>1. \A r, t \in R : r.bucket = t.bucket => r = t
    BY <1>2, <1>5 DEF RowsOk
  <2>2. QED
    BY <1>8, <2>1
<1>11. \A p \in P : p.from \in Nat
  BY <1>8
<1>12. Apart(P)
  BY <1>7, <1>10, <1>11 DEF Apart
<1>13. \A p \in P :
              /\ p.from \in Nat /\ p.to = p.from
              /\ Bucket(from) <= p.from /\ p.from <= Bucket(to)
              /\ CountedIn(p.from, p.from) \in SUBSET (1..Len(log))
              /\ CountedIn(p.from, p.from) # {}
              /\ \A i \in CountedIn(p.from, p.from) : Bucket(log[i].time) = p.from
              /\ Says(log, p, CountedIn(p.from, p.from))
              /\ p.high = (High(log, CountedIn(p.from, p.from)) # {})
              /\ Exact(p)
  <2>1. SUFFICES ASSUME NEW r \in R, NEW p, p = f[r]
                 PROVE  /\ p.from \in Nat /\ p.to = p.from
                        /\ Bucket(from) <= p.from /\ p.from <= Bucket(to)
                        /\ CountedIn(p.from, p.from) \in SUBSET (1..Len(log))
                        /\ CountedIn(p.from, p.from) # {}
                        /\ \A i \in CountedIn(p.from, p.from) : Bucket(log[i].time) = p.from
                        /\ Says(log, p, CountedIn(p.from, p.from))
                        /\ p.high = (High(log, CountedIn(p.from, p.from)) # {})
                        /\ Exact(p)
    OBVIOUS
  <2>2. p.from = r.bucket /\ p.to = r.bucket /\ CountedIn(p.from, p.to) = r.of
        /\ CountedIn(p.from, p.from) = r.of
    BY <1>8, <2>1
  <2>3. Exact(p)
    BY <1>8, <2>1, <2>2 DEF Exact
  <2>4. QED
    BY <1>2, <1>8, <1>9, <2>1, <2>2, <2>3
<1>14. \A r \in db.rollups : Bucket(from) <= r.bucket /\ r.bucket <= Bucket(to) =>
              \E p \in P : p.from = r.bucket
  BY <1>3, <1>8
<1>15. QED
  BY <1>1, <1>12, <1>13, <1>14

(* The point of a group that leaves out none between two of its own. *)
LEMMA GroupExact ==
  ASSUME RecorderInv, NEW from, NEW to, Bucket(from) \in Nat, Bucket(to) \in Nat,
         NEW g, g # {}, g \subseteq PointsIn(from, to), IsFiniteSet(g),
         \A p, q \in g, r \in PointsIn(from, to) :
           p.from <= r.from /\ r.from <= q.from => r \in g
  PROVE  Exact(GroupPoint(g))
<1> DEFINE Q == [p \in g |-> CountedIn(p.from, p.from)]
           m == GroupPoint(g)
           S == Together(Q, g)
<1>1. Apart(PointsIn(from, to))
  BY PointsOfRows
<1>2. \A p \in g : Q[p] = CountedIn(p.from, p.from)
  OBVIOUS
<1> HIDE DEF Q, m
<1>3. \A p \in g :
        /\ p.from \in Nat /\ p.to = p.from /\ Bucket(from) <= p.from /\ p.from <= Bucket(to)
        /\ Q[p] \in SUBSET (1..Len(log)) /\ Q[p] # {}
        /\ \A i \in Q[p] : Bucket(log[i].time) = p.from
        /\ Says(log, p, Q[p]) /\ p.high = (High(log, Q[p]) # {})
  <2>1. TAKE p \in g
  <2>2. p \in PointsIn(from, to) /\ Q[p] = CountedIn(p.from, p.from)
    BY <1>2
  <2>3. QED
    BY <2>2, PointsOfRows
<1>4. \A p, q \in g : p.from < q.from => \A i \in Q[p], j \in Q[q] : i < j
  <2>1. OrderedLog(log)
    BY Facts
  <2>2. \A i, j \in 1..Len(log) : Bucket(log[i].time) < Bucket(log[j].time) => i < j
    BY ONLY <2>1, Minutes
  <2>3. \A p \in g : \A i \in Q[p] : i \in 1..Len(log) /\ Bucket(log[i].time) = p.from
    BY <1>3
  <2>4. QED
    BY <2>2, <2>3
<1>5. \A p, q \in g : p # q => p.from < q.from \/ q.from < p.from
  BY <1>1, <1>3 DEF Apart
<1>6. InOrder(log, g, Q)
  <2>1. \A p, q \in g : p # q =>
          \/ p.from < q.from /\ \A i \in Q[p], j \in Q[q] : i < j
          \/ q.from < p.from /\ \A i \in Q[p], j \in Q[q] : j < i
    BY <1>4, <1>5
  <2>2. log \in Seq(Sample)
    BY Facts DEF OrderedLog
  <2>3. QED
    BY <1>3, <2>1, <2>2 DEF InOrder
<1>7. Says(log, m, S) /\ m.high = (High(log, S) # {})
  BY <1>6, MergedSays DEF m
<1>8. /\ \E p \in g : m.from = p.from /\ \A q \in g : p.from <= q.from
      /\ \E p \in g : m.to = p.from /\ \A q \in g : q.from <= p.from
  <2>1. \A p \in g : p.from \in Nat /\ p.to = p.from
    BY <1>3
  <2>2. QED
    BY ONLY <2>1, g # {}, IsFiniteSet(g), MergedSpan DEF m
<1>9. PICK a \in g : m.from = a.from /\ \A q \in g : a.from <= q.from
  BY <1>8
<1>10. PICK z \in g : m.to = z.from /\ \A q \in g : q.from <= z.from
  BY <1>8
<1>11. ASSUME NEW p \in g, NEW i \in Q[p] PROVE i \in CountedIn(m.from, m.to)
  <2>1. PICK r \in db.rollups : p.from <= r.bucket /\ r.bucket <= p.from /\ i \in r.of
    BY <1>2, CountedInIs
  <2>2. r.bucket \in Nat /\ p.from \in Nat
    BY <1>3, CountedInOne
  <2>3. r.bucket = p.from
    BY <2>1, <2>2
  <2>4. QED
    BY <1>9, <1>10, <2>1, <2>3, CountedInIs
<1>12. ASSUME NEW i \in CountedIn(m.from, m.to) PROVE \E p \in g : i \in Q[p]
  <2>1. PICK r \in db.rollups : m.from <= r.bucket /\ r.bucket <= m.to /\ i \in r.of
    BY CountedInIs
  <2>2. r.bucket \in Nat /\ CountedIn(r.bucket, r.bucket) = r.of
    BY CountedInOne
  <2>3. a.from <= r.bucket /\ r.bucket <= z.from
    BY <1>9, <1>10, <2>1
  <2>4. Bucket(from) <= r.bucket /\ r.bucket <= Bucket(to)
    <3>1. Bucket(from) <= a.from /\ z.from <= Bucket(to) /\ a.from \in Nat /\ z.from \in Nat
      BY <1>3
    <3>2. QED
      BY ONLY <2>2, <2>3, <3>1, Bucket(from) \in Nat, Bucket(to) \in Nat
  <2>5. PICK p \in PointsIn(from, to) : p.from = r.bucket
    BY <2>4, PointsOfRows
  <2>6. p \in g
    BY <2>3, <2>5
  <2>7. QED
    BY <1>2, <2>1, <2>2, <2>5, <2>6
<1>13. S = CountedIn(m.from, m.to)
  BY <1>11, <1>12 DEF Together
<1>14. S \in SUBSET (1..Len(log)) /\ S # {} /\ log \in Seq(Sample)
  <2>1. S \in SUBSET (1..Len(log)) /\ S # {}
    BY <1>3 DEF Together
  <2>2. QED
    BY <2>1, Facts DEF OrderedLog
<1> HIDE DEF S
<1>15. Reference(m.from, m.to, S) =
           [from |-> m.from, to |-> m.to, total |-> m.total, count |-> m.count,
            first |-> m.first, last |-> m.last, minimum |-> m.minimum, maximum |-> m.maximum,
            status |-> m.status, high |-> m.high, highStatus |-> m.highStatus]
  BY ONLY <1>7, <1>14, SaysReference
<1>16. m = [from |-> m.from, to |-> m.to, total |-> m.total, count |-> m.count,
            first |-> m.first, last |-> m.last, minimum |-> m.minimum, maximum |-> m.maximum,
            status |-> m.status, high |-> m.high, highStatus |-> m.highStatus]
  BY MergedFields DEF m
<1>17. Exact(m)
  BY <1>13, <1>14, <1>15, <1>16 DEF Exact
<1>18. QED
  BY <1>17 DEF m

(* A rollup answer: its points are exact and apart, they are as few as was
   asked, and each row of the interval is in one of them. *)
LEMMA CoarsenedFacts ==
  ASSUME RecorderInv, NEW from \in Nat, NEW to \in Nat, NEW limit \in Nat \ {0},
         NEW C, C = Coarsened(PointsIn(from, to), limit)
  PROVE  /\ \A p \in C : Exact(p)
         /\ \A p, q \in C : p # q => p.to < q.from \/ q.to < p.from
         /\ Cardinality(C) <= limit
         /\ \A p \in PointsIn(from, to) : \E q \in C : q.from <= p.from /\ p.from <= q.to
<1> DEFINE P == PointsIn(from, to)
           width == Width(Cardinality(P), limit)
           Gs == Groups(P, width)
           f == [g \in Gs |-> GroupPoint(g)]
<1>1. Bucket(from) \in Nat /\ Bucket(to) \in Nat
  BY Buckets
<1>2. /\ Apart(P)
      /\ \A p \in P : p.from \in Nat /\ p.to = p.from /\ Exact(p)
  BY PointsOfRows
<1>3. \A p \in P : p.from \in Nat /\ Exact(p)
  BY <1>2
<1>4. \A p, q \in P : p # q => p.to < q.from \/ q.to < p.from
  BY <1>2, <1>3 DEF Apart
<1>5. Cardinality(P) \in Nat
  BY <1>2, FS_CardinalityType DEF Apart
<1>6. CASE Cardinality(P) <= limit
  <2>1. C = P
    BY <1>6 DEF Coarsened
  <2>2. QED
    BY <1>2, <1>3, <1>4, <1>6, <2>1
<1>7. CASE ~(Cardinality(P) <= limit)
  <2>1. C = {f[g] : g \in Gs} /\ \A g \in Gs : f[g] = GroupPoint(g)
    BY <1>7 DEF Coarsened
  <2> HIDE DEF P, width, Gs, f
  <2>2. width \in Nat \ {0} /\ IsFiniteSet(Gs) /\ Cardinality(Gs) <= limit
    BY <1>2, GroupsFit DEF width, Gs
  <2>3. /\ \A g \in Gs : g # {} /\ g \subseteq P /\ IsFiniteSet(g)
        /\ \A p \in P : \E g \in Gs : p \in g
        /\ \A g, h \in Gs : g # h =>
             \/ \A p \in g, q \in h : p.from < q.from
             \/ \A p \in g, q \in h : q.from < p.from
        /\ \A g \in Gs : \A p, q \in g, r \in P :
             p.from <= r.from /\ r.from <= q.from => r \in g
    BY ONLY <1>2, <2>2, GroupsPart DEF Gs
  <2>4. \A g \in Gs : Exact(GroupPoint(g))
    <3>1. TAKE g \in Gs
    <3>2. /\ g # {} /\ g \subseteq PointsIn(from, to) /\ IsFiniteSet(g)
          /\ \A p, q \in g, r \in PointsIn(from, to) :
               p.from <= r.from /\ r.from <= q.from => r \in g
      BY <2>3 DEF P
    <3>3. QED
      BY ONLY <1>1, <3>2, GroupExact, RecorderInv
  <2>5. \A g \in Gs :
          /\ \E p \in g : f[g].from = p.from /\ \A q \in g : p.from <= q.from
          /\ \E p \in g : f[g].to = p.from /\ \A q \in g : q.from <= p.from
    <3>1. TAKE g \in Gs
    <3>2. g # {} /\ IsFiniteSet(g) /\ \A p \in g : p.from \in Nat /\ p.to = p.from
      BY <1>2, <1>3, <2>3
    <3>3. f[g] = GroupPoint(g)
      BY <2>1
    <3>4. QED
      BY ONLY <3>2, <3>3, MergedSpan
  <2>6. \A p \in C : Exact(p)
    BY <2>1, <2>4
  <2>7. \A p, q \in C : p # q => p.to < q.from \/ q.to < p.from
    <3>1. SUFFICES ASSUME NEW g \in Gs, NEW h \in Gs, f[g] # f[h]
                   PROVE  f[g].to < f[h].from \/ f[h].to < f[g].from
      BY <2>1
    <3>2. PICK gz \in g : f[g].to = gz.from
      BY <2>5
    <3>3. PICK ha \in h : f[h].from = ha.from
      BY <2>5
    <3>4. PICK ga \in g : f[g].from = ga.from
      BY <2>5
    <3>5. PICK hz \in h : f[h].to = hz.from
      BY <2>5
    <3>6. \/ \A p \in g, q \in h : p.from < q.from
          \/ \A p \in g, q \in h : q.from < p.from
      BY <2>3, <3>1
    <3>7. QED
      BY <3>2, <3>3, <3>4, <3>5, <3>6
  <2>8. Cardinality(C) <= limit
    <3>1. IsFiniteSet({f[g] : g \in Gs}) /\ Cardinality({f[g] : g \in Gs}) <= Cardinality(Gs)
      BY ONLY <2>2, FiniteImage
    <3>2. Cardinality(C) \in Nat /\ Cardinality(Gs) \in Nat /\ Cardinality(C) <= Cardinality(Gs)
      BY <2>1, <2>2, <3>1, FS_CardinalityType
    <3>3. QED
      BY ONLY <2>2, <3>2, limit \in Nat \ {0}
  <2>9. \A p \in P : \E q \in C : q.from <= p.from /\ p.from <= q.to
    <3>1. TAKE p \in P
    <3>2. PICK g \in Gs : p \in g
      BY <2>3
    <3>3. f[g].from <= p.from /\ p.from <= f[g].to
      BY <2>5, <3>2
    <3>4. QED
      BY <2>1, <3>3
  <2>10. QED
    BY <2>6, <2>7, <2>8, <2>9 DEF P
<1>8. QED
  BY <1>6, <1>7

(* The rollups and the log say the same after a step that leaves them. *)
LEMMA ExactStays ==
  ASSUME log' = log, db' = db, NEW p, Exact(p)
  PROVE  Exact(p)'
<1>1. \A from, to : CountedIn(from, to)' = CountedIn(from, to)
  BY DEF CountedIn
<1>2. \A from, to, samples : Reference(from, to, samples)' = Reference(from, to, samples)
  BY DEF Reference
<1>3. QED
  BY <1>1, <1>2 DEF Exact

(* A step changes the answer only when it reads. *)
LEMMA OnlyReads ==
  ASSUME [Next]_vars, ~ReadRollups, ~ReadRaw
  PROVE  \/ answer' = answer /\ answer.kind = "none"
         \/ UNCHANGED vars
BY DEF Next, NoAnswer, TimePasses, RecordSample, CloseMinute, Count, Flush, RecordPlatform,
       Retention, Stop, Kill, CountRows

(* What an answer is made of. *)
LEMMA ReadsRollups ==
  ASSUME Inv, ReadRollups
  PROVE  /\ query.from \in Nat /\ query.to \in Nat /\ query.limit \in Nat \ {0}
         /\ answer'.kind = "rollup" /\ answer'.asked = query
         /\ answer'.points = Coarsened(PointsIn(query.from, query.to), query.limit)
         /\ UNCHANGED <<clock, log, pc, memory, db, missed>>
<1>1. query # NoQuery
  BY DEF ReadRollups, NoQuery
<1>2. query.from \in Nat /\ query.to \in Nat /\ query.limit \in Nat \ {0}
  BY <1>1 DEF Inv, QueryInv
<1>3. QED
  BY <1>2 DEF ReadRollups, PointsIn

LEMMA ReadsRaw ==
  ASSUME Inv, ReadRaw
  PROVE  LET points == RawPoints(query.tables, query.from, query.to) IN
         /\ query.from \in Nat /\ query.to \in Nat /\ query.limit \in Nat
         /\ query.rows \in Nat /\ query.rows <= query.limit
         /\ Cardinality(points) \in Nat /\ answer'.points = points /\ answer'.asked = query
         /\ answer'.kind = IF Cardinality(points) > query.limit THEN "refused" ELSE "raw"
         /\ UNCHANGED <<clock, log, pc, memory, db, missed>>
<1> DEFINE points == RawPoints(query.tables, query.from, query.to)
<1>1. query.at = "counted" /\ ~query.useRollup
      /\ answer' = [kind |-> IF Cardinality(points) > query.limit THEN "refused" ELSE "raw",
                    asked |-> query, points |-> points]
      /\ UNCHANGED <<clock, log, pc, memory, db, missed>>
  BY DEF ReadRaw
<1>2. query # NoQuery
  BY <1>1 DEF NoQuery
<1>3. /\ query.from \in Nat /\ query.to \in Nat /\ query.limit \in Nat
      /\ query.rows \in Nat /\ query.tables \in SUBSET Tables /\ query.rows <= query.limit
  BY <1>1, <1>2 DEF Inv, QueryInv
<1>4. Cardinality(points) \in Nat
  BY <1>3, RawPointsFinite DEF Inv
<1> HIDE DEF points
<1>5. answer'.asked = query /\ answer'.points = points
      /\ answer'.kind = IF Cardinality(points) > query.limit THEN "refused" ELSE "raw"
  BY <1>1
<1>6. QED
  BY <1>1, <1>3, <1>4, <1>5 DEF points

(* A point of a rollup answer says what the samples are that the rollups of
   its minutes have counted, and no minute is in two of its points. *)
THEOREM AnswersSayWhatWasRecorded == Spec => []PointsAreExact
<1>1. PointsAreExact <=>
        (answer.kind = "rollup" =>
           /\ \A p \in answer.points : Exact(p)
           /\ \A p, q \in answer.points : p # q => p.to < q.from \/ q.to < p.from)
  BY DEF PointsAreExact, Exact, CountedIn
<1>2. Init => PointsAreExact
  BY DEF Init, PointsAreExact, NoAnswer
<1>3. Inv /\ PointsAreExact /\ [Next]_vars => PointsAreExact'
  <2>1. SUFFICES ASSUME Inv, PointsAreExact, [Next]_vars
                 PROVE  answer'.kind = "rollup" =>
                          /\ \A p \in answer'.points : Exact(p)'
                          /\ \A p, q \in answer'.points : p # q => p.to < q.from \/ q.to < p.from
    BY DEF PointsAreExact, Exact, CountedIn
  <2>2. CASE ReadRollups
    <3>1. /\ query.from \in Nat /\ query.to \in Nat /\ query.limit \in Nat \ {0}
          /\ answer'.points = Coarsened(PointsIn(query.from, query.to), query.limit)
          /\ log' = log /\ db' = db
      BY <2>1, <2>2, ReadsRollups
    <3>2. /\ \A p \in answer'.points : Exact(p)
          /\ \A p, q \in answer'.points : p # q => p.to < q.from \/ q.to < p.from
      BY <2>1, <3>1, CoarsenedFacts DEF Inv
    <3>3. QED
      BY <3>1, <3>2, ExactStays
  <2>3. CASE ReadRaw
    BY <2>3 DEF ReadRaw
  <2>4. CASE answer' = answer /\ answer.kind = "none"
    BY <2>4
  <2>5. CASE UNCHANGED vars
    <3>1. answer' = answer /\ log' = log /\ db' = db
      BY <2>5 DEF vars
    <3>2. QED
      BY <1>1, <2>1, <3>1, ExactStays
  <2>6. QED
    BY <2>1, <2>2, <2>3, <2>4, <2>5, OnlyReads
<1>4. QED
  BY <1>2, <1>3, Invariant, PTL DEF Spec

(* An answer has no more points than were asked for, and only a row that
   came after it was counted keeps an interval from being answered. *)
THEOREM AnswersFit == Spec => []AnswerFits
<1>1. Init => AnswerFits
  BY DEF Init, AnswerFits, NoAnswer
<1>2. Inv /\ AnswerFits /\ [Next]_vars => AnswerFits'
  <2>1. SUFFICES ASSUME Inv, AnswerFits, [Next]_vars
                 PROVE  AnswerFits'
    OBVIOUS
  <2>2. CASE ReadRollups
    <3>1. /\ query.from \in Nat /\ query.to \in Nat /\ query.limit \in Nat \ {0}
          /\ answer'.points = Coarsened(PointsIn(query.from, query.to), query.limit)
          /\ answer'.kind = "rollup" /\ answer'.asked = query
      BY <2>1, <2>2, ReadsRollups
    <3>2. Cardinality(answer'.points) <= query.limit
      BY <2>1, <3>1, CoarsenedFacts DEF Inv
    <3>3. QED
      BY <3>1, <3>2 DEF AnswerFits
  <2>3. CASE ReadRaw
    <3> DEFINE points == RawPoints(query.tables, query.from, query.to)
    <3>1. /\ query.limit \in Nat /\ query.rows \in Nat /\ query.rows <= query.limit
          /\ Cardinality(points) \in Nat /\ answer'.points = points /\ answer'.asked = query
          /\ answer'.kind = IF Cardinality(points) > query.limit THEN "refused" ELSE "raw"
      BY <2>1, <2>3, ReadsRaw
    <3> HIDE DEF points
    <3>2. QED
      BY <3>1 DEF AnswerFits
  <2>4. CASE answer' = answer /\ answer.kind = "none"
    BY <2>4 DEF AnswerFits
  <2>5. CASE UNCHANGED vars
    BY <2>1, <2>5 DEF AnswerFits, vars
  <2>6. QED
    BY <2>1, <2>2, <2>3, <2>4, <2>5, OnlyReads
<1>3. QED
  BY <1>1, <1>2, Invariant, PTL DEF Spec

(* What the interval holds is in the answer: of a raw one each sample that is
   young enough and whose row was written, of one of rollups each that no
   failure kept out and the recorder does not hold in memory still. *)
THEOREM NothingIsHidden == Spec => []NothingHidden
<1>1. Init => NothingHidden
  BY DEF Init, NothingHidden, NoAnswer
<1>2. Inv /\ NothingHidden /\ [Next]_vars => NothingHidden'
  <2>1. SUFFICES ASSUME Inv, NothingHidden, [Next]_vars
                 PROVE  NothingHidden'
    OBVIOUS
  <2>2. RecorderInv
    BY <2>1 DEF Inv
  <2>3. CASE ReadRollups
    <3>1. /\ query.from \in Nat /\ query.to \in Nat /\ query.limit \in Nat \ {0}
          /\ answer'.points = Coarsened(PointsIn(query.from, query.to), query.limit)
          /\ answer'.kind = "rollup" /\ answer'.asked = query
          /\ UNCHANGED <<clock, log, pc, memory, db, missed>>
      BY <2>1, <2>3, ReadsRollups
    <3>2. /\ CountedBy(memory)' = CountedBy(memory) /\ CountedBy(db.rollups)' = CountedBy(db.rollups)
          /\ Underway' = Underway
      BY <3>1 DEF Underway
    <3>3. SUFFICES ASSUME NEW i \in 1..Len(log), query.from <= log[i].time, log[i].time <= query.to,
                          i \notin missed.rollups \cup CountedBy(memory) \cup Underway,
                          NEW b, b = Bucket(log[i].time),
                          ~(b * Minute + Age.rollups < clock)
                   PROVE  /\ i \in CountedBy(db.rollups)
                          /\ \E q \in answer'.points : q.from <= b /\ b <= q.to
      BY <3>1, <3>2 DEF NothingHidden
    <3>4. i \in CountedBy(db.rollups)
      <4>1. CountedOk(log, Out \cup CountedBy(memory), clock, db.rollups)
        BY <2>2, Facts
      <4>2. QED
        BY <3>3, <4>1 DEF CountedOk, Old, Out
    <3>5. PICK r \in db.rollups : i \in r.of
      BY <3>4, CountedIs
    <3>6. r.bucket = b
      <4>1. OrderedLog(log) /\ RowOk(log, Out, r)
        BY <2>2, Facts, CountedInOne
      <4>2. QED
        BY <3>3, <3>5, <4>1, RowFacts
    <3>7. Bucket(query.from) <= b /\ b <= Bucket(query.to)
      <4>1. log[i].time \in Nat
        BY <2>2, Facts, ClockFacts
      <4>2. QED
        BY <3>1, <3>3, <4>1, Buckets
    <3>8. PICK p \in PointsIn(query.from, query.to) : p.from = b
      BY <2>2, <3>6, <3>7, PointsOfRows
    <3>9. \A p1 \in PointsIn(query.from, query.to) :
            \E q \in answer'.points : q.from <= p1.from /\ p1.from <= q.to
      BY <2>2, <3>1, CoarsenedFacts
    <3>10. QED
      BY <3>4, <3>8, <3>9
  <2>4. CASE ReadRaw
    <3>1. /\ answer'.kind \in {"refused", "raw"} /\ answer'.asked = query
          /\ answer'.points = RawPoints(query.tables, query.from, query.to)
          /\ UNCHANGED <<clock, log, missed>>
      BY <2>4 DEF ReadRaw
    <3>2. SUFFICES ASSUME NEW i \in 1..Len(log), query.from <= log[i].time, log[i].time <= query.to,
                          "fast" \in query.tables, i \notin missed.raw,
                          ~(log[i].time + Age.fast < clock)
                   PROVE  <<"fast", log[i]>> \in answer'.points
      BY <3>1 DEF NothingHidden
    <3>3. log[i] \in db["fast"]
      <4>1. RawOk(log, missed.raw, clock, db)
        BY <2>2, Facts
      <4>2. QED
        BY <3>2, <4>1 DEF RawOk
    <3>4. <<"fast", log[i]>> \in RawPoints(query.tables, query.from, query.to)
      BY <3>2, <3>3 DEF RawPoints, InTime
    <3>5. QED
      BY <3>1, <3>4
  <2>5. CASE answer' = answer /\ answer.kind = "none"
    BY <2>5 DEF NothingHidden
  <2>6. CASE UNCHANGED vars
    <3>1. /\ answer' = answer /\ log' = log /\ clock' = clock /\ missed' = missed
          /\ CountedBy(memory)' = CountedBy(memory) /\ CountedBy(db.rollups)' = CountedBy(db.rollups)
          /\ Underway' = Underway
      BY <2>6 DEF vars, Underway
    <3>2. QED
      BY <2>1, <3>1 DEF NothingHidden
  <2>7. QED
    BY <2>1, <2>3, <2>4, <2>5, <2>6, OnlyReads
<1>3. QED
  BY <1>1, <1>2, Invariant, PTL DEF Spec
====
