----------------------------- MODULE WorkProofs -----------------------------
(***************************************************************************)
(* Sums of work: what the members of a batch add up to, against the budget *)
(* of the batch, and what the requests of a tenant add up to, against the  *)
(* work the fairness controller has charged to it.                         *)
(*                                                                         *)
(* A sum is a fold over a set in the order CHOOSE picks its elements.  The *)
(* first part shows that the fold is well defined on finite sets and does  *)
(* not depend on that order; the rest uses its lemmas on sums only.        *)
(***************************************************************************)
EXTENDS PlacementProofs, WellFoundedInduction, FiniteSetTheorems

-----------------------------------------------------------------------------
(* Induction over numbers and over finite sets. *)

(* The order of the natural numbers as a relation. *)
Below == {p \in Nat \X Nat : p[1] < p[2]}

(* The natural numbers are well ordered ... *)
LEMMA LeastNumber ==
  ASSUME NEW T, T \subseteq Nat, T # {}
  PROVE  \E m \in T : \A k \in T : m <= k
<1>1. IsWellFoundedOn(Below, Nat)
  BY NatLessThanWellFounded, Zenon DEF OpToRel, Below
<1>2. \E m \in T : \A k \in T : ~(<<k, m>> \in Below)
  BY <1>1, WFMin
<1>3. PICK m \in T : \A k \in T : ~(<<k, m>> \in Below)
  BY <1>2
<1>4. ASSUME NEW k \in T PROVE m <= k
  <2>1. k \in Nat /\ m \in Nat
    OBVIOUS
  <2>2. ~(k < m)
    <3>1. <<k, m>> \in Nat \X Nat /\ <<k, m>>[1] = k /\ <<k, m>>[2] = m
      BY <2>1
    <3>2. ~(<<k, m>> \in Below)
      BY <1>3
    <3> QED
      BY <3>1, <3>2 DEF Below
  <2> QED
    BY <2>1, <2>2
<1> QED
  BY <1>4

(* ... so a set of numbers closed under successors is all of them: *)
LEMMA NatClosed ==
  ASSUME NEW T, 0 \in T, \A n \in Nat : n \in T => n + 1 \in T
  PROVE  \A n \in Nat : n \in T
<1> SUFFICES ASSUME Nat \ T # {} PROVE FALSE
  OBVIOUS
<1>1. PICK m \in Nat \ T : \A k \in Nat \ T : m <= k
  BY LeastNumber
<1>2. m # 0 /\ m - 1 \in Nat
  BY <1>1
<1> QED
  BY <1>1, <1>2

(* ... and subsets of a finite set can be reached element by element.       *)
LEMMA FiniteClosed ==
  ASSUME NEW S, IsFiniteSet(S), NEW P, {} \in P,
         \A s \in SUBSET S : (s # {} /\ \A x \in s : s \ {x} \in P) => s \in P
  PROVE  \A s \in SUBSET S : s \in P
<1> DEFINE T == {n \in Nat : \A s \in SUBSET S : Cardinality(s) = n => s \in P}
<1>1. \A s \in SUBSET S : IsFiniteSet(s) /\ Cardinality(s) \in Nat
  BY FS_Subset, FS_CardinalityType
<1>2. 0 \in T
  BY <1>1, FS_EmptySet
<1>3. ASSUME NEW n \in Nat, n \in T PROVE n + 1 \in T
  <2> SUFFICES ASSUME NEW s \in SUBSET S, Cardinality(s) = n + 1 PROVE s \in P
    OBVIOUS
  <2>1. s # {}
    BY FS_EmptySet
  <2>2. ASSUME NEW x \in s PROVE s \ {x} \in P
    <3>1. IsFiniteSet(s) /\ s \ {x} \in SUBSET S
      BY <1>1
    <3>2. Cardinality(s \ {x}) = Cardinality(s) - 1
      BY <3>1, FS_RemoveElement
    <3>3. Cardinality(s \ {x}) = n
      BY <3>2
    <3> QED
      BY <1>3, <3>1, <3>3
  <2> QED
    BY <2>1, <2>2
<1> HIDE DEF T
<1>4. \A n \in Nat : n \in T
  BY <1>2, <1>3, NatClosed
<1> QED
  BY <1>1, <1>4 DEF T

-----------------------------------------------------------------------------
(* The fold. *)

(* The element the fold takes next. *)
Some(s) == CHOOSE x \in s : TRUE

(* A sum as the fold computes it, from the sums of the smaller sets. *)
IsSum(g, f, S) ==
  g = [s \in SUBSET S |-> IF s = {} THEN 0 ELSE f[Some(s)] + g[s \ {Some(s)}]]

(* The sums of f over all subsets of S. *)
Partial(f, S) == CHOOSE g : IsSum(g, f, S)

(* This is what the library's fold is. *)
LEMMA SumUnfolded ==
  ASSUME NEW f, NEW S
  PROVE  SumFunctionOnSet(f, S) = Partial(f, S)[S]
BY DEF SumFunctionOnSet, FoldFunctionOnSet, MapThenFoldSet, Partial, IsSum, Some

(* For a finite set the recursion has a solution: one exists for the sets   *)
(* of at most n elements, for every n.                                      *)
LEMMA SumDefined ==
  ASSUME NEW f, NEW S, IsFiniteSet(S)
  PROVE  IsSum(Partial(f, S), f, S)
<1> DEFINE Upto(n) == {s \in SUBSET S : Cardinality(s) <= n}
           Body(g, s) == IF s = {} THEN 0 ELSE f[Some(s)] + g[s \ {Some(s)}]
           Solves(g, n) == g = [s \in Upto(n) |-> Body(g, s)]
           T == {n \in Nat : \E g : Solves(g, n)}
<1>1. \A s \in SUBSET S : /\ IsFiniteSet(s) /\ Cardinality(s) \in Nat
                          /\ Cardinality(s) <= Cardinality(S)
  BY FS_Subset, FS_CardinalityType
<1>2. ASSUME NEW s \in SUBSET S, s # {}
      PROVE  Some(s) \in s /\ s \ {Some(s)} \in SUBSET S /\ Cardinality(s \ {Some(s)}) = Cardinality(s) - 1
  <2>1. Some(s) \in s
    BY <1>2 DEF Some
  <2> QED
    BY <1>1, <2>1, FS_RemoveElement
<1>3. 0 \in T
  <2> DEFINE g == [s \in Upto(0) |-> 0]
  <2>1. \A s \in Upto(0) : s = {}
    BY <1>1, FS_EmptySet
  <2>2. g = [s \in Upto(0) |-> Body(g, s)]
    BY <2>1
  <2> QED
    BY <2>2
<1>4. ASSUME NEW n \in Nat, n \in T PROVE n + 1 \in T
  <2>1. PICK g : g = [s \in Upto(n) |-> Body(g, s)]
    BY <1>4
  <2> DEFINE h == [s \in Upto(n + 1) |-> Body(g, s)]
  <2>2. ASSUME NEW s \in Upto(n + 1), s # {} PROVE s \ {Some(s)} \in Upto(n)
    BY <1>1, <1>2, <2>2
  <2>3. ASSUME NEW s \in Upto(n) PROVE s \in Upto(n + 1)
    BY <1>1
  <2>4. ASSUME NEW s \in Upto(n) PROVE h[s] = g[s]
    BY <2>1, <2>3
  <2>5. ASSUME NEW s \in Upto(n + 1) PROVE Body(g, s) = Body(h, s)
    BY <2>2, <2>4
  <2>6. h = [s \in Upto(n + 1) |-> Body(h, s)]
    BY <2>5
  <2>7. Solves(h, n + 1)
    BY <2>6
  <2> HIDE DEF h, Solves
  <2> QED
    BY <2>7
<1> HIDE DEF T
<1>5. Cardinality(S) \in T
  BY <1>3, <1>4, NatClosed, FS_CardinalityType
<1>6. PICK g : g = [s \in Upto(Cardinality(S)) |-> Body(g, s)]
  BY <1>5 DEF T
<1>7. Upto(Cardinality(S)) = SUBSET S
  BY <1>1
<1>8. IsSum(g, f, S)
  BY <1>6, <1>7 DEF IsSum
<1> QED
  BY <1>8, Zenon DEF Partial

(* The recursion, case by case. *)
LEMMA PartialStep ==
  ASSUME NEW f, NEW S, IsFiniteSet(S), NEW s \in SUBSET S
  PROVE  /\ s = {} => Partial(f, S)[s] = 0
         /\ s # {} => Partial(f, S)[s] = f[Some(s)] + Partial(f, S)[s \ {Some(s)}]
<1> DEFINE F == Partial(f, S)
<1> HIDE DEF F
<1>1. IsSum(F, f, S)
  BY SumDefined DEF F
<1>2. F[s] = IF s = {} THEN 0 ELSE f[Some(s)] + F[s \ {Some(s)}]
  BY <1>1 DEF IsSum
<1> QED
  BY <1>2 DEF F

(* The sum of a set depends on the values of its elements only.             *)
LEMMA PartialAgree ==
  ASSUME NEW f, NEW g, NEW S, NEW T, IsFiniteSet(S), IsFiniteSet(T), NEW s,
         s \subseteq S, s \subseteq T, \A x \in s : f[x] = g[x]
  PROVE  Partial(f, S)[s] = Partial(g, T)[s]
<1> DEFINE P == {u \in SUBSET s : Partial(f, S)[u] = Partial(g, T)[u]}
<1>1. {} \in P
  BY PartialStep
<1>2. ASSUME NEW u \in SUBSET s, u # {}, \A x \in u : u \ {x} \in P PROVE u \in P
  <2>1. Some(u) \in u
    BY <1>2 DEF Some
  <2>2. f[Some(u)] = g[Some(u)]
    BY <2>1
  <2>3. Partial(f, S)[u \ {Some(u)}] = Partial(g, T)[u \ {Some(u)}]
    BY <1>2, <2>1
  <2>4. u \in SUBSET S /\ u \in SUBSET T
    OBVIOUS
  <2>5. /\ Partial(f, S)[u] = f[Some(u)] + Partial(f, S)[u \ {Some(u)}]
        /\ Partial(g, T)[u] = g[Some(u)] + Partial(g, T)[u \ {Some(u)}]
    BY <1>2, <2>4, PartialStep
  <2> QED
    BY <2>2, <2>3, <2>5
<1>3. IsFiniteSet(s)
  BY FS_Subset
<1> HIDE DEF P
<1>4. \A u \in SUBSET s : u \in P
  BY <1>1, <1>2, <1>3, FiniteClosed
<1> QED
  BY <1>4 DEF P

(* A sum of natural numbers is one. *)
LEMMA PartialNat ==
  ASSUME NEW f, NEW S, IsFiniteSet(S), \A x \in S : f[x] \in Nat
  PROVE  \A s \in SUBSET S : Partial(f, S)[s] \in Nat
<1>0. \A s \in SUBSET S : s # {} => Partial(f, S)[s] = f[Some(s)] + Partial(f, S)[s \ {Some(s)}]
  BY PartialStep
<1> DEFINE P == {s \in SUBSET S : Partial(f, S)[s] \in Nat}
<1>1. {} \in P
  <2>1. {} \in SUBSET S /\ 0 \in Nat
    OBVIOUS
  <2>2. Partial(f, S)[{}] = 0
    BY <2>1, PartialStep
  <2> QED
    BY <2>1, <2>2
<1>2. ASSUME NEW s \in SUBSET S, s # {}, \A x \in s : s \ {x} \in P PROVE s \in P
  <2>1. Some(s) \in s
    BY <1>2 DEF Some
  <2>2. f[Some(s)] \in Nat /\ Partial(f, S)[s \ {Some(s)}] \in Nat
    BY <1>2, <2>1
  <2>3. Partial(f, S)[s] = f[Some(s)] + Partial(f, S)[s \ {Some(s)}]
    BY <1>0, <1>2
  <2>4. \A i, j \in Nat : i + j \in Nat
    OBVIOUS
  <2>5. Partial(f, S)[s] \in Nat
    BY <2>2, <2>3, <2>4
  <2> QED
    BY <2>5
<1> HIDE DEF P
<1>3. \A s \in SUBSET S : s \in P
  BY <1>1, <1>2, FiniteClosed
<1> QED
  BY <1>3 DEF P

(* Any element can be taken out of a sum first. *)
LEMMA PartialRemove ==
  ASSUME NEW f, NEW S, IsFiniteSet(S), \A x \in S : f[x] \in Nat
  PROVE  \A s \in SUBSET S : \A x \in s : Partial(f, S)[s] = f[x] + Partial(f, S)[s \ {x}]
<1> DEFINE F(s) == Partial(f, S)[s]
           P == {s \in SUBSET S : \A x \in s : F(s) = f[x] + F(s \ {x})}
<1>1. \A s \in SUBSET S : F(s) \in Nat
  BY PartialNat
<1>2. \A s \in SUBSET S : s # {} => F(s) = f[Some(s)] + F(s \ {Some(s)})
  BY PartialStep
<1> HIDE DEF F
<1>3. {} \in P
  OBVIOUS
<1>4. ASSUME NEW s \in SUBSET S, s # {}, \A x \in s : s \ {x} \in P PROVE s \in P
  <2> SUFFICES ASSUME NEW x \in s PROVE F(s) = f[x] + F(s \ {x})
    OBVIOUS
  <2> DEFINE c == Some(s)
  <2>1. c \in s
    BY <1>4 DEF Some
  <2>2. F(s) = f[c] + F(s \ {c})
    BY <1>2, <1>4
  <2> HIDE DEF c
  <2>3. CASE x = c
    BY <2>2, <2>3
  <2>4. CASE x # c
    <3>1. F(s \ {c}) = f[x] + F((s \ {c}) \ {x})
      BY <1>4, <2>1, <2>4
    <3>2. F(s \ {x}) = f[c] + F((s \ {x}) \ {c})
      BY <1>4, <2>1, <2>4
    <3>3. (s \ {c}) \ {x} = (s \ {x}) \ {c} /\ (s \ {c}) \ {x} \in SUBSET S
      OBVIOUS
    <3> DEFINE rest == F((s \ {c}) \ {x})
    <3>4. rest \in Nat /\ f[x] \in Nat /\ f[c] \in Nat
      BY <1>1, <2>1, <3>3
    <3>5. F(s) = f[c] + (f[x] + rest) /\ F(s \ {x}) = f[c] + rest
      BY <2>2, <3>1, <3>2, <3>3
    <3> HIDE DEF rest
    <3> QED
      BY <3>4, <3>5
  <2> QED
    BY <2>3, <2>4
<1> HIDE DEF P
<1>5. \A s \in SUBSET S : s \in P
  BY <1>3, <1>4, FiniteClosed
<1> QED
  BY <1>5 DEF P, F

-----------------------------------------------------------------------------
(* Sums. *)

(* The same facts of the operator the model uses. *)
LEMMA SumEmpty == ASSUME NEW f PROVE SumFunctionOnSet(f, {}) = 0
BY FS_EmptySet, SumUnfolded, PartialStep

LEMMA SumNat ==
  ASSUME NEW f, NEW S, IsFiniteSet(S), \A x \in S : f[x] \in Nat
  PROVE  SumFunctionOnSet(f, S) \in Nat
BY SumUnfolded, PartialNat

LEMMA SumSame ==
  ASSUME NEW f, NEW g, NEW S, IsFiniteSet(S), \A x \in S : f[x] = g[x]
  PROVE  SumFunctionOnSet(f, S) = SumFunctionOnSet(g, S)
BY SumUnfolded, PartialAgree

LEMMA SumRemove ==
  ASSUME NEW f, NEW S, IsFiniteSet(S), \A x \in S : f[x] \in Nat, NEW x \in S
  PROVE  SumFunctionOnSet(f, S) = f[x] + SumFunctionOnSet(f, S \ {x})
<1>1. IsFiniteSet(S \ {x}) /\ S \ {x} \subseteq S
  BY FS_Subset
<1>2. Partial(f, S)[S \ {x}] = Partial(f, S \ {x})[S \ {x}]
  BY <1>1, PartialAgree
<1> QED
  BY <1>2, SumUnfolded, PartialRemove

(* Sums of disjoint sets add up. *)
LEMMA SumUnion ==
  ASSUME NEW f, NEW S, NEW T, IsFiniteSet(S), IsFiniteSet(T), S \cap T = {},
         \A x \in S \cup T : f[x] \in Nat
  PROVE  SumFunctionOnSet(f, S \cup T) = SumFunctionOnSet(f, S) + SumFunctionOnSet(f, T)
<1> DEFINE Sum(u) == SumFunctionOnSet(f, u)
           P == {t \in SUBSET T : Sum(S \cup t) = Sum(S) + Sum(t)}
<1>1. \A t \in SUBSET T : IsFiniteSet(t) /\ IsFiniteSet(S \cup t)
  BY FS_Subset, FS_Union
<1>2. \A t \in SUBSET T : Sum(t) \in Nat /\ Sum(S \cup t) \in Nat
  <2> SUFFICES ASSUME NEW t \in SUBSET T PROVE Sum(t) \in Nat /\ Sum(S \cup t) \in Nat
    OBVIOUS
  <2>1. (\A x \in t : f[x] \in Nat) /\ (\A x \in S \cup t : f[x] \in Nat)
    OBVIOUS
  <2> QED
    BY <1>1, <2>1, SumNat
<1>3. Sum(S) \in Nat
  BY SumNat
<1>4. {} \in P
  <2>1. S \cup {} = S
    OBVIOUS
  <2>2. Sum({}) = 0
    BY SumEmpty
  <2> HIDE DEF Sum
  <2> QED
    BY <1>3, <2>1, <2>2
<1>5. ASSUME NEW t \in SUBSET T, t # {}, \A x \in t : t \ {x} \in P PROVE t \in P
  <2>1. PICK x \in t : TRUE
    BY <1>5
  <2>2. (\A y \in t : f[y] \in Nat) /\ (\A y \in S \cup t : f[y] \in Nat) /\ t \ {x} \in SUBSET T
    OBVIOUS
  <2>3. Sum(t) = f[x] + Sum(t \ {x}) /\ Sum(S \cup t) = f[x] + Sum((S \cup t) \ {x})
    BY <1>1, <2>2, SumRemove
  <2>4. (S \cup t) \ {x} = S \cup (t \ {x})
    OBVIOUS
  <2> HIDE DEF Sum
  <2>5. Sum(S \cup (t \ {x})) = Sum(S) + Sum(t \ {x})
    BY <1>5
  <2>6. \A i, j, k \in Nat : i + (j + k) = j + (i + k)
    OBVIOUS
  <2>7. f[x] + (Sum(S) + Sum(t \ {x})) = Sum(S) + (f[x] + Sum(t \ {x}))
    BY <1>2, <1>3, <2>2, <2>6
  <2> QED
    BY <2>3, <2>4, <2>5, <2>7
<1> HIDE DEF P, Sum
<1>6. \A t \in SUBSET T : t \in P
  BY <1>4, <1>5, FiniteClosed
<1> QED
  BY <1>6 DEF P, Sum

(* A part is no more than the whole. *)
LEMMA SumSubset ==
  ASSUME NEW f, NEW S, IsFiniteSet(S), NEW T, T \subseteq S, \A x \in S : f[x] \in Nat
  PROVE  SumFunctionOnSet(f, T) <= SumFunctionOnSet(f, S)
<1>1. IsFiniteSet(T) /\ IsFiniteSet(S \ T) /\ T \cap (S \ T) = {} /\ T \cup (S \ T) = S
  BY FS_Subset
<1>2. SumFunctionOnSet(f, T \cup (S \ T)) = SumFunctionOnSet(f, T) + SumFunctionOnSet(f, S \ T)
  BY <1>1, SumUnion
<1>3. SumFunctionOnSet(f, T) \in Nat /\ SumFunctionOnSet(f, S \ T) \in Nat
  BY <1>1, SumNat
<1>4. \A i, j \in Nat : i <= i + j
  OBVIOUS
<1> QED
  BY <1>1, <1>2, <1>3, <1>4

(* A sum does not exceed another into whose summands its own are mapped one *)
(* to one.                                                                  *)
LEMMA SumEmbedded ==
  ASSUME NEW f, NEW S, NEW g, NEW T, NEW h, IsFiniteSet(S), IsFiniteSet(T),
         \A x \in S : f[x] \in Nat, \A y \in T : g[y] \in Nat,
         \A x \in S : h[x] \in T /\ f[x] <= g[h[x]],
         \A x, y \in S : h[x] = h[y] => x = y
  PROVE  SumFunctionOnSet(f, S) <= SumFunctionOnSet(g, T)
<1> DEFINE P == {s \in SUBSET S : SumFunctionOnSet(f, s) <= SumFunctionOnSet(g, {h[x] : x \in s})}
<1>1. \A s \in SUBSET S : IsFiniteSet(s) /\ {h[x] : x \in s} \subseteq T /\ IsFiniteSet({h[x] : x \in s})
  BY FS_Subset
<1>2. {} \in P
  <2>1. {h[x] : x \in {}} = {}
    OBVIOUS
  <2> QED
    BY <2>1, SumEmpty
<1>3. ASSUME NEW s \in SUBSET S, s # {}, \A x \in s : s \ {x} \in P PROVE s \in P
  <2> DEFINE img(u) == {h[x] : x \in u}
  <2>1. PICK x \in s : TRUE
    BY <1>3
  <2>2. SumFunctionOnSet(f, s) = f[x] + SumFunctionOnSet(f, s \ {x})
    <3>1. IsFiniteSet(s) /\ \A y \in s : f[y] \in Nat
      BY <1>1
    <3> QED
      BY <3>1, SumRemove
  <2>3. h[x] \in img(s) /\ img(s) \ {h[x]} = img(s \ {x})
    OBVIOUS
  <2>4. SumFunctionOnSet(g, img(s)) = g[h[x]] + SumFunctionOnSet(g, img(s) \ {h[x]})
    <3>1. IsFiniteSet(img(s)) /\ \A y \in img(s) : g[y] \in Nat
      BY <1>1
    <3> HIDE DEF img
    <3> QED
      BY <2>3, <3>1, SumRemove
  <2>5. SumFunctionOnSet(f, s \ {x}) <= SumFunctionOnSet(g, img(s \ {x}))
    BY <1>3
  <2>6. SumFunctionOnSet(f, s \ {x}) \in Nat /\ SumFunctionOnSet(g, img(s \ {x})) \in Nat
    <3>1. s \ {x} \in SUBSET S
      OBVIOUS
    <3>2. IsFiniteSet(s \ {x}) /\ img(s \ {x}) \subseteq T /\ IsFiniteSet(img(s \ {x}))
      BY <1>1, <3>1
    <3> HIDE DEF img
    <3> QED
      BY <3>1, <3>2, SumNat
  <2>7. f[x] \in Nat /\ h[x] \in T /\ g[h[x]] \in Nat /\ f[x] <= g[h[x]]
    OBVIOUS
  <2>8. SumFunctionOnSet(f, s) <= SumFunctionOnSet(g, img(s))
    <3> HIDE DEF img
    <3>1. \A i, j, m, n \in Nat : i <= m /\ j <= n => i + j <= m + n
      OBVIOUS
    <3>2. f[x] + SumFunctionOnSet(f, s \ {x}) <= g[h[x]] + SumFunctionOnSet(g, img(s \ {x}))
      BY <2>5, <2>6, <2>7, <3>1
    <3> QED
      BY <2>2, <2>3, <2>4, <3>2
  <2> QED
    BY <2>8
<1> HIDE DEF P
<1>4. \A s \in SUBSET S : s \in P
  BY <1>2, <1>3, FiniteClosed
<1> DEFINE img == {h[x] : x \in S}
<1>5. SumFunctionOnSet(f, S) <= SumFunctionOnSet(g, img)
  BY <1>4 DEF P
<1>6. img \subseteq T /\ IsFiniteSet(img)
  BY <1>1
<1> HIDE DEF img
<1>7. SumFunctionOnSet(g, img) <= SumFunctionOnSet(g, T)
  BY <1>6, SumSubset
<1>8. /\ SumFunctionOnSet(f, S) \in Nat /\ SumFunctionOnSet(g, img) \in Nat
      /\ SumFunctionOnSet(g, T) \in Nat
  BY <1>6, SumNat
<1>9. \A i, j, k \in Nat : i <= j /\ j <= k => i <= k
  OBVIOUS
<1> QED
  BY <1>5, <1>7, <1>8, <1>9

-----------------------------------------------------------------------------
(* The work of a batch. *)

(* The members' work by position, under metadata m. *)
WorkAt(m, s) == [i \in DOMAIN s |-> m[s[i]].work]
WorkIn(m, s) == SumFunctionOnSet(WorkAt(m, s), DOMAIN s)

LEMMA WorkNow ==
  /\ \A b \in BatchId : Work(batches[b].members) = WorkIn(meta, batches[b].members)
  /\ \A b \in BatchId : Work(batches[b].members)' = WorkIn(meta', batches'[b].members)
BY DEF Work, WorkIn, WorkAt, SumFunction

LEMMA Positions ==
  ASSUME NEW m \in [RequestId -> Meta], NEW s \in Seq(RequestId)
  PROVE  /\ DOMAIN s = 1 .. Len(s) /\ Len(s) \in Nat /\ IsFiniteSet(DOMAIN s)
         /\ \A i \in DOMAIN s : s[i] \in RequestId /\ WorkAt(m, s)[i] = m[s[i]].work /\ WorkAt(m, s)[i] \in Nat
<1>1. DOMAIN s = 1 .. Len(s) /\ Len(s) \in Nat
  OBVIOUS
<1>2. IsFiniteSet(1 .. Len(s))
  BY <1>1, FS_Interval
<1> QED
  BY <1>1, <1>2 DEF WorkAt, Meta

LEMMA WorkNat ==
  ASSUME NEW m \in [RequestId -> Meta], NEW s \in Seq(RequestId)
  PROVE  WorkIn(m, s) \in Nat
BY Positions, SumNat DEF WorkIn

(* A batch whose members another batch has at as many places has no more    *)
(* work than that one.                                                      *)
LEMMA WorkEmbedded ==
  ASSUME NEW m \in [RequestId -> Meta], NEW n \in [RequestId -> Meta],
         NEW s \in Seq(RequestId), NEW t \in Seq(RequestId), NEW h,
         \A i \in 1 .. Len(s) : h[i] \in 1 .. Len(t) /\ m[s[i]].work <= n[t[h[i]]].work,
         \A i, j \in 1 .. Len(s) : h[i] = h[j] => i = j
  PROVE  WorkIn(m, s) <= WorkIn(n, t)
<1> DEFINE f == WorkAt(m, s)
           g == WorkAt(n, t)
<1>1. /\ DOMAIN s = 1 .. Len(s) /\ IsFiniteSet(DOMAIN s)
      /\ \A i \in DOMAIN s : f[i] = m[s[i]].work /\ f[i] \in Nat
  BY Positions
<1>2. /\ DOMAIN t = 1 .. Len(t) /\ IsFiniteSet(DOMAIN t)
      /\ \A i \in DOMAIN t : g[i] = n[t[i]].work /\ g[i] \in Nat
  BY Positions
<1> HIDE DEF f, g
<1>3. /\ \A i \in DOMAIN s : h[i] \in DOMAIN t /\ f[i] <= g[h[i]]
      /\ \A i, j \in DOMAIN s : h[i] = h[j] => i = j
  BY <1>1, <1>2
<1>4. SumFunctionOnSet(f, DOMAIN s) <= SumFunctionOnSet(g, DOMAIN t)
  BY <1>1, <1>2, <1>3, SumEmbedded, ZenonT(30)
<1> QED
  BY <1>4 DEF WorkIn, f, g

(* A fill adds the work of one request. *)
LEMMA WorkAppend ==
  ASSUME NEW m \in [RequestId -> Meta], NEW s \in Seq(RequestId), NEW r \in RequestId
  PROVE  WorkIn(m, Append(s, r)) = m[r].work + WorkIn(m, s)
<1> DEFINE t == Append(s, r)
           k == Len(s) + 1
           f == WorkAt(m, t)
<1>1. t \in Seq(RequestId) /\ Len(t) = k /\ t[k] = r /\ k \in Nat /\ \A i \in 1 .. Len(s) : t[i] = s[i]
  OBVIOUS
<1>2. /\ DOMAIN t = 1 .. k /\ IsFiniteSet(DOMAIN t)
      /\ \A i \in DOMAIN t : f[i] = m[t[i]].work /\ f[i] \in Nat
  BY <1>1, Positions
<1>3. /\ DOMAIN s = 1 .. Len(s) /\ IsFiniteSet(DOMAIN s) /\ Len(s) \in Nat
      /\ \A i \in DOMAIN s : WorkAt(m, s)[i] = m[s[i]].work
  BY Positions
<1> HIDE DEF t, f
<1>4. k \in DOMAIN t /\ DOMAIN t \ {k} = DOMAIN s
  BY <1>2, <1>3
<1>5. SumFunctionOnSet(f, DOMAIN t) = f[k] + SumFunctionOnSet(f, DOMAIN s)
  <2>1. IsFiniteSet(DOMAIN t) /\ \A i \in DOMAIN t : f[i] \in Nat
    BY <1>2
  <2> HIDE DEF k
  <2>2. SumFunctionOnSet(f, DOMAIN t) = f[k] + SumFunctionOnSet(f, DOMAIN t \ {k})
    BY <1>4, <2>1, SumRemove
  <2> QED
    BY <1>4, <2>2
<1>6. \A i \in DOMAIN s : f[i] = WorkAt(m, s)[i]
  BY <1>1, <1>2, <1>3, <1>4
<1>7. SumFunctionOnSet(f, DOMAIN s) = SumFunctionOnSet(WorkAt(m, s), DOMAIN s)
  BY <1>3, <1>6, SumSame
<1>8. f[k] = m[r].work
  BY <1>1, <1>2, <1>4
<1> QED
  BY <1>5, <1>7, <1>8 DEF WorkIn, t, f

(* A merge adds the work of the other batch. *)
LEMMA WorkConcat ==
  ASSUME NEW m \in [RequestId -> Meta], NEW s \in Seq(RequestId), NEW t \in Seq(RequestId)
  PROVE  WorkIn(m, s \o t) <= WorkIn(m, s) + WorkIn(m, t)
<1> DEFINE u == s \o t
           f == WorkAt(m, u)
           k == Len(s)
           A == 1 .. k
           B == (k + 1) .. (k + Len(t))
           h == [i \in B |-> i - k]
<1>1. u \in Seq(RequestId) /\ Len(u) = k + Len(t) /\ k \in Nat /\ Len(t) \in Nat
  OBVIOUS
<1>2. (\A i \in A : u[i] = s[i]) /\ (\A i \in B : u[i] = t[i - k])
  OBVIOUS
<1>3. /\ DOMAIN u = 1 .. (k + Len(t)) /\ IsFiniteSet(DOMAIN u)
      /\ \A i \in DOMAIN u : f[i] = m[u[i]].work /\ f[i] \in Nat
  BY <1>1, Positions
<1>4. /\ DOMAIN s = A /\ IsFiniteSet(A) /\ \A i \in A : WorkAt(m, s)[i] = m[s[i]].work
      /\ DOMAIN t = 1 .. Len(t) /\ IsFiniteSet(DOMAIN t)
      /\ \A i \in DOMAIN t : WorkAt(m, t)[i] = m[t[i]].work /\ WorkAt(m, t)[i] \in Nat
  BY Positions
<1> HIDE DEF u, f
<1>5. DOMAIN u = A \cup B /\ A \cap B = {} /\ IsFiniteSet(B)
  <2>1. DOMAIN u = A \cup B /\ A \cap B = {}
    BY <1>1, <1>3
  <2> QED
    BY <1>3, <2>1, FS_Subset
<1>6. SumFunctionOnSet(f, DOMAIN u) = SumFunctionOnSet(f, A) + SumFunctionOnSet(f, B)
  BY <1>3, <1>4, <1>5, SumUnion, SMTT(30)
<1>7. SumFunctionOnSet(f, A) = WorkIn(m, s)
  <2>1. \A i \in A : f[i] = WorkAt(m, s)[i]
    BY <1>2, <1>3, <1>4, <1>5
  <2> QED
    BY <1>4, <2>1, SumSame DEF WorkIn
<1>8. SumFunctionOnSet(f, B) <= WorkIn(m, t)
  <2> DEFINE g == WorkAt(m, t)
  <2>1. \A i \in B : h[i] \in DOMAIN t /\ f[i] = g[h[i]] /\ f[i] \in Nat /\ f[i] <= g[h[i]]
    <3> SUFFICES ASSUME NEW i \in B
                 PROVE  h[i] \in DOMAIN t /\ f[i] = g[h[i]] /\ f[i] \in Nat /\ f[i] <= g[h[i]]
      OBVIOUS
    <3>1. h[i] = i - k /\ h[i] \in DOMAIN t
      BY <1>1, <1>4
    <3>2. f[i] = g[h[i]] /\ f[i] \in Nat
      BY <1>2, <1>3, <1>4, <1>5, <3>1, SMTT(30)
    <3> QED
      BY <3>1, <3>2
  <2>2. \A i, j \in B : h[i] = h[j] => i = j
    BY <1>1
  <2>3. \A i \in DOMAIN t : g[i] \in Nat
    BY <1>4
  <2> HIDE DEF h, B, g
  <2>4. SumFunctionOnSet(f, B) <= SumFunctionOnSet(g, DOMAIN t)
    BY <1>4, <1>5, <2>1, <2>2, <2>3, SumEmbedded
  <2> QED
    BY <2>4 DEF WorkIn, g
<1>9. SumFunctionOnSet(f, B) \in Nat /\ WorkIn(m, s) \in Nat /\ WorkIn(m, t) \in Nat
  BY <1>3, <1>5, SumNat, WorkNat
<1>10. \A x, y, z \in Nat : y <= z => x + y <= x + z
  OBVIOUS
<1> HIDE DEF A, B
<1>11. WorkIn(m, s) + SumFunctionOnSet(f, B) <= WorkIn(m, s) + WorkIn(m, t)
  BY <1>8, <1>9, <1>10
<1> QED
  BY <1>6, <1>7, <1>11 DEF WorkIn, u, f

(* A removal and a split leave no more work than there was. *)
LEMMA WorkWithout ==
  ASSUME NEW m \in [RequestId -> Meta], NEW s \in Seq(RequestId), NEW x
  PROVE  WorkIn(m, Without(s, x)) <= WorkIn(m, s)
<1>1. CASE x \in Range(s)
  <2> DEFINE t == Without(s, x)
  <2>1. PICK i \in 1 .. Len(s) :
          /\ t \in Seq(RequestId) /\ Len(t) = Len(s) - 1
          /\ \A j \in 1 .. Len(s) - 1 : t[j] = IF j < i THEN s[j] ELSE s[j + 1]
    BY <1>1, WithoutElements
  <2> DEFINE h == [j \in 1 .. Len(s) - 1 |-> IF j < i THEN j ELSE j + 1]
  <2> HIDE DEF t
  <2>2. Len(s) \in Nat
    OBVIOUS
  <2>3. \A j \in 1 .. Len(s) - 1 : h[j] \in 1 .. Len(s) /\ s[h[j]] = t[j]
    BY <2>1, <2>2
  <2>4. \A j, l \in 1 .. Len(s) - 1 : h[j] = h[l] => j = l
    BY <2>1, <2>2
  <2> HIDE DEF h
  <2>5. \A j \in 1 .. Len(t) : h[j] \in 1 .. Len(s) /\ m[t[j]].work <= m[s[h[j]]].work
    <3>1. \A r \in RequestId : m[r].work \in Nat
      BY DEF Meta
    <3>2. \A n \in Nat : n <= n
      OBVIOUS
    <3>3. \A j \in 1 .. Len(t) : t[j] \in RequestId
      BY <2>1
    <3> QED
      BY <2>1, <2>3, <3>1, <3>2, <3>3
  <2>6. \A j, l \in 1 .. Len(t) : h[j] = h[l] => j = l
    BY <2>1, <2>4
  <2>7. WorkIn(m, t) <= WorkIn(m, s)
    BY <2>1, <2>5, <2>6, WorkEmbedded
  <2> QED
    BY <2>7 DEF t
<1>2. CASE x \notin Range(s)
  <2>1. Without(s, x) = s /\ WorkIn(m, s) \in Nat
    BY <1>2, WorkNat DEF Without
  <2> QED
    BY <2>1
<1> QED
  BY <1>1, <1>2

LEMMA WorkPart ==
  ASSUME NEW m \in [RequestId -> Meta], NEW s \in Seq(RequestId), NEW k \in Nat, NEW n \in Nat,
         k + n <= Len(s)
  PROVE  WorkIn(m, SubSeq(s, k + 1, k + n)) <= WorkIn(m, s)
<1> DEFINE t == SubSeq(s, k + 1, k + n)
           h == [j \in 1 .. n |-> j + k]
<1>1. t \in Seq(RequestId) /\ Len(t) = n /\ \A j \in 1 .. n : t[j] = s[j + k]
  OBVIOUS
<1>2. \A j \in 1 .. n : h[j] \in 1 .. Len(s) /\ t[j] = s[h[j]] /\ t[j] \in RequestId
  BY <1>1
<1>3. \A j, l \in 1 .. n : h[j] = h[l] => j = l
  OBVIOUS
<1> HIDE DEF t, h
<1>4. \A r \in RequestId : m[r].work \in Nat
  BY DEF Meta
<1>5. \A i \in Nat : i <= i
  OBVIOUS
<1>6. \A j \in 1 .. Len(t) : h[j] \in 1 .. Len(s) /\ m[t[j]].work <= m[s[h[j]]].work
  BY <1>1, <1>2, <1>4, <1>5
<1>7. \A j, l \in 1 .. Len(t) : h[j] = h[l] => j = l
  BY <1>1, <1>3
<1>8. WorkIn(m, t) <= WorkIn(m, s)
  BY <1>1, <1>6, <1>7, WorkEmbedded
<1> QED
  BY <1>8 DEF t

LEMMA HalvesLighter ==
  ASSUME TypeOK, NEW b \in BatchId, NEW m \in [RequestId -> Meta]
  PROVE  /\ WorkIn(m, FirstHalf(b)) <= WorkIn(m, batches[b].members)
         /\ WorkIn(m, SecondHalf(b)) <= WorkIn(m, batches[b].members)
<1> DEFINE s == batches[b].members
           n == Len(s)
           h == Half(b)
<1>1. s \in Seq(RequestId) /\ n \in Nat
  BY MemberTypes
<1>2. h \in Nat /\ n - h \in Nat /\ h <= n
  <2>1. \A i \in Nat : i \div 2 \in Nat /\ i - (i \div 2) \in Nat /\ i \div 2 <= i
    OBVIOUS
  <2> QED
    BY <1>1, <2>1 DEF Half
<1> HIDE DEF h, n, s
<1>3. WorkIn(m, SubSeq(s, 0 + 1, 0 + h)) <= WorkIn(m, s)
  <2>1. 0 + h <= Len(s) /\ 0 \in Nat
    BY <1>1, <1>2 DEF n
  <2> QED
    BY <1>1, <1>2, <2>1, WorkPart
<1>4. WorkIn(m, SubSeq(s, h + 1, h + (n - h))) <= WorkIn(m, s)
  <2>1. h + (n - h) <= Len(s)
    BY <1>1, <1>2 DEF n
  <2> QED
    BY <1>1, <1>2, <2>1, WorkPart
<1>5. 0 + 1 = 1 /\ 0 + h = h /\ h + (n - h) = n
  BY <1>1, <1>2
<1> QED
  BY <1>3, <1>4, <1>5 DEF FirstHalf, SecondHalf, s, n, h

-----------------------------------------------------------------------------
(* The budget of work. *)

(* No sum that allows_add compares wraps: the budget and the work of one    *)
(* request stay below half the range of a 64-bit sum.  Beyond it the code   *)
(* admits batches above their budget.                                       *)
NoWrap ==
  /\ MaxWork + MaxWork < Word
  /\ \A m \in Offered : MaxWork + m.work < Word

OfferedOnly == \A r \in RequestId : meta[r] \in Offered

LEMMA OfferedStep ==
  ASSUME TypeOK, BatchInv, AttemptInv, OfferedOnly, [Next]_vars
  PROVE  OfferedOnly'
<1> SUFFICES ASSUME NEW r \in RequestId PROVE meta'[r] \in Offered
  BY DEF OfferedOnly
<1>1. CASE Submit
  <2>1. PICK m \in Offered, state \in {"expired", "rejected", "waiting", "eligible"},
             outcome \in Status :
        NewRequest(m, state, outcome)
    BY <1>1 DEF Submit, SubmitExpired, SubmitOversized, SubmitDeferred, SubmitAdmitted, Status
  <2>2. meta' = [meta EXCEPT ![nextRequest] = m] /\ meta \in [RequestId -> Meta]
    BY <2>1 DEF NewRequest, TypeOK
  <2> QED
    BY <2>2 DEF OfferedOnly
<1>2. CASE ~Submit
  <2>1. meta' = meta
    BY <1>2, OnlySubmit
  <2> QED
    BY <2>1 DEF OfferedOnly
<1> QED
  BY <1>1, <1>2

LEMMA WordFits ==
  ASSUME NEW x \in Nat, x < Word
  PROVE  x % Word = x
<1>1. Word \in Nat
  BY PolicyAssumption DEF PolicyAssumption
<1>2. \A w \in Nat, y \in Nat : y < w => y % w = y
  OBVIOUS
<1> QED
  BY <1>1, <1>2

(* Every step keeps every batch in the budget of work: only a fill and a    *)
(* merge add to a batch, and both ask allows_add first.                     *)
LEMMA WorkStep ==
  ASSUME NoWrap, TypeOK, TypeOK', BatchInv, AttemptInv, OfferedOnly, WorkKept, [Next]_vars
  PROVE  WorkKept'
<1> DEFINE W(b) == WorkIn(meta, batches[b].members)
<1> SUFFICES ASSUME MaxWork # 0, NEW c \in BatchId PROVE WorkIn(meta', batches'[c].members) <= MaxWork
  BY WorkNow DEF WorkKept
<1>types. /\ meta \in [RequestId -> Meta] /\ meta' \in [RequestId -> Meta]
          /\ \A b \in BatchId : batches[b].members \in Seq(RequestId) /\ Len(batches[b].members) \in Nat
          /\ batches'[c].members \in Seq(RequestId)
          /\ MaxWork \in Nat /\ Word \in Nat
  <2>1. batches \in [BatchId -> BatchRec] /\ batches' \in [BatchId -> BatchRec]
    BY DEF TypeOK
  <2>2. /\ \A b \in BatchId : batches[b].members \in Seq(RequestId) /\ Len(batches[b].members) \in Nat
        /\ batches'[c].members \in Seq(RequestId)
    BY <2>1 DEF BatchRec
  <2>3. meta \in [RequestId -> Meta] /\ meta' \in [RequestId -> Meta]
    BY DEF TypeOK
  <2>4. MaxWork \in Nat /\ Word \in Nat
    BY PolicyAssumption DEF PolicyAssumption
  <2> QED
    BY <2>2, <2>3, <2>4
<1>old. \A b \in BatchId : W(b) <= MaxWork /\ W(b) \in Nat
  BY <1>types, WorkNow, WorkNat DEF WorkKept
<1>fits. \A b \in BatchId : WorkOf(batches[b].members) = W(b)
  <2> SUFFICES ASSUME NEW b \in BatchId PROVE WorkOf(batches[b].members) = W(b)
    OBVIOUS
  <2> HIDE DEF W
  <2>1. W(b) \in Nat /\ W(b) < Word
    <3>1. MaxWork + MaxWork < Word
      BY DEF NoWrap
    <3>2. W(b) \in Nat /\ W(b) <= MaxWork
      BY <1>old
    <3> QED
      BY <3>1, <3>2, <1>types
  <2>2. Work(batches[b].members) = W(b)
    BY WorkNow DEF W
  <2> QED
    BY <2>1, <2>2, WordFits DEF WorkOf
<1>fresh. FreshBatches
  BY DEF BatchInv, Books
<1>new. WorkIn(meta', batches'[c].members) \in Nat
  BY <1>types, WorkNat
<1>light. ASSUME NEW b \in BatchId, meta' = meta, WorkIn(meta, batches'[c].members) <= W(b)
          PROVE  WorkIn(meta', batches'[c].members) <= MaxWork
  <2> HIDE DEF W
  <2> QED
    BY <1>light, <1>types, <1>old, <1>new
<1>kept. ASSUME SameMembers(c), meta' = meta PROVE WorkIn(meta', batches'[c].members) <= MaxWork
  BY <1>kept, <1>old DEF SameMembers
<1>meta. ~Submit => meta' = meta
  BY OnlySubmit
<1>1. CASE Submit
  <2>1. batches' = batches
    BY <1>1, SubmitRequests DEF batchVars
  <2>2. \A i \in DOMAIN batches[c].members :
          WorkAt(meta', batches[c].members)[i] = WorkAt(meta, batches[c].members)[i]
    <3> SUFFICES ASSUME NEW i \in DOMAIN batches[c].members
                 PROVE  meta'[batches[c].members[i]] = meta[batches[c].members[i]]
      BY DEF WorkAt
    <3>1. batches[c].members[i] \in Members(c) /\ batches[c].members[i] \in RequestId
      BY <1>types DEF Members, Range
    <3>2. requests[batches[c].members[i]].state # "created"
      BY <3>1 DEF AttemptInv, SubmittedOnly, AllMembers
    <3> QED
      BY <3>1, <3>2, MetaKept
  <2>3. WorkIn(meta', batches[c].members) = WorkIn(meta, batches[c].members)
    BY <1>types, <2>2, Positions, SumSame DEF WorkIn
  <2> QED
    BY <1>old, <2>1, <2>3
<1>2. CASE ~Submit /\ (Still \/ ExpireWaiting \/ \E r \in RequestId : Retry(r))
  <2>1. batches' = batches
    BY <1>2 DEF Still, Retry, ExpireWaiting, batchVars
  <2> QED
    BY <1>2, <1>meta, <1>old, <2>1
<1>3. CASE ~Submit /\ (FillNewDone \/ CompleteDone \/ \E r \in RequestId : CompleteMember(r) \/ FailMember(r))
  BY <1>3, <1>meta, <1>kept, FillNewFields, OutcomeFields, DoneFields DEF CompleteMember, FailMember, BatchesKept
<1>4. ASSUME ~Submit, NEW r \in RequestId, DoCancel(r) PROVE WorkIn(meta', batches'[c].members) <= MaxWork
  <2>1. CASE batches'[c].members = Without(batches[c].members, r)
    BY <1>4, <1>meta, <1>light, <1>types, <2>1, WorkWithout
  <2> QED
    BY <1>4, <1>meta, <1>kept, <2>1, CancelFields
<1>5. ASSUME ~Submit, NEW k \in Key, MakeForming(k) PROVE WorkIn(meta', batches'[c].members) <= MaxWork
  <2>1. CASE c = nextBatch
    <3>1. batches'[c].members = <<>>
      BY <1>5, <2>1, MakeFields
    <3>2. WorkIn(meta', <<>>) = 0
      <4>1. DOMAIN <<>> = {}
        OBVIOUS
      <4> QED
        BY <4>1, SumEmpty DEF WorkIn
    <3> QED
      BY <1>types, <3>1, <3>2
  <2>2. CASE c # nextBatch
    BY <1>5, <1>meta, <1>old, <2>2, MakeFields
  <2> QED
    BY <2>1, <2>2
<1>6. ASSUME ~Submit, NEW r \in RequestId, Place(r) PROVE WorkIn(meta', batches'[c].members) <= MaxWork
  <2>1. CASE c # op.cur
    BY <1>6, <1>meta, <1>kept, <2>1, PlaceFields
  <2>2. CASE c = op.cur
    <3>1. (WorkOf(batches[c].members) + meta[r].work) % Word <= MaxWork
      BY <1>6, <2>2 DEF Place, IsPick, Candidates, AllowsAdd
    <3>2. WorkIn(meta, batches'[c].members) = meta[r].work + W(c)
      BY <1>6, <1>types, <2>2, PlaceFields, WorkAppend
    <3> HIDE DEF W
    <3>3. W(c) \in Nat /\ W(c) <= MaxWork /\ meta[r].work \in Nat /\ MaxWork + meta[r].work < Word
      BY <1>types, <1>old DEF OfferedOnly, NoWrap, Meta
    <3>4. W(c) + meta[r].work \in Nat /\ W(c) + meta[r].work < Word
          /\ W(c) + meta[r].work = meta[r].work + W(c)
      BY <1>types, <3>3
    <3>5. W(c) + meta[r].work <= MaxWork
      BY <1>fits, <3>1, <3>4, WordFits
    <3> QED
      BY <1>6, <1>meta, <3>2, <3>4, <3>5
  <2> QED
    BY <2>1, <2>2
<1>7. ASSUME ~Submit, NEW b \in BatchId, DoSeal(b) PROVE WorkIn(meta', batches'[c].members) <= MaxWork
  BY <1>7, <1>meta, <1>kept, SealFields
<1>8. ASSUME ~Submit, NEW a \in BatchId, NEW b \in BatchId, a # b, DoMerge(a, b)
      PROVE  WorkIn(meta', batches'[c].members) <= MaxWork
  <2>1. CASE c # a
    BY <1>8, <1>meta, <1>kept, <2>1, MergeFields
  <2>2. CASE c = a
    <3> DEFINE u == WorkIn(meta, batches'[c].members)
    <3>1. (0 + (WorkOf(batches[a].members) + WorkOf(batches[b].members))) % Word <= MaxWork
      BY <1>8 DEF DoMerge, CanMerge, AllowsAdd
    <3>2. u <= W(a) + W(b)
      BY <1>8, <1>types, <2>2, MergeFields, WorkConcat
    <3>6. u \in Nat
      BY <1>8, <1>meta, <1>new
    <3> HIDE DEF W, u
    <3>3. W(a) \in Nat /\ W(a) <= MaxWork /\ W(b) \in Nat /\ W(b) <= MaxWork
      BY <1>old
    <3>4. W(a) + W(b) \in Nat /\ W(a) + W(b) < Word /\ 0 + (W(a) + W(b)) = W(a) + W(b)
      BY <1>types, <3>3 DEF NoWrap
    <3>5. W(a) + W(b) <= MaxWork
      BY <1>fits, <3>1, <3>4, WordFits
    <3>7. u <= MaxWork
      BY <1>types, <3>2, <3>3, <3>5, <3>6
    <3> QED
      BY <1>8, <1>meta, <3>7 DEF u
  <2> QED
    BY <2>1, <2>2
<1>9. ASSUME ~Submit, NEW b \in BatchId, DoSplit(b) PROVE WorkIn(meta', batches'[c].members) <= MaxWork
  <2>1. batches'[c].members \in {batches[c].members, FirstHalf(b), SecondHalf(b)}
    BY <1>9, <1>fresh, SplitLeaves
  <2>2. CASE batches'[c].members = batches[c].members
    BY <1>9, <1>meta, <1>old, <2>2
  <2>3. CASE batches'[c].members \in {FirstHalf(b), SecondHalf(b)}
    BY <1>9, <1>meta, <1>types, <1>light, <2>3, HalvesLighter
  <2> QED
    BY <2>1, <2>2, <2>3
<1>10. ASSUME ~Submit, NEW b \in BatchId, StartRun(b) \/ \E w \in Worker : PrepareDispatch(b, w)
       PROVE  WorkIn(meta', batches'[c].members) <= MaxWork
  BY <1>10, <1>meta, <1>kept, RunFields, DispatchFields DEF Handed
<1> HIDE DEF W
<1> QED
  BY <1>1, <1>2, <1>3, <1>4, <1>5, <1>6, <1>7, <1>8, <1>9, <1>10, StepKinds

(* The hard budget: no batch, filled, merged or split, holds more requests  *)
(* or more work, summed without wrapping, than the policy's budget.         *)
THEOREM BatchesInBudget ==
  ASSUME NoWrap
  PROVE  Spec => []BudgetKept
<1>1. Init => OfferedOnly /\ WorkKept
  <2> SUFFICES ASSUME Init PROVE OfferedOnly /\ WorkKept
    OBVIOUS
  <2>1. OfferedOnly
    BY SchedulerAssumption DEF SchedulerAssumption, Init, OfferedOnly
  <2>2. ASSUME NEW b \in BatchId PROVE Work(batches[b].members) = 0
    <3>1. batches[b].members = <<>> /\ DOMAIN <<>> = {}
      BY DEF Init, NoBatchRec
    <3> QED
      BY <3>1, SumEmpty, WorkNow DEF WorkIn
  <2>3. MaxWork \in Nat
    BY PolicyAssumption DEF PolicyAssumption
  <2> QED
    BY <2>1, <2>2, <2>3 DEF WorkKept
<1>2. TypeOK /\ TypeOK' /\ BatchInv /\ AttemptInv /\ OfferedOnly /\ WorkKept /\ [Next]_vars
        => OfferedOnly' /\ WorkKept'
  BY OfferedStep, WorkStep
<1>3. CountKept /\ WorkKept => BudgetKept
  BY DEF BudgetKept
<1> QED
  BY <1>1, <1>2, <1>3, TypeCorrect, BatchesBooked, AttemptsConsistent, BatchesInCount, PTL DEF Spec

-----------------------------------------------------------------------------
(* What the fairness controller has charged. *)

(* What a request contributes at least to its tenant's outstanding work:    *)
(* its admission and its placement each charge its work, and a success      *)
(* releases it once.                                                        *)
Charge(m, q, r) ==
  IF q[r].state \in InBatchState THEN m[r].work + m[r].work
  ELSE IF q[r].state \in {"eligible", "completed", "failed"} THEN m[r].work
  ELSE 0

Bill(m, q, t) == [r \in RequestId |-> IF m[r].tenant = t THEN Charge(m, q, r) ELSE 0]

Charged ==
  \A t \in Tenant : SumFunctionOnSet(Bill(meta, requests, t), RequestId) <= outstanding[t]

(* retry() is called for requests that have completed or failed: it charges *)
(* nothing, so what it queues must have been charged before.                *)
ChargedRetry == \A r \in RequestId : Retry(r) => requests[r].state \in {"completed", "failed"}

LEMMA SumLess ==
  ASSUME NEW S, IsFiniteSet(S), NEW f, NEW g,
         \A x \in S : f[x] \in Nat /\ g[x] \in Nat /\ g[x] <= f[x]
  PROVE  SumFunctionOnSet(g, S) <= SumFunctionOnSet(f, S)
<1> DEFINE h == [x \in S |-> x]
<1>1. \A x \in S : h[x] = x
  OBVIOUS
<1> HIDE DEF h
<1>2. /\ \A x \in S : h[x] \in S /\ g[x] <= f[h[x]]
      /\ \A x, y \in S : h[x] = h[y] => x = y
      /\ \A x \in S : g[x] \in Nat
      /\ \A x \in S : f[x] \in Nat
  BY <1>1
<1> QED
  BY <1>2, SumEmbedded

(* A sum of which one element may grow. *)
LEMMA SumMoved ==
  ASSUME NEW S, IsFiniteSet(S), NEW f, NEW g, NEW y \in S,
         \A x \in S : f[x] \in Nat /\ g[x] \in Nat,
         \A x \in S \ {y} : g[x] <= f[x]
  PROVE  SumFunctionOnSet(g, S) + f[y] <= SumFunctionOnSet(f, S) + g[y]
<1> DEFINE T == S \ {y}
<1>1. IsFiniteSet(T) /\ \A x \in T : f[x] \in Nat /\ g[x] \in Nat /\ g[x] <= f[x]
  BY FS_Subset
<1>2. SumFunctionOnSet(g, T) <= SumFunctionOnSet(f, T)
  <2> HIDE DEF T
  <2> QED
    BY <1>1, SumLess
<1>3. (\A x \in S : f[x] \in Nat) /\ (\A x \in S : g[x] \in Nat)
  OBVIOUS
<1>4. /\ SumFunctionOnSet(f, S) = f[y] + SumFunctionOnSet(f, T)
      /\ SumFunctionOnSet(g, S) = g[y] + SumFunctionOnSet(g, T)
  BY <1>3, SumRemove
<1>5. SumFunctionOnSet(f, T) \in Nat /\ SumFunctionOnSet(g, T) \in Nat
  <2>1. (\A x \in T : f[x] \in Nat) /\ (\A x \in T : g[x] \in Nat)
    BY <1>1
  <2> HIDE DEF T
  <2> QED
    BY <1>1, <2>1, SumNat
<1>6. \A i, j, k, l \in Nat : i <= j => (k + i) + l <= (l + j) + k
  OBVIOUS
<1> HIDE DEF T
<1>7. f[y] \in Nat /\ g[y] \in Nat
  OBVIOUS
<1> QED
  BY <1>2, <1>4, <1>5, <1>6, <1>7

LEMMA BillNat ==
  ASSUME NEW m \in [RequestId -> Meta], NEW q, NEW t
  PROVE  /\ IsFiniteSet(RequestId)
         /\ \A r \in RequestId : /\ Bill(m, q, t)[r] \in Nat /\ Charge(m, q, r) \in Nat
                                 /\ m[r].work \in Nat
                                 /\ Bill(m, q, t)[r] = IF m[r].tenant = t THEN Charge(m, q, r) ELSE 0
         /\ SumFunctionOnSet(Bill(m, q, t), RequestId) \in Nat
<1>1. IsFiniteSet(RequestId)
  <2>1. RequestBound \in Nat
    BY SchedulerAssumption DEF SchedulerAssumption
  <2> QED
    BY <2>1, FS_Interval DEF RequestId
<1>2. \A r \in RequestId : m[r].work \in Nat
  BY DEF Meta
<1>3. \A i \in Nat : i + i \in Nat
  OBVIOUS
<1>4. \A r \in RequestId : Charge(m, q, r) \in Nat
  BY <1>2, <1>3 DEF Charge
<1>5. \A r \in RequestId : /\ Bill(m, q, t)[r] = IF m[r].tenant = t THEN Charge(m, q, r) ELSE 0
                           /\ Bill(m, q, t)[r] \in Nat
  BY <1>4 DEF Bill
<1> QED
  BY <1>1, <1>2, <1>4, <1>5, SumNat

(* Charges that only fall need no payment. *)
LEMMA ChargesFall ==
  ASSUME TypeOK, Charged, meta' = meta, outstanding' = outstanding,
         \A r \in RequestId : Charge(meta, requests', r) <= Charge(meta, requests, r)
  PROVE  Charged'
<1> SUFFICES ASSUME NEW t \in Tenant
             PROVE  SumFunctionOnSet(Bill(meta, requests', t), RequestId) <= outstanding[t]
  BY DEF Charged
<1> DEFINE f == Bill(meta, requests, t)
           g == Bill(meta, requests', t)
<1>1. meta \in [RequestId -> Meta] /\ outstanding[t] \in Nat
  BY DEF TypeOK
<1>2. /\ \A r \in RequestId : f[r] \in Nat /\ f[r] = IF meta[r].tenant = t THEN Charge(meta, requests, r) ELSE 0
      /\ IsFiniteSet(RequestId) /\ SumFunctionOnSet(f, RequestId) \in Nat
  BY <1>1, BillNat
<1>3. /\ \A r \in RequestId : g[r] \in Nat /\ g[r] = IF meta[r].tenant = t THEN Charge(meta, requests', r) ELSE 0
      /\ SumFunctionOnSet(g, RequestId) \in Nat
  BY <1>1, BillNat
<1>4. SumFunctionOnSet(f, RequestId) <= outstanding[t]
  BY DEF Charged
<1> HIDE DEF f, g
<1>5. \A r \in RequestId : f[r] \in Nat /\ g[r] \in Nat /\ g[r] <= f[r]
  BY <1>2, <1>3
<1>6. SumFunctionOnSet(g, RequestId) <= SumFunctionOnSet(f, RequestId)
  BY <1>2, <1>5, SumLess
<1>7. SumFunctionOnSet(g, RequestId) <= outstanding[t]
  BY <1>1, <1>2, <1>3, <1>4, <1>6
<1> QED
  BY <1>7 DEF g

(* The charge of one request may rise if its tenant pays for it. *)
LEMMA ChargePaid ==
  ASSUME TypeOK, TypeOK', Charged, NEW y \in RequestId,
         \A r \in RequestId \ {y} : meta'[r] = meta[r] /\ requests'[r].state = requests[r].state,
         \A t \in Tenant : outstanding[t] + Bill(meta', requests', t)[y]
                             <= outstanding'[t] + Bill(meta, requests, t)[y]
  PROVE  Charged'
<1> SUFFICES ASSUME NEW t \in Tenant
             PROVE  SumFunctionOnSet(Bill(meta', requests', t), RequestId) <= outstanding'[t]
  BY DEF Charged
<1> DEFINE f == Bill(meta, requests, t)
           g == Bill(meta', requests', t)
<1>1. /\ meta \in [RequestId -> Meta] /\ meta' \in [RequestId -> Meta]
      /\ outstanding[t] \in Nat /\ outstanding'[t] \in Nat
  BY DEF TypeOK
<1>2. /\ \A r \in RequestId : f[r] \in Nat /\ f[r] = IF meta[r].tenant = t THEN Charge(meta, requests, r) ELSE 0
      /\ IsFiniteSet(RequestId) /\ SumFunctionOnSet(f, RequestId) \in Nat
  BY <1>1, BillNat
<1>3. /\ \A r \in RequestId : g[r] \in Nat /\ g[r] = IF meta'[r].tenant = t THEN Charge(meta', requests', r) ELSE 0
      /\ SumFunctionOnSet(g, RequestId) \in Nat
  BY <1>1, BillNat
<1>4. \A r \in RequestId \ {y} : Charge(meta', requests', r) = Charge(meta, requests, r)
  BY DEF Charge
<1>5. \A r \in RequestId \ {y} : g[r] = f[r]
  BY <1>2, <1>3, <1>4
<1>6. SumFunctionOnSet(f, RequestId) <= outstanding[t]
  BY DEF Charged
<1>7. outstanding[t] + g[y] <= outstanding'[t] + f[y]
  OBVIOUS
<1> HIDE DEF f, g
<1>8. /\ \A r \in RequestId : f[r] \in Nat /\ g[r] \in Nat
      /\ \A r \in RequestId \ {y} : g[r] <= f[r]
  BY <1>2, <1>3, <1>5
<1>9. SumFunctionOnSet(g, RequestId) + f[y] <= SumFunctionOnSet(f, RequestId) + g[y]
  BY <1>2, <1>8, SumMoved
<1>10. \A i, j, k, l, m, n \in Nat :
         (i + k <= j + l /\ j <= m /\ m + l <= n + k) => i <= n
  OBVIOUS
<1>11. SumFunctionOnSet(g, RequestId) <= outstanding'[t]
  BY <1>1, <1>2, <1>3, <1>6, <1>7, <1>8, <1>9, <1>10
<1> QED
  BY <1>11 DEF g

(* The same, for a request whose metadata stays. *)
LEMMA ChargeMoved ==
  ASSUME TypeOK, TypeOK', Charged, NEW y \in RequestId, meta' = meta,
         \A r \in RequestId \ {y} : requests'[r] = requests[r],
         \A t \in Tenant \ {meta[y].tenant} : outstanding'[t] = outstanding[t],
         outstanding[meta[y].tenant] + Charge(meta, requests', y)
           <= outstanding'[meta[y].tenant] + Charge(meta, requests, y)
  PROVE  Charged'
<1>1. meta \in [RequestId -> Meta] /\ \A t \in Tenant : outstanding[t] \in Nat /\ outstanding'[t] \in Nat
  BY DEF TypeOK
<1>2. \A r \in RequestId \ {y} : meta'[r] = meta[r] /\ requests'[r].state = requests[r].state
  OBVIOUS
<1>3. ASSUME NEW t \in Tenant
      PROVE  outstanding[t] + Bill(meta', requests', t)[y] <= outstanding'[t] + Bill(meta, requests, t)[y]
  <2>1. /\ Bill(meta, requests, t)[y] = IF meta[y].tenant = t THEN Charge(meta, requests, y) ELSE 0
        /\ Bill(meta, requests', t)[y] = IF meta[y].tenant = t THEN Charge(meta, requests', y) ELSE 0
    BY <1>1, BillNat
  <2>2. CASE meta[y].tenant = t
    BY <2>1, <2>2
  <2>3. CASE meta[y].tenant # t
    BY <1>1, <2>1, <2>3
  <2> QED
    BY <2>2, <2>3
<1> QED
  BY <1>2, <1>3, ChargePaid

LEMMA SubmitCharged ==
  ASSUME TypeOK, TypeOK', Charged, Submit
  PROVE  Charged'
<1> DEFINE y == nextRequest
<1>1. /\ y \in RequestId
      /\ \A r \in RequestId \ {y} : meta'[r] = meta[r] /\ requests'[r].state = requests[r].state
  BY SubmitRequests
<1>2. /\ meta \in [RequestId -> Meta] /\ meta' \in [RequestId -> Meta]
      /\ requests \in [RequestId -> RequestRec] /\ outstanding \in [Tenant -> Nat]
      /\ \A t \in Tenant : outstanding[t] \in Nat /\ outstanding'[t] \in Nat
  BY DEF TypeOK
<1>3. ASSUME NEW t \in Tenant
      PROVE  outstanding[t] + Bill(meta', requests', t)[y] <= outstanding'[t] + Bill(meta, requests, t)[y]
  <2>1. Bill(meta, requests, t)[y] \in Nat /\ Bill(meta', requests', t)[y] \in Nat
    BY <1>1, <1>2, BillNat
  <2>2. Bill(meta', requests', t)[y] = IF meta'[y].tenant = t THEN Charge(meta', requests', y) ELSE 0
    BY <1>1, <1>2, BillNat
  <2>3. PICK m \in Offered :
          SubmitExpired(m) \/ SubmitOversized(m) \/ SubmitDeferred(m) \/ SubmitAdmitted(m)
    BY DEF Submit
  <2>4. CASE ~SubmitAdmitted(m)
    <3>1. outstanding' = outstanding /\ requests'[y].state \in {"expired", "rejected", "waiting"}
      BY <1>1, <1>2, <2>3, <2>4 DEF SubmitExpired, SubmitOversized, SubmitDeferred, NewRequest
    <3>2. Charge(meta', requests', y) = 0
      BY <3>1 DEF Charge, InBatchState
    <3>3. Bill(meta', requests', t)[y] = 0
      BY <2>2, <3>2
    <3>4. \A i, j \in Nat : i + 0 <= i + j
      OBVIOUS
    <3> QED
      BY <1>2, <2>1, <3>1, <3>3, <3>4
  <2>5. CASE SubmitAdmitted(m)
    <3>1. requests'[y].state = "eligible" /\ meta'[y] = m
      BY <1>1, <1>2, <2>5 DEF SubmitAdmitted, NewRequest
    <3>2. Charge(meta', requests', y) = m.work
      BY <3>1 DEF Charge, InBatchState
    <3>3. outstanding' = [outstanding EXCEPT ![m.tenant] = @ + m.work]
      BY <2>5 DEF SubmitAdmitted
    <3>4. m.work \in Nat
      BY SchedulerAssumption DEF SchedulerAssumption, Meta
    <3>5. outstanding'[t] = outstanding[t] + Bill(meta', requests', t)[y]
      BY <1>2, <2>2, <3>1, <3>2, <3>3, <3>4
    <3>6. \A i, j, k \in Nat : i + j <= (i + j) + k
      OBVIOUS
    <3> QED
      BY <1>2, <2>1, <3>5, <3>6
  <2> QED
    BY <2>4, <2>5
<1> QED
  BY <1>1, <1>3, ChargePaid

LEMMA PlaceCharged ==
  ASSUME TypeOK, TypeOK', Charged, IndexCoherent, NEW r \in RequestId, Place(r)
  PROVE  Charged'
<1> DEFINE t == meta[r].tenant
           w == meta[r].work
<1>1. /\ meta \in [RequestId -> Meta] /\ outstanding \in [Tenant -> Nat]
      /\ t \in Tenant /\ w \in Nat /\ outstanding[t] \in Nat
  BY DEF TypeOK, Meta
<1>2. /\ \A q \in RequestId \ {r} : requests'[q] = requests[q]
      /\ requests'[r].state = "reserved" /\ waiting[r] > 0
  BY PlaceRequests
<1>3. meta' = meta /\ outstanding' = [outstanding EXCEPT ![t] = @ + w]
  BY DEF Place, idVars
<1>4. requests[r].state = "eligible"
  BY <1>2 DEF IndexCoherent
<1>5. Charge(meta, requests', r) = w + w /\ Charge(meta, requests, r) = w
  BY <1>2, <1>4 DEF Charge, InBatchState
<1>6. outstanding'[t] = outstanding[t] + w /\ \A u \in Tenant \ {t} : outstanding'[u] = outstanding[u]
  BY <1>1, <1>3
<1>7. \A i, j \in Nat : i + (j + j) <= (i + j) + j
  OBVIOUS
<1>8. outstanding[t] + Charge(meta, requests', r) <= outstanding'[t] + Charge(meta, requests, r)
  <2> HIDE DEF t, w
  <2> QED
    BY <1>1, <1>5, <1>6, <1>7
<1> QED
  BY <1>2, <1>3, <1>6, <1>8, ChargeMoved

LEMMA OutcomeCharged ==
  ASSUME TypeOK, TypeOK', Charged, NEW r \in RequestId, NEW status, ApplyOutcome(r, status),
         requests[r].state \in HandedOut
  PROVE  Charged'
<1> DEFINE t == meta[r].tenant
           w == meta[r].work
           c == Charge(meta, requests', r)
<1>1. /\ meta \in [RequestId -> Meta] /\ outstanding \in [Tenant -> Nat]
      /\ t \in Tenant /\ w \in Nat /\ outstanding[t] \in Nat /\ outstanding'[t] \in Nat
  BY DEF TypeOK, Meta
<1>2. meta' = meta /\ \A q \in RequestId \ {r} : requests'[q] = requests[q]
  BY OutcomeRequests DEF ApplyOutcome, idVars
<1>3. Charge(meta, requests, r) = w + w
  BY DEF Charge, InBatchState, HandedOut
<1>4. CASE outstanding' = outstanding
  <2>1. c \in {0, w, w + w}
    BY DEF Charge
  <2>2. \A i, j \in Nat : i + 0 <= i + (j + j) /\ i + j <= i + (j + j) /\ i + (j + j) <= i + (j + j)
    OBVIOUS
  <2>3. outstanding[t] + c <= outstanding'[t] + Charge(meta, requests, r)
    <3> HIDE DEF t, w, c
    <3> QED
      BY <1>1, <1>3, <1>4, <2>1, <2>2
  <2> QED
    BY <1>2, <1>4, <2>3, ChargeMoved
<1>5. CASE outstanding' # outstanding
  <2>1. /\ status = "success"
        /\ requests' = [requests EXCEPT ![r].state = FinalState[status]]
        /\ outstanding' = [outstanding EXCEPT ![t] = Release(@, w)]
    BY <1>5 DEF ApplyOutcome, ApplyIgnored, ApplyFinal, ApplyRetry
  <2>2. requests'[r].state = "completed"
    BY <2>1 DEF FinalState, TypeOK, RequestRec
  <2>3. c = w
    BY <2>2 DEF Charge, InBatchState
  <2>4. outstanding'[t] = Release(outstanding[t], w) /\ \A u \in Tenant \ {t} : outstanding'[u] = outstanding[u]
    BY <1>1, <2>1
  <2>5. \A i, j \in Nat : i + j <= Release(i, j) + (j + j)
    BY DEF Release
  <2>6. outstanding[t] + c <= outstanding'[t] + Charge(meta, requests, r)
    <3> HIDE DEF t, w, c
    <3> QED
      BY <1>1, <1>3, <2>3, <2>4, <2>5
  <2> QED
    BY <1>2, <2>4, <2>6, ChargeMoved
<1> QED
  BY <1>4, <1>5

(* Every step keeps the charges paid for. *)
LEMMA ChargeStep ==
  ASSUME ChargedRetry, TypeOK, TypeOK', BatchInv, AttemptInv, NotFailing, IndexCoherent, Todo,
         Charged, [Next]_vars
  PROVE  Charged'
<1> USE DEF requestVars, idVars, batchVars, fairVars, envVars
<1>types. /\ meta \in [RequestId -> Meta] /\ requests \in [RequestId -> RequestRec]
          /\ \A r \in RequestId : meta[r].work \in Nat
  BY DEF TypeOK, Meta
<1>low. /\ \A r \in RequestId : Charge(meta, requests, r) \in Nat
        /\ \A i \in Nat : 0 <= i /\ i <= i
  <2>1. \A r \in RequestId : Charge(meta, requests, r) \in Nat
    BY <1>types, BillNat
  <2>2. \A i \in Nat : 0 <= i /\ i <= i
    OBVIOUS
  <2> QED
    BY <2>1, <2>2
<1>same. ASSUME \A r \in RequestId : requests'[r].state = requests[r].state, meta' = meta,
                outstanding' = outstanding
         PROVE  Charged'
  <2>1. \A r \in RequestId : Charge(meta, requests', r) = Charge(meta, requests, r)
    BY <1>same DEF Charge
  <2>2. \A r \in RequestId : Charge(meta, requests', r) <= Charge(meta, requests, r)
    BY <1>low, <2>1
  <2> QED
    BY <1>same, <2>2, ChargesFall
<1>1. CASE Submit
  BY <1>1, SubmitCharged
<1>2. CASE Still \/ FillNewDone \/ CompleteDone \/ \E k \in Key : MakeForming(k)
  <2>1. requests' = requests /\ meta' = meta /\ outstanding' = outstanding
    BY <1>2 DEF Still, FillNewDone, CompleteDone, MakeForming
  <2> QED
    BY <1>same, <2>1
<1>3. CASE ExpireWaiting
  <2>1. meta' = meta /\ outstanding' = outstanding
    BY <1>3 DEF ExpireWaiting
  <2>2. ASSUME NEW r \in RequestId PROVE Charge(meta, requests', r) <= Charge(meta, requests, r)
    <3>1. requests'[r] = requests[r] \/ requests'[r].state = "expired"
      BY <1>3, ExpireRequests
    <3>2. Charge(meta, requests', r) \in {Charge(meta, requests, r), 0}
      BY <3>1 DEF Charge, InBatchState
    <3> QED
      BY <1>low, <3>2
  <2> QED
    BY <2>1, <2>2, ChargesFall
<1>4. ASSUME NEW r \in RequestId, DoCancel(r) PROVE Charged'
  <2>1. meta' = meta /\ outstanding' = outstanding
    BY <1>4 DEF DoCancel
  <2>2. ASSUME NEW q \in RequestId PROVE Charge(meta, requests', q) <= Charge(meta, requests, q)
    <3>1. requests'[q] = requests[q] \/ requests'[q].state = "cancelled"
      BY <1>4, CancelRequests
    <3>2. Charge(meta, requests', q) \in {Charge(meta, requests, q), 0}
      BY <3>1 DEF Charge, InBatchState
    <3> QED
      BY <1>low, <3>2
  <2> QED
    BY <2>1, <2>2, ChargesFall
<1>5. ASSUME NEW r \in RequestId, Place(r) PROVE Charged'
  BY <1>5, PlaceCharged
<1>within. ASSUME meta' = meta, outstanding' = outstanding,
                  \A r \in RequestId : \/ requests'[r].state = requests[r].state
                                       \/ requests[r].state \in InBatchState
                                            /\ requests'[r].state \in InBatchState
           PROVE  Charged'
  <2>1. ASSUME NEW r \in RequestId PROVE Charge(meta, requests', r) = Charge(meta, requests, r)
    BY <1>within DEF Charge
  <2>2. \A r \in RequestId : Charge(meta, requests', r) <= Charge(meta, requests, r)
    BY <1>low, <2>1
  <2> QED
    BY <1>within, <2>2, ChargesFall
<1>6. ASSUME NEW b \in BatchId, DoSeal(b), UNCHANGED <<idVars, outstanding>> PROVE Charged'
  <2>1. \A r \in RequestId : \/ requests'[r].state = requests[r].state
                             \/ requests[r].state \in InBatchState
                                  /\ requests'[r].state \in InBatchState
    BY <1>types, <1>6, SealRequests DEF InBatchState, RequestRec
  <2> QED
    BY <1>6, <1>within, <2>1
<1>7. ASSUME NEW a \in BatchId, NEW b \in BatchId, DoMerge(a, b) PROVE Charged'
  <2>1. \A r \in RequestId : requests'[r].state = requests[r].state
    BY <1>7, MergeRequests
  <2>2. meta' = meta /\ outstanding' = outstanding
    BY <1>7 DEF DoMerge
  <2> QED
    BY <2>1, <2>2, <1>same
<1>8. ASSUME NEW b \in BatchId, DoSplit(b) PROVE Charged'
  <2>1. \A r \in RequestId : requests'[r].state = requests[r].state
    BY <1>8, RehomeRequests
  <2>2. meta' = meta /\ outstanding' = outstanding
    BY <1>8 DEF DoSplit
  <2> QED
    BY <2>1, <2>2, <1>same
<1>9. ASSUME NEW r \in RequestId, Retry(r) PROVE Charged'
  <2>1. meta' = meta /\ outstanding' = outstanding /\ Requeue(r)
    BY <1>9 DEF Retry
  <2>2. requests[r].state \in {"completed", "failed"} /\ requests'[r].state = "eligible"
    BY <1>9, <2>1, RetryRequests DEF ChargedRetry
  <2>3. \A q \in RequestId \ {r} : requests'[q] = requests[q]
    BY <2>1, RetryRequests
  <2>4. ASSUME NEW q \in RequestId PROVE Charge(meta, requests', q) = Charge(meta, requests, q)
    BY <2>2, <2>3 DEF Charge, InBatchState
  <2>5. \A q \in RequestId : Charge(meta, requests', q) <= Charge(meta, requests, q)
    BY <1>low, <2>4
  <2> QED
    BY <2>1, <2>5, ChargesFall
<1>10. ASSUME NEW r \in RequestId, CompleteMember(r) \/ FailMember(r) PROVE Charged'
  <2>1. op.pc # "fail"
    BY DEF NotFailing
  <2>2. ApplyOutcome(r, op.report[r]) /\ requests[r].state \in HandedOut
    BY <1>10, <2>1 DEF CompleteMember, FailMember, Todo
  <2> QED
    BY <2>2, OutcomeCharged
<1>11. ASSUME NEW b \in BatchId, StartRun(b) \/ \E w \in Worker : PrepareDispatch(b, w) PROVE Charged'
  <2>1. /\ meta' = meta /\ outstanding' = outstanding
        /\ Advance(b, "running") \/ Advance(b, "dispatched")
    BY <1>11 DEF StartRun, PrepareDispatch
  <2>2. \A r \in RequestId : \/ requests'[r].state = requests[r].state
                             \/ requests[r].state \in InBatchState
                                  /\ requests'[r].state \in InBatchState
    BY <2>1, AdvanceRequests DEF InBatchState
  <2> QED
    BY <2>1, <2>2, <1>within
<1> QED
  BY <1>1, <1>2, <1>3, <1>4, <1>5, <1>6, <1>7, <1>8, <1>9, <1>10, <1>11, StepKinds

LEMMA ChargeInit == Init => Charged
<1> SUFFICES ASSUME Init, NEW t \in Tenant
             PROVE  SumFunctionOnSet(Bill(meta, requests, t), RequestId) <= outstanding[t]
  BY DEF Charged
<1> DEFINE f == Bill(meta, requests, t)
<1>1. meta \in [RequestId -> Meta]
  BY InitType DEF TypeOK
<1>2. \A r \in RequestId : f[r] = 0
  <2>1. \A r \in RequestId : Charge(meta, requests, r) = 0
    BY DEF Init, Charge, InBatchState
  <2> QED
    BY <2>1 DEF Bill
<1>3. IsFiniteSet(RequestId) /\ SumFunctionOnSet(f, RequestId) \in Nat
  BY <1>1, BillNat
<1>4. \A s \in SUBSET RequestId : s \in {u \in SUBSET RequestId : SumFunctionOnSet(f, u) = 0}
  <2> DEFINE P == {u \in SUBSET RequestId : SumFunctionOnSet(f, u) = 0}
  <2>1. {} \in P
    BY SumEmpty
  <2>2. ASSUME NEW s \in SUBSET RequestId, s # {}, \A x \in s : s \ {x} \in P PROVE s \in P
    <3>1. PICK x \in s : TRUE
      BY <2>2
    <3>2. IsFiniteSet(s) /\ \A z \in s : f[z] \in Nat
      BY <1>2, <1>3, FS_Subset
    <3>3. SumFunctionOnSet(f, s) = f[x] + SumFunctionOnSet(f, s \ {x})
      <4> HIDE DEF f
      <4> QED
        BY <3>2, SumRemove
    <3>4. f[x] = 0 /\ SumFunctionOnSet(f, s \ {x}) = 0
      BY <1>2, <2>2
    <3> QED
      BY <3>3, <3>4
  <2> HIDE DEF P
  <2>3. \A s \in SUBSET RequestId : s \in P
    BY <1>3, <2>1, <2>2, FiniteClosed
  <2> QED
    BY <2>3 DEF P
<1>5. SumFunctionOnSet(f, RequestId) = 0 /\ outstanding[t] = 0
  BY <1>4 DEF Init
<1> HIDE DEF f
<1>6. SumFunctionOnSet(f, RequestId) <= outstanding[t]
  BY <1>5
<1> QED
  BY <1>6 DEF f

(* What is charged covers what is owed for the live requests. *)
LEMMA ChargeCovers == TypeOK /\ Charged => OutstandingCovers
<1> SUFFICES ASSUME TypeOK, Charged, NEW t \in Tenant
             PROVE  SumFunctionOnSet([r \in RequestId |-> meta[r].work],
                      {r \in RequestId : /\ Live(r) /\ requests[r].state # "waiting"
                                         /\ meta[r].tenant = t}) <= outstanding[t]
  BY DEF OutstandingCovers
<1> DEFINE f == Bill(meta, requests, t)
           g == [r \in RequestId |-> meta[r].work]
           L == {r \in RequestId : Live(r) /\ requests[r].state # "waiting" /\ meta[r].tenant = t}
<1>1. /\ meta \in [RequestId -> Meta] /\ requests \in [RequestId -> RequestRec]
      /\ outstanding[t] \in Nat
  BY DEF TypeOK
<1>2. /\ IsFiniteSet(RequestId) /\ SumFunctionOnSet(f, RequestId) \in Nat
      /\ \A r \in RequestId : /\ f[r] \in Nat /\ meta[r].work \in Nat
                              /\ f[r] = IF meta[r].tenant = t THEN Charge(meta, requests, r) ELSE 0
  BY <1>1, BillNat
<1>3. L \subseteq RequestId /\ IsFiniteSet(L)
  BY <1>2, FS_Subset
<1>4. ASSUME NEW r \in L PROVE f[r] \in Nat /\ g[r] \in Nat /\ g[r] <= f[r]
  <2>1. requests[r].state \in InBatchState \cup {"eligible"}
    BY <1>1 DEF Live, RequestRec, RequestState, WaitingState
  <2>2. Charge(meta, requests, r) \in {meta[r].work, meta[r].work + meta[r].work}
    BY <2>1 DEF Charge
  <2>3. \A i \in Nat : i <= i /\ i <= i + i
    OBVIOUS
  <2>4. g[r] = meta[r].work /\ f[r] = Charge(meta, requests, r)
    BY <1>2
  <2> HIDE DEF f, g
  <2> QED
    BY <1>2, <1>3, <2>2, <2>3, <2>4
<1>5. SumFunctionOnSet(f, RequestId) <= outstanding[t]
  BY DEF Charged
<1> HIDE DEF f, g, L
<1>6. SumFunctionOnSet(g, L) <= SumFunctionOnSet(f, L)
  BY <1>3, <1>4, SumLess
<1>7. SumFunctionOnSet(f, L) <= SumFunctionOnSet(f, RequestId)
  BY <1>2, <1>3, SumSubset
<1>8. SumFunctionOnSet(f, L) \in Nat /\ SumFunctionOnSet(g, L) \in Nat
  BY <1>3, <1>4, SumNat
<1>9. \A i, j, k, l \in Nat : i <= j /\ j <= k /\ k <= l => i <= l
  OBVIOUS
<1>10. SumFunctionOnSet(g, L) <= outstanding[t]
  BY <1>1, <1>2, <1>5, <1>6, <1>7, <1>8, <1>9
<1> QED
  BY <1>10 DEF g, L

(* The outstanding cap is never undercut: on_admit, on_place and on_complete*)
(* leave a tenant charged with at least the work of its requests that were  *)
(* admitted and have not ended.  A retry charges nothing, so it must be of  *)
(* a request that had been admitted; no in-process execution fails as a     *)
(* whole.                                                                   *)
THEOREM OutstandingCovered ==
  ASSUME RetryFrom \subseteq {"completed", "failed"}, "failed" \notin LocalResults
  PROVE  Spec => []OutstandingCovers
<1>1. Careful
  BY DEF Careful, Terminal
<1>2. ChargedRetry
  BY DEF ChargedRetry, Retry
<1>3. Spec => []NotFailing
  BY NoFailPath
<1>4. TypeOK /\ TypeOK' /\ BatchInv /\ AttemptInv /\ NotFailing /\ Placement /\ Charged /\ [Next]_vars
        => Charged'
  BY <1>2, ChargeStep DEF Placement
<1> QED
  BY <1>1, <1>3, <1>4, ChargeInit, ChargeCovers, RequestsPlaced, TypeCorrect, BatchesBooked,
     AttemptsConsistent, PTL DEF Spec
=============================================================================
