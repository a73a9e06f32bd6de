-------------------------------- MODULE Sums --------------------------------
(***************************************************************************)
(* Sums over finite sets, as SumSet and MapThenSumSet take them.           *)
(***************************************************************************)
EXTENDS FiniteSetsExt, FiniteSetTheorems, TLAPS

-----------------------------------------------------------------------------
(* A set of subsets of a finite set has a least one. *)

LEMMA LeastSubset ==
  ASSUME NEW S, IsFiniteSet(S), NEW Bad, Bad \subseteq SUBSET S, Bad # {}
  PROVE  \E T \in Bad : \A U \in Bad : U \subseteq T => U = T
<1>1. FiniteSubsetsOf(S) = SUBSET S BY FS_FiniteSubsetsOfFinite
<1>2. IsWellFoundedOn(StrictSubsetOrdering(S), SUBSET S)
  BY <1>1, FS_StrictSubsetOrderingWellFounded
<1>3. PICK T \in Bad : \A U \in Bad : ~ (<<U, T>> \in StrictSubsetOrdering(S))
  BY <1>2, WFMin
<1>4. SUFFICES ASSUME NEW U \in Bad, U \subseteq T, U # T PROVE FALSE
  BY <1>3
<1> QED BY <1>3, <1>4 DEF StrictSubsetOrdering

-----------------------------------------------------------------------------
(* The recursion. *)

Pick(s) == CHOOSE x \in s : TRUE

LEMMA PickIn ==
  ASSUME NEW s, s # {}
  PROVE  Pick(s) \in s
BY DEF Pick

\* f adds up w over every subset of S.
Adds(f, w, S) ==
  f = [s \in SUBSET S |-> IF s = {} THEN 0 ELSE w[Pick(s)] + f[s \ {Pick(s)}]]

\* Two functions that do so agree.
LEMMA AddsUnique ==
  ASSUME NEW w, NEW S, NEW T, NEW f, NEW g, Adds(f, w, S), Adds(g, w, T),
         NEW s, s \subseteq S, s \subseteq T, IsFiniteSet(s)
  PROVE  f[s] = g[s]
<1> DEFINE Bad == {t \in SUBSET s : f[t] # g[t]}
<1>1. SUFFICES ASSUME f[s] # g[s] PROVE FALSE OBVIOUS
<1>2. s \in Bad BY <1>1
<1>3. PICK t \in Bad : \A u \in Bad : u \subseteq t => u = t
  <2>1. Bad \subseteq SUBSET s /\ Bad # {} BY <1>2
  <2> HIDE DEF Bad
  <2> QED BY <2>1, LeastSubset
<1>4. t \in SUBSET S /\ t \in SUBSET T /\ t \subseteq s OBVIOUS
<1>5. f[t] = IF t = {} THEN 0 ELSE w[Pick(t)] + f[t \ {Pick(t)}] BY <1>4 DEF Adds
<1>6. g[t] = IF t = {} THEN 0 ELSE w[Pick(t)] + g[t \ {Pick(t)}] BY <1>4 DEF Adds
<1>7. CASE t = {} BY <1>5, <1>6, <1>7
<1>8. CASE t # {}
  <2>1. Pick(t) \in t BY <1>8, PickIn
  <2>2. t \ {Pick(t)} \in SUBSET s /\ t \ {Pick(t)} \subseteq t /\ t \ {Pick(t)} # t BY <2>1, <1>4
  <2>3. f[t \ {Pick(t)}] = g[t \ {Pick(t)}] BY <1>3, <2>2
  <2> QED BY <1>5, <1>6, <1>8, <2>3
<1> QED BY <1>7, <1>8

\* One does, for every finite set.
LEMMA AddsExists ==
  ASSUME NEW w, NEW S, IsFiniteSet(S)
  PROVE  \E f : Adds(f, w, S)
<1> DEFINE F(u) == CHOOSE f : Adds(f, w, u)
           Bad == {t \in SUBSET S : ~ \E f : Adds(f, w, t)}
<1>1. SUFFICES ASSUME S \in Bad PROVE FALSE OBVIOUS
<1>2. PICK t \in Bad : \A u \in Bad : u \subseteq t => u = t
  <2>1. Bad \subseteq SUBSET S /\ Bad # {} BY <1>1
  <2> HIDE DEF Bad
  <2> QED BY <2>1, LeastSubset
<1>3. \A u : u \subseteq t /\ u # t => Adds(F(u), w, u)
  <2> SUFFICES ASSUME NEW u, u \subseteq t, u # t PROVE Adds(F(u), w, u) OBVIOUS
  <2>1. \E f : Adds(f, w, u) BY <1>2
  <2> QED BY <2>1
<1>4. \A u : u \subseteq t => IsFiniteSet(u) BY FS_Subset
<1> DEFINE After(s) == s \ {Pick(s)}
           g == [s \in SUBSET t |-> IF s = {} THEN 0 ELSE w[Pick(s)] + F(After(s))[After(s)]]
<1>5. \A s : s \subseteq t /\ s # {} => After(s) \subseteq t /\ After(s) \subseteq s /\ After(s) # t /\ After(s) # s
  BY PickIn
<1>6. ASSUME NEW u, u \subseteq t, u # t
      PROVE  F(u)[u] = g[u]
  <2>1. Adds(F(u), w, u) /\ u \in SUBSET u /\ u \in SUBSET t BY <1>3, <1>6
  <2> HIDE DEF F
  <2>2. F(u)[u] = IF u = {} THEN 0 ELSE w[Pick(u)] + F(u)[u \ {Pick(u)}]
    BY <2>1 DEF Adds
  <2>3. g[u] = IF u = {} THEN 0 ELSE w[Pick(u)] + F(After(u))[After(u)] BY <2>1
  <2>4. ASSUME u # {} PROVE F(u)[After(u)] = F(After(u))[After(u)]
    <3>1. After(u) \subseteq u /\ After(u) # t /\ After(u) \subseteq t BY <1>5, <1>6, <2>4
    <3>2. Adds(F(After(u)), w, After(u)) /\ IsFiniteSet(After(u)) BY <1>3, <1>4, <3>1
    <3> QED BY <2>1, <3>1, <3>2, AddsUnique
  <2> QED BY <2>2, <2>3, <2>4
<1>7. g = [s \in SUBSET t |-> IF s = {} THEN 0 ELSE w[Pick(s)] + g[s \ {Pick(s)}]]
  <2>1. ASSUME NEW s \in SUBSET t, s # {}
        PROVE  F(After(s))[After(s)] = g[After(s)]
    BY <1>5, <1>6, <2>1
  <2> HIDE DEF F
  <2>2. \A s \in SUBSET t : (IF s = {} THEN 0 ELSE w[Pick(s)] + F(After(s))[After(s)])
                          = (IF s = {} THEN 0 ELSE w[Pick(s)] + g[s \ {Pick(s)}])
    <3> HIDE DEF g
    <3> QED BY <2>1
  <2> DEFINE A(s) == IF s = {} THEN 0 ELSE w[Pick(s)] + F(After(s))[After(s)]
             B(s) == IF s = {} THEN 0 ELSE w[Pick(s)] + g[s \ {Pick(s)}]
  <2>3. g = [s \in SUBSET t |-> A(s)] OBVIOUS
  <2>4. \A s \in SUBSET t : A(s) = B(s) BY <2>2
  <2> HIDE DEF A, B
  <2>5. g = [s \in SUBSET t |-> B(s)] BY <2>3, <2>4
  <2> QED BY <2>5 DEF B
<1>8. \E f : Adds(f, w, t)
  <2> HIDE DEF g
  <2> QED BY <1>7 DEF Adds
<1> QED BY <1>2, <1>8

\* What a set adds up to.
Total(w, S) == (CHOOSE f : Adds(f, w, S))[S]

\* The one picked and the rest.
LEMMA TotalStep ==
  ASSUME NEW w, NEW S, IsFiniteSet(S)
  PROVE  Total(w, S) = IF S = {} THEN 0 ELSE w[Pick(S)] + Total(w, S \ {Pick(S)})
<1> DEFINE F(u) == CHOOSE f : Adds(f, w, u)
           rest == S \ {Pick(S)}
<1>1. IsFiniteSet(rest) /\ rest \subseteq S BY FS_Subset
<1>2. Adds(F(S), w, S) /\ Adds(F(rest), w, rest) BY <1>1, AddsExists
<1>3. Total(w, S) = F(S)[S] /\ Total(w, rest) = F(rest)[rest] BY DEF Total
<1> HIDE DEF F
<1>4. F(S)[S] = IF S = {} THEN 0 ELSE w[Pick(S)] + F(S)[rest] BY <1>2 DEF Adds
<1>5. F(S)[rest] = F(rest)[rest] BY <1>1, <1>2, AddsUnique
<1> QED BY <1>3, <1>4, <1>5

-----------------------------------------------------------------------------
(* Sums of numbers: the order does not matter. *)

LEMMA TotalType ==
  ASSUME NEW w, NEW S, IsFiniteSet(S), \A x \in S : w[x] \in Nat
  PROVE  Total(w, S) \in Nat
<1> DEFINE Bad == {t \in SUBSET S : Total(w, t) \notin Nat}
<1>1. SUFFICES ASSUME S \in Bad PROVE FALSE OBVIOUS
<1>2. PICK t \in Bad : \A u \in Bad : u \subseteq t => u = t
  <2>1. Bad \subseteq SUBSET S /\ Bad # {} BY <1>1
  <2> HIDE DEF Bad
  <2> QED BY <2>1, LeastSubset
<1>3. IsFiniteSet(t) BY FS_Subset
<1>4. Total(w, t) = IF t = {} THEN 0 ELSE w[Pick(t)] + Total(w, t \ {Pick(t)}) BY <1>3, TotalStep
<1>5. CASE t = {} BY <1>4, <1>5
<1>6. CASE t # {}
  <2>1. Pick(t) \in t BY <1>6, PickIn
  <2>2. Total(w, t \ {Pick(t)}) \in Nat BY <1>2, <2>1
  <2>3. w[Pick(t)] \in Nat BY <2>1
  <2> QED BY <1>4, <1>6, <2>2, <2>3
<1> QED BY <1>5, <1>6

LEMMA TotalRemove ==
  ASSUME NEW w, NEW S, IsFiniteSet(S), \A x \in S : w[x] \in Nat, NEW c \in S
  PROVE  Total(w, S) = w[c] + Total(w, S \ {c})
<1> DEFINE Bad == {t \in SUBSET S : \E x \in t : Total(w, t) # w[x] + Total(w, t \ {x})}
<1>1. SUFFICES ASSUME S \in Bad PROVE FALSE OBVIOUS
<1>2. PICK t \in Bad : \A u \in Bad : u \subseteq t => u = t
  <2>1. Bad \subseteq SUBSET S /\ Bad # {} BY <1>1
  <2> HIDE DEF Bad
  <2> QED BY <2>1, LeastSubset
<1>3. PICK x \in t : Total(w, t) # w[x] + Total(w, t \ {x}) BY <1>2
<1> DEFINE y == Pick(t)
<1>4. y \in t BY PickIn
<1>5. \A u : u \subseteq t => IsFiniteSet(u) /\ Total(w, u) \in Nat
  <2> SUFFICES ASSUME NEW u, u \subseteq t PROVE IsFiniteSet(u) /\ Total(w, u) \in Nat OBVIOUS
  <2>1. IsFiniteSet(u) /\ u \subseteq S BY FS_Subset
  <2> QED BY <2>1, TotalType
<1>6. Total(w, t) = w[y] + Total(w, t \ {y}) BY <1>4, <1>5, TotalStep
<1> HIDE DEF y
<1>7. x # y BY <1>3, <1>6
<1>8. \A u : u \subseteq t /\ u # t => \A z \in u : Total(w, u) = w[z] + Total(w, u \ {z})
  BY <1>2
<1>9. Total(w, t \ {y}) = w[x] + Total(w, (t \ {y}) \ {x})
  BY <1>4, <1>7, <1>8
<1>10. Total(w, t \ {x}) = w[y] + Total(w, (t \ {x}) \ {y})
  BY <1>4, <1>7, <1>8
<1>11. Total(w, (t \ {x}) \ {y}) = Total(w, (t \ {y}) \ {x})
  <2>1. (t \ {x}) \ {y} = (t \ {y}) \ {x} OBVIOUS
  <2> QED BY <2>1, Zenon
<1>12. w[x] \in Nat /\ w[y] \in Nat /\ Total(w, (t \ {y}) \ {x}) \in Nat
  BY <1>4, <1>5
<1> DEFINE T == Total(w, t)
           Ty == Total(w, t \ {y})
           Tx == Total(w, t \ {x})
           Txy == Total(w, (t \ {y}) \ {x})
<1>13. T # w[x] + Tx /\ T = w[y] + Ty /\ Ty = w[x] + Txy /\ Tx = w[y] + Txy
  BY <1>3, <1>6, <1>9, <1>10, <1>11
<1>14. w[x] \in Nat /\ w[y] \in Nat /\ Txy \in Nat BY <1>12
<1> HIDE DEF T, Ty, Tx, Txy
<1> QED BY <1>13, <1>14

\* SumSet is such a sum, each number counting as itself.
Itself(S) == [x \in S |-> x]

LEMMA SumSetTotal ==
  ASSUME NEW S, IsFiniteSet(S)
  PROVE  SumSet(S) = Total(Itself(S), S)
<1> DEFINE G(f) == f = [s \in SUBSET S |-> IF s = {} THEN 0 ELSE Pick(s) + f[s \ {Pick(s)}]]
<1>1. SumSet(S) = (CHOOSE f : G(f))[S]
  BY DEF SumSet, FoldSet, MapThenFoldSet, Pick
<1>2. \A f : G(f) <=> Adds(f, Itself(S), S)
  <2> SUFFICES ASSUME NEW f PROVE G(f) <=> Adds(f, Itself(S), S) OBVIOUS
  <2> DEFINE A(s) == IF s = {} THEN 0 ELSE Pick(s) + f[s \ {Pick(s)}]
             B(s) == IF s = {} THEN 0 ELSE Itself(S)[Pick(s)] + f[s \ {Pick(s)}]
  <2>1. \A s \in SUBSET S : A(s) = B(s) BY PickIn DEF Itself
  <2>2. (G(f) <=> f = [s \in SUBSET S |-> A(s)]) /\ (Adds(f, Itself(S), S) <=> f = [s \in SUBSET S |-> B(s)])
    BY DEF Adds
  <2> HIDE DEF A, B, G
  <2> QED BY <2>1, <2>2
<1> DEFINE F == CHOOSE f : G(f)
           H == CHOOSE f : Adds(f, Itself(S), S)
<1>3. Adds(H, Itself(S), S) BY AddsExists
<1>4. Adds(F, Itself(S), S)
  <2> HIDE DEF G
  <2>1. G(H) BY <1>2, <1>3
  <2>2. G(F) BY <2>1
  <2> QED BY <1>2, <2>2
<1>5. SumSet(S) = F[S] /\ Total(Itself(S), S) = H[S] BY <1>1 DEF Total
<1> HIDE DEF F, H
<1> QED BY <1>3, <1>4, <1>5, AddsUnique

\* A set of numbers adds up to a number; one that is not in it yet adds itself.
LEMMA SumOfNumbers ==
  ASSUME NEW S, IsFiniteSet(S), S \subseteq Nat
  PROVE  SumSet(S) \in Nat
BY SumSetTotal, TotalType DEF Itself

LEMMA SumOfNone == SumSet({}) = 0
BY SumSetTotal, TotalStep, FS_EmptySet

\* What an element counts for outside a set does not matter to its sum.
LEMMA TotalSame ==
  ASSUME NEW v, NEW w, NEW S, IsFiniteSet(S), \A x \in S : v[x] = w[x]
  PROVE  Total(v, S) = Total(w, S)
<1> DEFINE Bad == {t \in SUBSET S : Total(v, t) # Total(w, t)}
<1>1. SUFFICES ASSUME S \in Bad PROVE FALSE OBVIOUS
<1>2. PICK t \in Bad : \A u \in Bad : u \subseteq t => u = t
  <2>1. Bad \subseteq SUBSET S /\ Bad # {} BY <1>1
  <2> HIDE DEF Bad
  <2> QED BY <2>1, LeastSubset
<1>3. IsFiniteSet(t) BY FS_Subset
<1>4. /\ Total(v, t) = IF t = {} THEN 0 ELSE v[Pick(t)] + Total(v, t \ {Pick(t)})
      /\ Total(w, t) = IF t = {} THEN 0 ELSE w[Pick(t)] + Total(w, t \ {Pick(t)})
  BY <1>3, TotalStep
<1>5. CASE t = {} BY <1>4, <1>5
<1>6. CASE t # {}
  <2>1. Pick(t) \in t BY <1>6, PickIn
  <2>2. Total(v, t \ {Pick(t)}) = Total(w, t \ {Pick(t)}) BY <1>2, <2>1
  <2>3. v[Pick(t)] = w[Pick(t)] BY <2>1
  <2> QED BY <1>2, <1>4, <1>6, <2>2, <2>3
<1> QED BY <1>5, <1>6

LEMMA SumAdds ==
  ASSUME NEW S, IsFiniteSet(S), S \subseteq Nat, NEW c \in Nat, c \notin S
  PROVE  SumSet(S \cup {c}) = SumSet(S) + c
<1> DEFINE T == S \cup {c}
<1>1. IsFiniteSet(T) /\ T \subseteq Nat /\ T \ {c} = S BY FS_AddElement
<1>2. SumSet(T) = Total(Itself(T), T) /\ SumSet(S) = Total(Itself(S), S) BY <1>1, SumSetTotal
<1>3. \A x \in T : Itself(T)[x] \in Nat BY <1>1 DEF Itself
<1>4. c \in T OBVIOUS
<1> HIDE DEF T
<1>5. Total(Itself(T), T) = Itself(T)[c] + Total(Itself(T), T \ {c}) BY ZenonT(30), <1>1, <1>3, <1>4, TotalRemove
<1>6. Total(Itself(T), S) = Total(Itself(S), S)
  <2>1. \A x \in S : Itself(T)[x] = Itself(S)[x] BY <1>1 DEF Itself
  <2> QED BY <2>1, TotalSame
<1>7. Itself(T)[c] = c BY <1>4 DEF Itself
<1>8. SumSet(S) \in Nat BY SumOfNumbers
<1>9. SumSet(T) = SumSet(S) + c BY <1>1, <1>2, <1>5, <1>6, <1>7, <1>8
<1> QED BY <1>9 DEF T
-----------------------------------------------------------------------------
(* Sets of numbers: the least of any, the greatest of a finite one. *)

LEMMA LeastNumber ==
  ASSUME NEW S, S \subseteq Nat, S # {}
  PROVE  \E n \in S : \A m \in S : n <= m
<1>1. PICK n \in S : \A m \in S : ~ (<<m, n>> \in OpToRel(<, Nat))
  BY NatLessThanWellFounded, WFMin
<1>2. \A m \in S : ~ (m < n) BY <1>1 DEF OpToRel
<1> QED BY <1>2

LEMMA GreatestNumber ==
  ASSUME NEW S, \A n \in S : n \in Nat, S # {}, IsFiniteSet(S)
  PROVE  \E n \in S : \A m \in S : m <= n
<1> DEFINE Top(t) == \E n \in t : \A m \in t : m <= n
           Bad == {t \in SUBSET S : t # {} /\ ~Top(t)}
<1>1. SUFFICES ASSUME S \in Bad PROVE FALSE OBVIOUS
<1>2. PICK t \in Bad : \A u \in Bad : u \subseteq t => u = t
  <2>1. Bad \subseteq SUBSET S /\ Bad # {} BY <1>1
  <2> HIDE DEF Top, Bad
  <2> QED BY <2>1, LeastSubset
<1> HIDE DEF Bad
<1>3. t \subseteq S /\ t # {} /\ ~Top(t) /\ \A m \in t : m \in Nat BY <1>2 DEF Bad
<1>4. \A u : u \subseteq t /\ u # t /\ u # {} => Top(u) BY <1>2, <1>3 DEF Bad
<1>5. PICK x \in t : TRUE BY <1>3
<1>6. CASE t \ {x} = {}
  <2>1. \A m \in t : m <= x BY <1>3, <1>5, <1>6
  <2> QED BY <1>3, <1>5, <2>1
<1>7. CASE t \ {x} # {}
  <2>1. Top(t \ {x}) BY <1>4, <1>5, <1>7
  <2>2. PICK n \in t \ {x} : \A m \in t \ {x} : m <= n BY <2>1
  <2>3. n \in Nat /\ x \in Nat BY <1>3, <1>5, <2>2
  <2>4. CASE x <= n
    <3>1. \A m \in t : m <= n BY <2>2, <2>4
    <3> QED BY <1>3, <2>2, <3>1
  <2>5. CASE n <= x
    <3>1. \A m \in t : m <= x BY <1>3, <2>2, <2>3, <2>5
    <3> QED BY <1>3, <1>5, <3>1
  <2> QED BY <2>3, <2>4, <2>5
<1> QED BY <1>6, <1>7
=============================================================================
