-------------------------- MODULE OperationsProofs --------------------------
(* What the later proofs need of the operators of the model: sums over       *)
(* finite sets, the share accounting, and the operations of a farm.          *)
EXTENDS FarmOperations, FiniteSetTheorems, TLAPS

-----------------------------------------------------------------------------
(* Sums over finite sets: what the proofs about all the users of a farm, and *)
(* about all the instants of a schedule, need of SumFunction.  Induction     *)
(* over a finite set is a search for a smallest counterexample.              *)

Pick(s) == CHOOSE x \in s : TRUE

(* g is the function by which the sum over I is computed. *)
Sums(g, f, I) ==
  g = [s \in SUBSET I |-> IF s = {} THEN 0 ELSE f[Pick(s)] + g[s \ {Pick(s)}]]

Total(f, s) == SumFunctionOnSet(f, s)

(* The sum is computed by such a function. *)
LEMMA TotalUnfold ==
  ASSUME NEW f, NEW I
  PROVE  Total(f, I) = (CHOOSE g : Sums(g, f, I))[I]
BY DEF Total, SumFunctionOnSet, FoldFunctionOnSet, MapThenFoldSet, Sums, Pick

(* Among the subsets of a finite set that violate something one is smallest. *)
LEMMA SmallestCounterexample ==
  ASSUME NEW I, IsFiniteSet(I), NEW Bad \in SUBSET SUBSET I, Bad # {}
  PROVE  \E T \in Bad : \A U \in Bad : U \subseteq T => U = T
<1>1. IsWellFoundedOn(StrictSubsetOrdering(I), SUBSET I)
  BY FS_StrictSubsetOrderingWellFounded, FS_FiniteSubsetsOfFinite
<1>2. \E T \in Bad : \A U \in Bad : ~ (<<U, T>> \in StrictSubsetOrdering(I))
  BY <1>1, WFMin
<1> QED BY <1>2 DEF StrictSubsetOrdering

(* A set is not empty when it has something to pick. *)
LEMMA Picked ==
  ASSUME NEW s, s # {}
  PROVE  Pick(s) \in s
BY DEF Pick

(* Two such functions agree where both are defined. *)
LEMMA SumsAgree ==
  ASSUME NEW f, NEW J, NEW K, NEW g, NEW h, Sums(g, f, J), Sums(h, f, K),
         NEW I, IsFiniteSet(I), I \subseteq J, I \subseteq K
  PROVE  g[I] = h[I]
<1> DEFINE Bad == {s \in SUBSET I : g[s] # h[s]}
<1>0. Bad \in SUBSET SUBSET I
  OBVIOUS
<1>1. CASE Bad # {}
  <2>1. PICK s \in Bad : \A t \in Bad : t \subseteq s => t = s
    <3> HIDE DEF Bad
    <3> QED BY <1>0, <1>1, SmallestCounterexample
  <2>2. s \in SUBSET I /\ g[s] # h[s]
    BY <2>1
  <2>3. /\ g[s] = IF s = {} THEN 0 ELSE f[Pick(s)] + g[s \ {Pick(s)}]
        /\ h[s] = IF s = {} THEN 0 ELSE f[Pick(s)] + h[s \ {Pick(s)}]
    BY <2>2 DEF Sums
  <2>4. s # {} /\ Pick(s) \in s
    BY <2>2, <2>3, Picked
  <2>5. s \ {Pick(s)} \in SUBSET I /\ s \ {Pick(s)} \subseteq s /\ s \ {Pick(s)} # s
    BY <2>2, <2>4
  <2>6. g[s \ {Pick(s)}] = h[s \ {Pick(s)}]
    BY <2>1, <2>5
  <2> QED BY <2>2, <2>3, <2>4, <2>6
<1>2. CASE Bad = {}
  BY <1>2
<1> QED BY <1>1, <1>2

(* Where the sum over I is computed, so is the sum over each part of I. *)
LEMMA SumsGiveTotals ==
  ASSUME NEW f, NEW I, NEW g, Sums(g, f, I), NEW s \in SUBSET I, IsFiniteSet(s),
         \E h : Sums(h, f, s)
  PROVE  g[s] = Total(f, s)
<1> DEFINE h == CHOOSE h : Sums(h, f, s)
<1>1. Sums(h, f, s)
  OBVIOUS
<1>2. Total(f, s) = h[s]
  BY TotalUnfold
<1> HIDE DEF h
<1>3. g[s] = h[s]
  BY <1>1, SumsAgree
<1> QED BY <1>2, <1>3

(* Every finite set has a sum. *)
LEMMA SumsExist ==
  ASSUME NEW f, NEW I, IsFiniteSet(I)
  PROVE  \E g : Sums(g, f, I)
<1> DEFINE Bad == {s \in SUBSET I : ~ \E g : Sums(g, f, s)}
<1>0. Bad \in SUBSET SUBSET I
  OBVIOUS
<1>1. ASSUME Bad # {} PROVE FALSE
  <2>1. PICK J \in Bad : \A t \in Bad : t \subseteq J => t = J
    <3> HIDE DEF Bad
    <3> QED BY <1>0, <1>1, SmallestCounterexample
  <2>2. J \in SUBSET I /\ ~ \E g : Sums(g, f, J)
    BY <2>1
  <2>3. ASSUME NEW t \in SUBSET J, t # J PROVE IsFiniteSet(t) /\ \E g : Sums(g, f, t)
    BY <2>1, <2>2, <2>3, FS_Subset
  <2> DEFINE H(s) == IF s = J /\ J # {} THEN f[Pick(J)] + Total(f, J \ {Pick(J)})
                     ELSE IF s = {} THEN 0 ELSE Total(f, s)
             k == [s \in SUBSET J |-> H(s)]
  <2> HIDE <1>1
  <2>4. ASSUME NEW s \in SUBSET J
        PROVE  H(s) = IF s = {} THEN 0 ELSE f[Pick(s)] + k[s \ {Pick(s)}]
    <3>1. CASE s = {}
      BY <3>1
    <3>2. CASE s # {}
      <4> DEFINE r == s \ {Pick(s)}
      <4>1. Pick(s) \in s /\ r \in SUBSET J /\ r # J /\ r \subseteq s
        BY <3>2, Picked
      <4>2. IsFiniteSet(r) /\ \E g : Sums(g, f, r)
        BY <2>3, <4>1
      <4>3. Total(f, r) = IF r = {} THEN 0 ELSE Total(f, r)
        <5>1. CASE r = {}
          <6>1. PICK g : Sums(g, f, r)
            BY <4>2
          <6>2. g[r] = 0
            BY <5>1, <6>1 DEF Sums
          <6>3. g[r] = Total(f, r)
            BY <4>2, <6>1, SumsGiveTotals
          <6> QED BY <5>1, <6>2, <6>3
        <5>2. CASE r # {}
          BY <5>2
        <5> QED BY <5>1, <5>2
      <4>4. k[r] = Total(f, r)
        BY <4>1, <4>3
      <4>5. CASE s = J
        BY <3>2, <4>4, <4>5
      <4>6. CASE s # J
        <5>1. PICK g : Sums(g, f, s)
          BY <2>3, <4>6
        <5>2. g[s] = f[Pick(s)] + g[r]
          BY <3>2, <5>1 DEF Sums
        <5>3. g[s] = Total(f, s)
          BY <2>3, <4>6, <5>1, SumsGiveTotals
        <5>4. g[r] = Total(f, r)
          BY <4>1, <4>2, <5>1, SumsGiveTotals
        <5> QED BY <3>2, <4>4, <4>6, <5>2, <5>3, <5>4
      <4> QED BY <4>5, <4>6
    <3> QED BY <3>1, <3>2
  <2>5. Sums(k, f, J)
    <3>1. k = [s \in SUBSET J |-> IF s = {} THEN 0 ELSE f[Pick(s)] + k[s \ {Pick(s)}]]
      BY <2>4
    <3> HIDE DEF k
    <3> QED BY <3>1 DEF Sums
  <2> QED BY <2>2, <2>5
<1>2. I \notin Bad
  BY <1>1
<1> QED BY <1>2

-----------------------------------------------------------------------------
(* The sum over nothing is zero. *)
LEMMA SumOfNothing ==
  ASSUME NEW f
  PROVE  SumFunctionOnSet(f, {}) = 0
<1>1. IsFiniteSet({})
  BY FS_EmptySet
<1>2. PICK g : Sums(g, f, {})
  BY <1>1, SumsExist
<1>3. g[{}] = 0
  BY <1>2 DEF Sums
<1>4. g[{}] = Total(f, {})
  BY <1>1, <1>2, SumsGiveTotals
<1> QED BY <1>3, <1>4 DEF Total

(* Any other sum is one of the numbers and the sum of the others. *)
LEMMA SumPick ==
  ASSUME NEW f, NEW I, IsFiniteSet(I), I # {}
  PROVE  \E x \in I : SumFunctionOnSet(f, I) = f[x] + SumFunctionOnSet(f, I \ {x})
<1>1. PICK g : Sums(g, f, I)
  BY SumsExist
<1> DEFINE x == Pick(I)
<1>2. x \in I /\ IsFiniteSet(I \ {x})
  BY Picked, FS_Subset
<1>3. g[I] = f[x] + g[I \ {x}]
  BY <1>1 DEF Sums
<1>4. g[I] = Total(f, I)
  BY <1>1, SumsGiveTotals
<1>5. \E h : Sums(h, f, I \ {x})
  BY <1>2, SumsExist
<1> HIDE DEF x
<1>6. g[I \ {x}] = Total(f, I \ {x})
  BY <1>1, <1>2, <1>5, SumsGiveTotals
<1> QED BY <1>2, <1>3, <1>4, <1>6 DEF Total

(* The sum of integers is an integer. *)
LEMMA SumInt ==
  ASSUME NEW I, IsFiniteSet(I), NEW f, \A x \in I : f[x] \in Int
  PROVE  SumFunctionOnSet(f, I) \in Int
<1> DEFINE Bad == {s \in SUBSET I : SumFunctionOnSet(f, s) \notin Int}
<1>0. Bad \in SUBSET SUBSET I
  OBVIOUS
<1>1. ASSUME Bad # {} PROVE FALSE
  <2>1. PICK s \in Bad : \A t \in Bad : t \subseteq s => t = s
    <3> HIDE DEF Bad
    <3> QED BY <1>0, <1>1, SmallestCounterexample
  <2>2. s \in SUBSET I /\ SumFunctionOnSet(f, s) \notin Int /\ IsFiniteSet(s)
    BY <2>1, FS_Subset
  <2>3. s # {}
    BY <2>2, SumOfNothing
  <2>4. PICK x \in s : SumFunctionOnSet(f, s) = f[x] + SumFunctionOnSet(f, s \ {x})
    BY <2>2, <2>3, SumPick
  <2>5. s \ {x} \notin Bad
    BY <2>1, <2>4
  <2>6. SumFunctionOnSet(f, s \ {x}) \in Int
    BY <2>2, <2>5
  <2> QED BY <2>2, <2>4, <2>6
<1> QED BY <1>1

(* Any of the numbers can be taken out of the sum. *)
LEMMA SumTakeOut ==
  ASSUME NEW I, IsFiniteSet(I), NEW f, \A x \in I : f[x] \in Int, NEW y \in I
  PROVE  SumFunctionOnSet(f, I) = f[y] + SumFunctionOnSet(f, I \ {y})
<1> DEFINE Out(s, x) == SumFunctionOnSet(f, s) = f[x] + SumFunctionOnSet(f, s \ {x})
           Bad == {s \in SUBSET I : \E x \in s : ~Out(s, x)}
<1>0. Bad \in SUBSET SUBSET I
  OBVIOUS
<1>1. ASSUME Bad # {} PROVE FALSE
  <2>1. PICK s \in Bad : \A t \in Bad : t \subseteq s => t = s
    <3> HIDE DEF Bad
    <3> QED BY <1>0, <1>1, SmallestCounterexample
  <2>2. PICK x \in s : ~Out(s, x)
    BY <2>1
  <2>3. s \in SUBSET I /\ IsFiniteSet(s) /\ s # {}
    BY <2>1, <2>2, FS_Subset
  <2>4. PICK p \in s : Out(s, p)
    BY <2>3, SumPick
  <2>5. p # x
    BY <2>2, <2>4
  <2>6. Out(s \ {p}, x)
    <3>1. s \ {p} \notin Bad
      BY <2>1, <2>4
    <3> QED BY <2>2, <2>3, <2>5, <3>1
  <2>7. Out(s \ {x}, p)
    BY <2>1, <2>2, <2>3, <2>4, <2>5
  <2>8. (s \ {p}) \ {x} = (s \ {x}) \ {p}
    OBVIOUS
  <2> DEFINE rest == SumFunctionOnSet(f, (s \ {x}) \ {p})
  <2>9. rest \in Int
    <3>1. IsFiniteSet((s \ {x}) \ {p})
      BY <2>3, FS_Subset
    <3> QED BY <2>3, <3>1, SumInt
  <2>10. /\ SumFunctionOnSet(f, s) = f[p] + SumFunctionOnSet(f, s \ {p})
         /\ SumFunctionOnSet(f, s \ {p}) = f[x] + rest
         /\ SumFunctionOnSet(f, s \ {x}) = f[p] + rest
    BY <2>4, <2>6, <2>7, <2>8
  <2>11. f[p] \in Int /\ f[x] \in Int
    BY <2>2, <2>3, <2>4
  <2> HIDE DEF rest
  <2>12. SumFunctionOnSet(f, s) = f[x] + SumFunctionOnSet(f, s \ {x})
    BY <2>9, <2>10, <2>11
  <2> QED BY <2>2, <2>12
<1>2. I \notin Bad
  BY <1>1
<1> QED BY <1>2

(* Only the numbers count, not the function they come from. *)
LEMMA SumSame ==
  ASSUME NEW I, IsFiniteSet(I), NEW f, NEW g, \A x \in I : f[x] = g[x] /\ f[x] \in Int
  PROVE  SumFunctionOnSet(f, I) = SumFunctionOnSet(g, I)
<1> DEFINE Bad == {s \in SUBSET I : SumFunctionOnSet(f, s) # SumFunctionOnSet(g, s)}
<1>0. Bad \in SUBSET SUBSET I
  OBVIOUS
<1>1. ASSUME Bad # {} PROVE FALSE
  <2>1. PICK s \in Bad : \A t \in Bad : t \subseteq s => t = s
    <3> HIDE DEF Bad
    <3> QED BY <1>0, <1>1, SmallestCounterexample
  <2>2. s \in SUBSET I /\ IsFiniteSet(s) /\ SumFunctionOnSet(f, s) # SumFunctionOnSet(g, s)
    BY <2>1, FS_Subset
  <2>3. s # {}
    BY <2>2, SumOfNothing
  <2>4. PICK x \in s : SumFunctionOnSet(f, s) = f[x] + SumFunctionOnSet(f, s \ {x})
    BY <2>2, <2>3, SumPick
  <2>5. SumFunctionOnSet(g, s) = g[x] + SumFunctionOnSet(g, s \ {x})
    BY <2>2, <2>4, SumTakeOut
  <2>6. SumFunctionOnSet(f, s \ {x}) = SumFunctionOnSet(g, s \ {x})
    BY <2>1, <2>2, <2>4
  <2> QED BY <2>2, <2>4, <2>5, <2>6
<1> QED BY <1>1

(* A number is added where only one changes. *)
LEMMA SumUpdate ==
  ASSUME NEW I, IsFiniteSet(I), NEW f, NEW g, NEW y \in I,
         \A x \in I : f[x] \in Int /\ g[x] \in Int,
         \A x \in I \ {y} : g[x] = f[x]
  PROVE  SumFunctionOnSet(g, I) = SumFunctionOnSet(f, I) + g[y] - f[y]
<1>1. IsFiniteSet(I \ {y})
  BY FS_Subset
<1>2. SumFunctionOnSet(f, I) = f[y] + SumFunctionOnSet(f, I \ {y})
  BY SumTakeOut
<1>3. SumFunctionOnSet(g, I) = g[y] + SumFunctionOnSet(g, I \ {y})
  BY SumTakeOut
<1>4. SumFunctionOnSet(f, I \ {y}) = SumFunctionOnSet(g, I \ {y})
  BY <1>1, SumSame
<1>5. SumFunctionOnSet(f, I \ {y}) \in Int /\ f[y] \in Int /\ g[y] \in Int
  BY <1>1, SumInt
<1> QED BY <1>2, <1>3, <1>4, <1>5

(* Sums are compared and combined number by number: here a times the first   *)
(* with b times the second and c times the third.                            *)
LEMMA SumLinear ==
  ASSUME NEW I, IsFiniteSet(I), NEW f, NEW g, NEW h,
         \A x \in I : f[x] \in Int /\ g[x] \in Int /\ h[x] \in Int,
         NEW a \in Int, NEW b \in Int, NEW c \in Int,
         \A x \in I : a * f[x] =< b * g[x] + c * h[x]
  PROVE  a * SumFunctionOnSet(f, I) =< b * SumFunctionOnSet(g, I) + c * SumFunctionOnSet(h, I)
<1> DEFINE F(s) == SumFunctionOnSet(f, s)
           G(s) == SumFunctionOnSet(g, s)
           H(s) == SumFunctionOnSet(h, s)
           Bad == {s \in SUBSET I : ~(a * F(s) =< b * G(s) + c * H(s))}
<1>0. Bad \in SUBSET SUBSET I
  OBVIOUS
<1>1. ASSUME Bad # {} PROVE FALSE
  <2>1. PICK s \in Bad : \A t \in Bad : t \subseteq s => t = s
    <3> HIDE DEF Bad
    <3> QED BY <1>0, <1>1, SmallestCounterexample
  <2>2. s \in SUBSET I /\ IsFiniteSet(s) /\ ~(a * F(s) =< b * G(s) + c * H(s))
    BY <2>1, FS_Subset
  <2>3. s # {}
    <3>1. CASE s = {}
      <4>1. F(s) = 0 /\ G(s) = 0 /\ H(s) = 0
        BY <3>1, SumOfNothing
      <4> HIDE DEF F, G, H
      <4> QED BY <2>2, <4>1
    <3> QED BY <3>1
  <2>4. PICK x : x \in s
    BY <2>3
  <2>5. F(s) = f[x] + F(s \ {x}) /\ G(s) = g[x] + G(s \ {x}) /\ H(s) = h[x] + H(s \ {x})
    BY <2>2, <2>4, SumTakeOut
  <2>6. a * F(s \ {x}) =< b * G(s \ {x}) + c * H(s \ {x})
    BY <2>1, <2>2, <2>4
  <2>7. F(s \ {x}) \in Int /\ G(s \ {x}) \in Int /\ H(s \ {x}) \in Int
    <3>1. IsFiniteSet(s \ {x})
      BY <2>2, FS_Subset
    <3> QED BY <2>2, <3>1, SumInt
  <2>8. /\ f[x] \in Int /\ g[x] \in Int /\ h[x] \in Int
        /\ a * f[x] =< b * g[x] + c * h[x]
    BY <2>2, <2>4
  <2> HIDE DEF F, G, H
  <2>9. /\ a * F(s) = a * f[x] + a * F(s \ {x})
        /\ b * G(s) = b * g[x] + b * G(s \ {x})
        /\ c * H(s) = c * h[x] + c * H(s \ {x})
    BY <2>5, <2>7, <2>8
  <2> QED BY <2>2, <2>6, <2>7, <2>8, <2>9
<1>2. I \notin Bad
  BY <1>1
<1> QED BY <1>2

(* The sum of naturals is a natural. *)
LEMMA SumNat ==
  ASSUME NEW I, IsFiniteSet(I), NEW f, \A x \in I : f[x] \in Nat
  PROVE  SumFunctionOnSet(f, I) \in Nat
<1>1. SumFunctionOnSet(f, I) \in Int
  BY SumInt
<1>2. 0 * SumFunctionOnSet(f, I) =< 1 * SumFunctionOnSet(f, I) + 0 * SumFunctionOnSet(f, I)
  <2>1. \A x \in I : 0 * f[x] =< 1 * f[x] + 0 * f[x]
    OBVIOUS
  <2>2. \A x \in I : f[x] \in Int /\ f[x] \in Int /\ f[x] \in Int
    OBVIOUS
  <2>3. 0 \in Int /\ 1 \in Int
    OBVIOUS
  <2> QED BY <2>1, <2>2, <2>3, SumLinear
<1> QED BY <1>1, <1>2

(* A natural is at most the sum it is part of, and so are two together. *)
LEMMA SumMember ==
  ASSUME NEW I, IsFiniteSet(I), NEW f, \A x \in I : f[x] \in Nat, NEW y \in I
  PROVE  /\ f[y] =< SumFunctionOnSet(f, I)
         /\ \A z \in I \ {y} : f[y] + f[z] =< SumFunctionOnSet(f, I)
<1>1. IsFiniteSet(I \ {y})
  BY FS_Subset
<1>2. SumFunctionOnSet(f, I) = f[y] + SumFunctionOnSet(f, I \ {y})
  BY SumTakeOut
<1>3. SumFunctionOnSet(f, I \ {y}) \in Nat
  BY <1>1, SumNat
<1>4. ASSUME NEW z \in I \ {y} PROVE f[z] =< SumFunctionOnSet(f, I \ {y})
  <2>1. IsFiniteSet((I \ {y}) \ {z})
    BY <1>1, FS_Subset
  <2>2. SumFunctionOnSet(f, I \ {y}) = f[z] + SumFunctionOnSet(f, (I \ {y}) \ {z})
    BY <1>1, SumTakeOut
  <2>3. SumFunctionOnSet(f, (I \ {y}) \ {z}) \in Nat
    BY <2>1, SumNat
  <2> QED BY <2>2, <2>3
<1> DEFINE sum == SumFunctionOnSet(f, I)
           rest == SumFunctionOnSet(f, I \ {y})
<1>5. sum = f[y] + rest /\ rest \in Nat /\ f[y] \in Nat
  BY <1>2, <1>3
<1> HIDE DEF sum, rest
<1>6. f[y] =< sum
  BY <1>5
<1>7. ASSUME NEW z \in I \ {y} PROVE f[y] + f[z] =< sum
  <2>1. f[z] =< rest /\ f[z] \in Nat
    BY <1>4 DEF rest
  <2> QED BY <1>5, <2>1
<1> QED BY <1>6, <1>7 DEF sum

(* Nothing but zeros adds up to nothing. *)
LEMMA SumOfZeros ==
  ASSUME NEW I, IsFiniteSet(I), NEW f, \A x \in I : f[x] = 0
  PROVE  SumFunctionOnSet(f, I) = 0
<1>1. \A x \in I : /\ f[x] \in Int /\ f[x] \in Nat
                   /\ 1 * f[x] =< 0 * f[x] + 0 * f[x]
  OBVIOUS
<1>2. 1 * SumFunctionOnSet(f, I) =< 0 * SumFunctionOnSet(f, I) + 0 * SumFunctionOnSet(f, I)
  <2>1. 0 \in Int /\ 1 \in Int
    OBVIOUS
  <2> QED BY <1>1, <2>1, SumLinear
<1>3. SumFunctionOnSet(f, I) \in Nat
  BY <1>1, SumNat
<1> QED BY <1>2, <1>3

-----------------------------------------------------------------------------
(* What the share accounting does to the accounts, for every scale of the    *)
(* decimals: the types are kept, and the books change by what is moved.      *)

(* Arithmetic *)

(* A quotient is at most b when the dividend is at most b times the divisor. *)
LEMMA QuotientBound ==
  ASSUME NEW a \in Nat, NEW b \in Nat, NEW d \in Nat \ {0}, a =< b * d
  PROVE  a \div d \in 0 .. b
<1>1. a \div d \in Nat
  OBVIOUS
<1>2. (a \div d) * d =< a
  OBVIOUS
<1>3. ASSUME a \div d >= b + 1 PROVE FALSE
  <2>1. (a \div d) * d >= (b + 1) * d
    BY <1>1, <1>3
  <2>2. (b + 1) * d = b * d + d
    OBVIOUS
  <2> QED BY <2>1, <2>2, <1>2
<1> QED BY <1>1, <1>3

(* MulDiv returns at most b when a is at most the divisor: a part is no more *)
(* than the whole.                                                           *)
LEMMA MulDivBound ==
  ASSUME NEW a \in Nat, NEW b \in Nat, NEW d \in Nat \ {0}, a =< d
  PROVE  MulDiv(a, b, d) \in 0 .. b
<1>1. a * b \in Nat
  OBVIOUS
<1>2. a * b =< b * d
  OBVIOUS
<1> QED BY <1>1, <1>2, QuotientBound DEF MulDiv

(* A quotient of natural numbers is one. *)
LEMMA MulDivNat ==
  ASSUME NEW a \in Nat, NEW b \in Nat, NEW d \in Nat \ {0}
  PROVE  MulDiv(a, b, d) \in Nat
BY DEF MulDiv

(* The lesser of two natural numbers is one of them. *)
LEMMA LeastNat ==
  ASSUME NEW a \in Nat, NEW b \in Nat
  PROVE  Least(a, b) \in Nat /\ Least(a, b) =< a /\ Least(a, b) =< b
BY DEF Least

-----------------------------------------------------------------------------
(* Shares *)

(* convert_stake_to_amount never returns more than the pool holds. *)
LEMMA AmountForBound ==
  ASSUME NEW pool \in Pool, NEW shares \in Nat, RemoveSharesOk(pool, shares)
  PROVE  AmountFor(shares, pool) \in 0 .. pool.amount
BY MulDivBound DEF AmountFor, RemoveSharesOk, Pool

(* convert_stake_to_amount returns a natural number. *)
LEMMA AmountForNat ==
  ASSUME NEW pool \in Pool, NEW shares \in Nat
  PROVE  AmountFor(shares, pool) \in Nat
BY MulDivNat DEF AmountFor, Pool

(* convert_amount_to_stake returns a natural number. *)
LEMMA SharesForNat ==
  ASSUME NEW pool \in Pool, NEW amount \in Nat
  PROVE  SharesFor(amount, pool) \in Nat
<1>1. pool.stake \in Nat /\ pool.amount \in Nat
  BY DEF Pool
<1>2. amount * WAD \in Nat
  BY MathAssumption
<1>3. ASSUME pool.amount # 0 PROVE MulDiv(pool.stake, amount, pool.amount) \in Nat
  BY <1>1, <1>3, MulDivNat
<1> QED BY <1>1, <1>2, <1>3 DEF SharesFor

(* A pool that receives an amount grows by it. *)
LEMMA AddAmountPool ==
  ASSUME NEW pool \in Pool, NEW amount \in Nat
  PROVE  /\ AddAmount(pool, amount) \in Pool
         /\ AddAmount(pool, amount).amount = pool.amount + amount
BY SharesForNat DEF AddAmount, Pool

(* A pool that gives up shares shrinks by their amount. *)
LEMMA RemoveSharesPool ==
  ASSUME NEW pool \in Pool, NEW shares \in Nat, RemoveSharesOk(pool, shares)
  PROVE  /\ RemoveShares(pool, shares) \in Pool
         /\ RemoveShares(pool, shares).amount = pool.amount - AmountFor(shares, pool)
BY AmountForBound DEF RemoveShares, RemoveSharesOk, Pool

-----------------------------------------------------------------------------
(* A deposit, an activation and a withdrawal change the books by what they   *)
(* move.                                                                     *)
Books(s) == Liabilities(s.farm)

(* add_pending_deposit_stake adds its amount to the pending pool. *)
LEMMA AddPendingDepositStakeBooks ==
  ASSUME NEW s \in Accounts, NEW amount \in Nat
  PROVE  /\ AddPendingDepositStake(s, amount) \in Accounts
         /\ Books(AddPendingDepositStake(s, amount)) = Books(s) + amount
<1> DEFINE t == AddPendingDepositStake(s, amount)
<1>1. AddAmount(s.farm.pending, amount) \in Pool
  BY AddAmountPool DEF Accounts, FarmAccount
<1>2. t.farm \in FarmAccount
  BY <1>1 DEF Accounts, FarmAccount, AddPendingDepositStake
<1>3. t.user \in UserAccount
  BY SharesForNat DEF Accounts, FarmAccount, UserAccount, AddPendingDepositStake
<1>4. t \in Accounts
  BY <1>2, <1>3 DEF Accounts, AddPendingDepositStake
<1>5. Books(t) = Books(s) + amount
  BY AddAmountPool DEF Books, Liabilities, Accounts, FarmAccount, Pool, AddPendingDepositStake
<1> QED BY <1>4, <1>5

(* add_active_stake adds its amount to the active pool. *)
LEMMA AddActiveStakeBooks ==
  ASSUME NEW s \in Accounts, NEW amount \in Nat
  PROVE  /\ AddActiveStake(s, amount) \in Accounts
         /\ Books(AddActiveStake(s, amount)) = Books(s) + amount
<1> DEFINE t == AddActiveStake(s, amount)
<1>1. AddAmount(s.farm.active, amount) \in Pool
  BY AddAmountPool DEF Accounts, FarmAccount
<1>2. t.farm \in FarmAccount
  BY <1>1 DEF Accounts, FarmAccount, AddActiveStake
<1>3. t.user \in UserAccount
  BY SharesForNat DEF Accounts, FarmAccount, UserAccount, AddActiveStake
<1>4. t \in Accounts
  BY <1>2, <1>3 DEF Accounts, AddActiveStake
<1>5. Books(t) = Books(s) + amount
  BY AddAmountPool DEF Books, Liabilities, Accounts, FarmAccount, Pool, AddActiveStake
<1> QED BY <1>4, <1>5

(* remove_pending_deposit_stake takes the activated amount off the pending pool. *)
LEMMA RemovePendingDepositStakeBooks ==
  ASSUME NEW s \in Accounts, RemoveSharesOk(s.farm.pending, s.user.pending_deposit_stake)
  PROVE  /\ RemovePendingDepositStake(s) \in Accounts
         /\ ActivatedAmount(s) \in Nat
         /\ Books(RemovePendingDepositStake(s)) = Books(s) - ActivatedAmount(s)
<1> DEFINE t == RemovePendingDepositStake(s)
           pool == s.farm.pending
           shares == s.user.pending_deposit_stake
<1>1. pool \in Pool /\ shares \in Nat
  BY DEF Accounts, FarmAccount, UserAccount
<1>2. /\ RemoveShares(pool, shares) \in Pool
      /\ RemoveShares(pool, shares).amount = pool.amount - AmountFor(shares, pool)
  BY <1>1, RemoveSharesPool
<1>3. t.farm \in FarmAccount
  BY <1>2 DEF Accounts, FarmAccount, RemovePendingDepositStake
<1>4. t.user \in UserAccount
  BY DEF Accounts, UserAccount, RemovePendingDepositStake
<1>5. t \in Accounts
  BY <1>3, <1>4 DEF Accounts, RemovePendingDepositStake
<1>6. ActivatedAmount(s) \in Nat
  BY <1>1, AmountForNat DEF ActivatedAmount
<1>7. Books(t) = Books(s) - ActivatedAmount(s)
  BY <1>2, <1>6 DEF Books, Liabilities, Accounts, FarmAccount, Pool,
                      RemovePendingDepositStake, ActivatedAmount
<1> QED BY <1>5, <1>6, <1>7

(* activate_pending_stake moves an amount from one pool to the other. *)
LEMMA ActivatePendingStakeBooks ==
  ASSUME NEW s \in Accounts, ActivatePendingStakeOk(s)
  PROVE  /\ ActivatePendingStake(s) \in Accounts
         /\ Books(ActivatePendingStake(s)) = Books(s)
<1>1. /\ RemovePendingDepositStake(s) \in Accounts
      /\ ActivatedAmount(s) \in Nat
      /\ Books(RemovePendingDepositStake(s)) = Books(s) - ActivatedAmount(s)
  BY RemovePendingDepositStakeBooks DEF ActivatePendingStakeOk
<1>2. Books(s) \in Nat
  BY DEF Books, Liabilities, Accounts, FarmAccount, Pool
<1> QED BY <1>1, <1>2, AddActiveStakeBooks DEF ActivatePendingStake

(* remove_active_stake takes the amount of the shares off the active pool. *)
LEMMA RemoveActiveStakeBooks ==
  ASSUME NEW s \in Accounts, NEW shares \in Nat,
         RemoveSharesOk(s.farm.active, shares), shares =< s.user.active_stake
  PROVE  /\ RemoveActiveStake(s, shares) \in Accounts
         /\ Books(RemoveActiveStake(s, shares)) = Books(s) - AmountFor(shares, s.farm.active)
<1> DEFINE t == RemoveActiveStake(s, shares)
           pool == s.farm.active
<1>1. pool \in Pool
  BY DEF Accounts, FarmAccount
<1>2. /\ RemoveShares(pool, shares) \in Pool
      /\ RemoveShares(pool, shares).amount = pool.amount - AmountFor(shares, pool)
  BY <1>1, RemoveSharesPool
<1>3. t.farm \in FarmAccount
  BY <1>2 DEF Accounts, FarmAccount, RemoveActiveStake
<1>4. t.user \in UserAccount
  BY DEF Accounts, UserAccount, RemoveActiveStake
<1>5. t \in Accounts
  BY <1>3, <1>4 DEF Accounts, RemoveActiveStake
<1>6. AmountFor(shares, pool) \in Nat
  BY <1>1, AmountForNat
<1>7. Books(t) = Books(s) - AmountFor(shares, pool)
  BY <1>2, <1>6 DEF Books, Liabilities, Accounts, FarmAccount, Pool, RemoveActiveStake
<1> QED BY <1>5, <1>7

(* add_pending_withdrawal_stake adds its amount to the pending pool. *)
LEMMA AddPendingWithdrawalStakeBooks ==
  ASSUME NEW s \in Accounts, NEW amount \in Nat
  PROVE  /\ AddPendingWithdrawalStake(s, amount) \in Accounts
         /\ Books(AddPendingWithdrawalStake(s, amount)) = Books(s) + amount
<1> DEFINE t == AddPendingWithdrawalStake(s, amount)
<1>1. AddAmount(s.farm.pending, amount) \in Pool
  BY AddAmountPool DEF Accounts, FarmAccount
<1>2. t.farm \in FarmAccount
  BY <1>1 DEF Accounts, FarmAccount, AddPendingWithdrawalStake
<1>3. t.user \in UserAccount
  BY SharesForNat DEF Accounts, FarmAccount, UserAccount, AddPendingWithdrawalStake
<1>4. t \in Accounts
  BY <1>2, <1>3 DEF Accounts, AddPendingWithdrawalStake
<1>5. Books(t) = Books(s) + amount
  BY AddAmountPool DEF Books, Liabilities, Accounts, FarmAccount, Pool, AddPendingWithdrawalStake
<1> QED BY <1>4, <1>5

(* remove_pending_withdrawal_stake takes what it pays off the pending pool. *)
LEMMA RemovePendingWithdrawalStakeBooks ==
  ASSUME NEW s \in Accounts, RemoveSharesOk(s.farm.pending, s.user.pending_withdrawal_unstake)
  PROVE  LET amount == AmountFor(s.user.pending_withdrawal_unstake, s.farm.pending)
         IN  /\ RemovePendingWithdrawalStake(s) \in Accounts
             /\ amount \in Nat
             /\ Books(RemovePendingWithdrawalStake(s)) = Books(s) - amount
<1> DEFINE t == RemovePendingWithdrawalStake(s)
           pool == s.farm.pending
           shares == s.user.pending_withdrawal_unstake
<1>1. pool \in Pool /\ shares \in Nat
  BY DEF Accounts, FarmAccount, UserAccount
<1>2. /\ RemoveShares(pool, shares) \in Pool
      /\ RemoveShares(pool, shares).amount = pool.amount - AmountFor(shares, pool)
  BY <1>1, RemoveSharesPool
<1>3. t.farm \in FarmAccount
  BY <1>2 DEF Accounts, FarmAccount, RemovePendingWithdrawalStake
<1>4. t.user \in UserAccount
  BY DEF Accounts, UserAccount, RemovePendingWithdrawalStake
<1>5. t \in Accounts
  BY <1>3, <1>4 DEF Accounts, RemovePendingWithdrawalStake
<1>6. AmountFor(shares, pool) \in Nat
  BY <1>1, AmountForNat
<1>7. Books(t) = Books(s) - AmountFor(shares, pool)
  BY <1>2, <1>6 DEF Books, Liabilities, Accounts, FarmAccount, Pool, RemovePendingWithdrawalStake
<1> QED BY <1>5, <1>6, <1>7

-----------------------------------------------------------------------------
(* Penalties *)

(* The penalty rate of a lock is at most the configured rate. *)
LEMMA PenaltyBpsBound ==
  ASSUME NEW begin \in Nat, NEW duration \in Nat, NEW ts \in Nat, NEW bps \in Nat
  PROVE  WithdrawalPenaltyBps(begin, duration, ts, bps) \in 0 .. bps
<1>1. CASE Locked(begin, duration, ts)
  <2>1. duration \in Nat \ {0} /\ begin + duration - ts \in 0 .. duration
    BY <1>1 DEF Locked
  <2>2. bps * (begin + duration - ts) =< bps * duration
    BY <2>1
  <2>3. bps * (begin + duration - ts) \in Nat
    BY <2>1
  <2> QED BY <1>1, <2>1, <2>2, <2>3, QuotientBound DEF WithdrawalPenaltyBps
<1>2. CASE ~Locked(begin, duration, ts)
  BY <1>2 DEF WithdrawalPenaltyBps
<1> QED BY <1>1, <1>2

(* An early withdrawal never costs more than the amount withdrawn. *)
LEMMA PenaltyBound ==
  ASSUME NEW begin \in Nat, NEW duration \in Nat, NEW ts \in Nat, NEW bps \in Nat,
         NEW amount \in Nat, PenaltyOk(begin, duration, ts, bps)
  PROVE  EarlyWithdrawalPenalty(begin, duration, ts, bps, amount) \in 0 .. amount
<1> DEFINE rate == WithdrawalPenaltyBps(begin, duration, ts, bps)
<1>1. rate \in 0 .. BPS_DIV_FACTOR
  <2>1. CASE Locked(begin, duration, ts)
    <3>1. bps \in 1 .. BPS_DIV_FACTOR - 1
      BY <2>1 DEF PenaltyOk
    <3>2. rate \in 0 .. bps
      BY PenaltyBpsBound
    <3> HIDE DEF rate
    <3> QED BY <3>1, <3>2 DEF BPS_DIV_FACTOR
  <2>2. CASE ~Locked(begin, duration, ts)
    BY <2>2 DEF WithdrawalPenaltyBps, BPS_DIV_FACTOR
  <2> QED BY <2>1, <2>2
<1> HIDE DEF rate
<1>2. amount * rate \in Nat /\ amount * rate =< amount * BPS_DIV_FACTOR
  BY <1>1 DEF BPS_DIV_FACTOR
<1>3. (amount * rate) \div BPS_DIV_FACTOR \in 0 .. amount
  BY <1>2, QuotientBound DEF BPS_DIV_FACTOR
<1> QED BY <1>3 DEF rate, EarlyWithdrawalPenalty, MulDiv

(* The penalty of an unstake is at most the amount unstaked. *)
LEMMA UnstakePenaltyBound ==
  ASSUME NEW s \in Accounts, NEW shares \in Nat, NEW ts \in Nat,
         MoveToPendingWithdrawalOk(s, shares, ts)
  PROVE  /\ AmountFor(shares, s.farm.active) \in Nat
         /\ UnstakePenalty(s, shares, ts) \in 0 .. AmountFor(shares, s.farm.active)
<1> DEFINE c == s.farm.config
<1>1. AmountFor(shares, s.farm.active) \in Nat
  BY AmountForNat DEF Accounts, FarmAccount
<1>2. CASE c.locking_mode = "None"
  BY <1>1, <1>2 DEF UnstakePenalty
<1>3. CASE c.locking_mode # "None"
  <2>1. /\ c.locking_duration \in Nat
        /\ c.locking_early_withdrawal_penalty_bps \in Nat
        /\ c.locking_start_timestamp \in Nat
    BY DEF Accounts, FarmAccount, FarmConfig
  <2>2. LockBegin(s) \in Nat
    BY <2>1 DEF LockBegin, Accounts, UserAccount
  <2>3. PenaltyOk(LockBegin(s), c.locking_duration, ts, c.locking_early_withdrawal_penalty_bps)
    BY <1>3 DEF MoveToPendingWithdrawalOk
  <2>4. EarlyWithdrawalPenalty(LockBegin(s), c.locking_duration, ts,
                               c.locking_early_withdrawal_penalty_bps,
                               AmountFor(shares, s.farm.active))
          \in 0 .. AmountFor(shares, s.farm.active)
    BY <1>1, <2>1, <2>2, <2>3, PenaltyBound
  <2> QED BY <1>1, <1>3, <2>4 DEF UnstakePenalty
<1> QED BY <1>2, <1>3

(* What leaves the active pool arrives in the pending pool, less the penalty. *)
LEMMA MoveToPendingWithdrawalBooks ==
  ASSUME NEW s \in Accounts, NEW shares \in Nat, NEW ts \in Nat,
         MoveToPendingWithdrawalOk(s, shares, ts)
  PROVE  /\ MoveToPendingWithdrawal(s, shares, ts) \in Accounts
         /\ Books(MoveToPendingWithdrawal(s, shares, ts))
              = Books(s) - UnstakePenalty(s, shares, ts)
<1>1. /\ RemoveActiveStake(s, shares) \in Accounts
      /\ Books(RemoveActiveStake(s, shares)) = Books(s) - AmountFor(shares, s.farm.active)
  BY RemoveActiveStakeBooks DEF MoveToPendingWithdrawalOk
<1>2. /\ AmountFor(shares, s.farm.active) \in Nat
      /\ UnstakePenalty(s, shares, ts) \in 0 .. AmountFor(shares, s.farm.active)
  BY UnstakePenaltyBound
<1>3. UnstakedAmount(s, shares, ts) \in Nat
  BY <1>2 DEF UnstakedAmount
<1>4. /\ MoveToPendingWithdrawal(s, shares, ts) \in Accounts
      /\ Books(MoveToPendingWithdrawal(s, shares, ts))
           = Books(RemoveActiveStake(s, shares)) + UnstakedAmount(s, shares, ts)
  BY <1>1, <1>3, AddPendingWithdrawalStakeBooks DEF MoveToPendingWithdrawal
<1>5. Books(s) \in Nat
  BY DEF Books, Liabilities, Accounts, FarmAccount, Pool
<1> QED BY <1>1, <1>2, <1>4, <1>5 DEF UnstakedAmount

-----------------------------------------------------------------------------
(* The operations of the authorities *)

(* The fraction taken of a pool is at most the pool. *)
LEMMA FractionOfBound ==
  ASSUME NEW f \in FarmAccount, NEW amount \in Nat, NEW part \in Nat
  PROVE  FractionOf(f, amount, part) \in 0 .. part
<1>1. f.active.amount \in Nat /\ f.pending.amount \in Nat
  BY DEF FarmAccount, Pool
<1>2. CASE WithdrawsAll(f, amount)
  BY <1>2 DEF FractionOf
<1>3. CASE ~WithdrawsAll(f, amount)
  <2>1. /\ f.active.amount + f.pending.amount \in Nat \ {0}
        /\ amount =< f.active.amount + f.pending.amount
    BY <1>1, <1>3 DEF WithdrawsAll
  <2>2. part * amount \in Nat /\ part * amount =< part * (f.active.amount + f.pending.amount)
    BY <2>1
  <2>3. MulDiv(part, amount, f.active.amount + f.pending.amount) \in 0 .. part
    BY <2>1, <2>2, QuotientBound DEF MulDiv
  <2> QED BY <1>3, <2>3 DEF FractionOf
<1> QED BY <1>2, <1>3

(* withdraw_farm takes off the books what it pays out. *)
LEMMA WithdrawFarmBooks ==
  ASSUME NEW f \in FarmAccount, NEW amount \in Nat
  PROVE  /\ WithdrawFarm(f, amount) \in FarmAccount
         /\ WithdrawnAmount(f, amount) \in 0 .. f.active.amount + f.pending.amount
         /\ Liabilities(WithdrawFarm(f, amount)) = Liabilities(f) - WithdrawnAmount(f, amount)
<1>1. /\ f.active \in Pool /\ f.pending \in Pool /\ f.slashed \in Nat /\ f.frozen \in BOOLEAN
      /\ f.active.amount \in Nat /\ f.pending.amount \in Nat
  BY DEF FarmAccount, Pool
<1>2. /\ FractionOf(f, amount, f.active.amount) \in 0 .. f.active.amount
      /\ FractionOf(f, amount, f.pending.amount) \in 0 .. f.pending.amount
  BY <1>1, FractionOfBound
<1> DEFINE g == WithdrawFarm(f, amount)
<1>3. /\ [f.active EXCEPT !.amount = @ - FractionOf(f, amount, @)] \in Pool
      /\ [f.pending EXCEPT !.amount = @ - FractionOf(f, amount, @)] \in Pool
  BY <1>1, <1>2 DEF Pool
<1>4. (f.frozen \/ WithdrawsAll(f, amount)) \in BOOLEAN
  BY <1>1 DEF WithdrawsAll
<1>5. g \in FarmAccount
  BY <1>3, <1>4 DEF WithdrawFarm, FarmAccount
<1>6. Liabilities(g) = Liabilities(f) - WithdrawnAmount(f, amount)
  BY <1>1, <1>2 DEF Liabilities, WithdrawFarm, WithdrawnAmount, FarmAccount, Pool
<1> QED BY <1>1, <1>2, <1>5, <1>6 DEF WithdrawnAmount

-----------------------------------------------------------------------------
(* What the operations of a farm do to its accounts, for every number of     *)
(* reward tokens and every scale of the decimals: the types are kept, the    *)
(* books change by the tokens that move, and what is promised of a reward    *)
(* changes by the reward tokens that move.                                   *)

(* What the farm still has to give of reward i: not issued, or not claimed. *)
Promised(f, i) == f.rewards[i].rewards_available + f.rewards[i].rewards_issued_unclaimed

(* The operation from f to g promises no more and no less of any reward, and *)
(* one that is not initialised keeps its funds.                              *)
KeepsPromises(f, g) ==
  /\ g.num_reward_tokens = f.num_reward_tokens
  /\ \A i \in RewardIndex : Promised(g, i) = Promised(f, i)
  /\ \A i \in RewardIndex \ InitialisedRewards(f) :
       g.rewards[i].rewards_available = f.rewards[i].rewards_available

(* It promises gain more of reward i and loss less, and nothing else of any. *)
ChangesPromise(f, g, i, gain, loss) ==
  /\ g.num_reward_tokens = f.num_reward_tokens
  /\ Promised(g, i) + loss = Promised(f, i) + gain
  /\ \A j \in RewardIndex \ {i} : Promised(g, j) = Promised(f, j)
  /\ \A j \in RewardIndex \ InitialisedRewards(f) :
       g.rewards[j].rewards_available = f.rewards[j].rewards_available

(* It is about rewards only. *)
OnlyIssues(f, g) ==
  /\ g.config = f.config /\ g.active = f.active /\ g.pending = f.pending
  /\ g.slashed = f.slashed /\ g.frozen = f.frozen
  /\ g.slashed_amount_cumulative = f.slashed_amount_cumulative
  /\ KeepsPromises(f, g)

-----------------------------------------------------------------------------
(* Constants and readings *)

(* The scale of the stake is positive: dividing by it is defined. *)
LEMMA StakeScalePositive == StakeScale \in Nat \ {0}
BY MathAssumption DEF StakeScale

(* So is a power of ten. *)
LEMMA TenPowPositive ==
  ASSUME NEW x
  PROVE  TenPow(x) \in Nat \ {0}
BY MathAssumption DEF TenPow, TenPowOk

(* What fits a machine integer is a natural number. *)
LEMMA MachineIntegersAreNat ==
  /\ \A n : IsU64(n) => n \in Nat
  /\ \A n : IsU128(n) => n \in Nat
BY MathAssumption DEF IsU64, IsU128

(* The fields of a farm account have their types. *)
LEMMA FarmFields ==
  ASSUME NEW f \in FarmAccount
  PROVE  /\ f.config \in FarmConfig
         /\ f.active \in Pool /\ f.active.stake \in Nat /\ f.active.amount \in Nat
         /\ f.pending \in Pool /\ f.pending.stake \in Nat /\ f.pending.amount \in Nat
         /\ f.slashed \in Nat /\ f.slashed_amount_cumulative \in Nat
         /\ f.rewards \in [RewardIndex -> RewardInfo]
         /\ InitialisedRewards(f) \subseteq RewardIndex
BY DEF FarmAccount, Pool, InitialisedRewards

(* The fields of a reward have their types. *)
LEMMA RewardFields ==
  ASSUME NEW f \in FarmAccount, NEW i \in RewardIndex
  PROVE  /\ f.rewards[i] \in RewardInfo
         /\ f.rewards[i].rewards_available \in Nat
         /\ f.rewards[i].rewards_issued_unclaimed \in Nat
         /\ f.rewards[i].rewards_issued_cumulative \in Nat
         /\ f.rewards[i].reward_per_share_scaled \in Nat
         /\ Promised(f, i) \in Nat
BY DEF FarmAccount, RewardInfo, Promised

(* The value of some shares in a reward is a natural number. *)
LEMMA RewardValueNat ==
  ASSUME NEW f \in FarmAccount, NEW i \in RewardIndex, NEW shares \in Nat
  PROVE  RewardValue(f, shares, i) \in Nat
BY RewardFields, StakeScalePositive, MulDivNat DEF RewardValue

(* The books and the promises of a farm are natural numbers. *)
LEMMA BooksNat ==
  ASSUME NEW s \in Accounts
  PROVE  Books(s) \in Nat
BY FarmFields DEF Books, Liabilities, Accounts

-----------------------------------------------------------------------------
(* Issuance *)

(* What a refresh issues was available. *)
LEMMA IssuedAmountBound ==
  ASSUME NEW f \in FarmAccount, NEW r \in RewardInfo, NEW e \in Environment,
         RefreshGlobalRewardOk(f, r, e), e.ts # r.last_issuance_ts, f.active.stake # 0
  PROVE  IssuedAmount(f, r, e) \in 0 .. r.rewards_available
<1>1. IssuableAmount(f, r, e) \in Nat
  BY MachineIntegersAreNat DEF RefreshGlobalRewardOk
<1>2. r.rewards_available \in Nat
  BY DEF RewardInfo
<1>3. Least(IssuableAmount(f, r, e), r.rewards_available) \in 0 .. r.rewards_available
  BY <1>1, <1>2 DEF Least
<1> QED BY <1>3 DEF IssuedAmount

(* refresh_global_reward only moves funds from available to unclaimed. *)
LEMMA RefreshGlobalRewardIssues ==
  ASSUME NEW f \in FarmAccount, NEW r \in RewardInfo, NEW e \in Environment,
         RefreshGlobalRewardOk(f, r, e)
  PROVE  LET q == RefreshGlobalReward(f, r, e)
         IN  /\ q \in RewardInfo
             /\ q.rewards_available + q.rewards_issued_unclaimed
                  = r.rewards_available + r.rewards_issued_unclaimed
<1> DEFINE q == RefreshGlobalReward(f, r, e)
<1>1. e.ts \in Nat
  BY DEF Environment
<1>2. CASE e.ts = r.last_issuance_ts \/ f.active.stake = 0
  BY <1>1, <1>2 DEF RefreshGlobalReward, RewardInfo
<1>3. CASE ~(e.ts = r.last_issuance_ts \/ f.active.stake = 0) /\ IssuableAmount(f, r, e) = 0
  BY <1>3 DEF RefreshGlobalReward
<1>4. CASE ~(e.ts = r.last_issuance_ts \/ f.active.stake = 0) /\ IssuableAmount(f, r, e) # 0
  <2> DEFINE issued == IssuedAmount(f, r, e)
  <2>1. issued \in 0 .. r.rewards_available
    BY <1>4, IssuedAmountBound
  <2>2. /\ r.rewards_issued_unclaimed + issued \in Nat
        /\ r.rewards_issued_cumulative + issued \in Nat
        /\ r.reward_per_share_scaled + PerShare(f, issued) \in Nat
    BY <1>4, MachineIntegersAreNat DEF RefreshGlobalRewardOk
  <2>3. q = [ r EXCEPT !.last_issuance_ts = e.ts,
                       !.rewards_issued_unclaimed = @ + issued,
                       !.rewards_issued_cumulative = @ + issued,
                       !.rewards_available = @ - issued,
                       !.reward_per_share_scaled = @ + PerShare(f, issued) ]
    BY <1>4 DEF RefreshGlobalReward
  <2> DEFINE unclaimed == r.rewards_issued_unclaimed + issued
             cumulative == r.rewards_issued_cumulative + issued
             available == r.rewards_available - issued
             perShare == r.reward_per_share_scaled + PerShare(f, issued)
  <2>4. q \in RewardInfo
    <3>1. available \in Nat
      BY <2>1 DEF RewardInfo
    <3>2. q = [ r EXCEPT !.last_issuance_ts = e.ts, !.rewards_issued_unclaimed = unclaimed,
                         !.rewards_issued_cumulative = cumulative,
                         !.rewards_available = available, !.reward_per_share_scaled = perShare ]
      BY <2>3 DEF RewardInfo
    <3>3. unclaimed \in Nat /\ cumulative \in Nat /\ perShare \in Nat
      BY <2>2
    <3> HIDE DEF unclaimed, cumulative, available, perShare, q
    <3> QED BY <1>1, <3>1, <3>2, <3>3 DEF RewardInfo
  <2> HIDE DEF issued, q
  <2>5. q.rewards_available + q.rewards_issued_unclaimed
          = r.rewards_available + r.rewards_issued_unclaimed
    BY <2>1, <2>3 DEF RewardInfo
  <2> QED BY <2>4, <2>5 DEF q
<1> QED BY <1>2, <1>3, <1>4

(* So does refresh_global_rewards, and the stake stays as it is. *)
LEMMA RefreshGlobalRewardsIssues ==
  ASSUME NEW f \in FarmAccount, NEW e \in Environment, RefreshGlobalRewardsOk(f, e)
  PROVE  /\ RefreshGlobalRewards(f, e) \in FarmAccount
         /\ OnlyIssues(f, RefreshGlobalRewards(f, e))
<1> DEFINE g == RefreshGlobalRewards(f, e)
           rewards == [ i \in RewardIndex |-> IF i \in InitialisedRewards(f)
                          THEN RefreshGlobalReward(f, f.rewards[i], e) ELSE f.rewards[i] ]
<1>1. g = [f EXCEPT !.rewards = rewards]
  BY DEF RefreshGlobalRewards
<1>2. \A i \in RewardIndex : f.rewards[i] \in RewardInfo
  BY RewardFields
<1>3. \A i \in RewardIndex :
        /\ rewards[i] \in RewardInfo
        /\ rewards[i].rewards_available + rewards[i].rewards_issued_unclaimed
             = f.rewards[i].rewards_available + f.rewards[i].rewards_issued_unclaimed
        /\ i \notin InitialisedRewards(f) => rewards[i] = f.rewards[i]
  <2> TAKE i \in RewardIndex
  <2>1. CASE i \in InitialisedRewards(f)
    <3>1. RefreshGlobalRewardOk(f, f.rewards[i], e)
      BY <2>1 DEF RefreshGlobalRewardsOk
    <3>2. rewards[i] = RefreshGlobalReward(f, f.rewards[i], e)
      BY <2>1
    <3> HIDE DEF rewards
    <3> QED BY <1>2, <2>1, <3>1, <3>2, RefreshGlobalRewardIssues
  <2>2. CASE i \notin InitialisedRewards(f)
    BY <1>2, <2>2
  <2> QED BY <2>1, <2>2
<1>4. rewards \in [RewardIndex -> RewardInfo]
  BY <1>3
<1> HIDE DEF g, rewards
<1>5. g \in FarmAccount
  BY <1>1, <1>4 DEF FarmAccount
<1>6. OnlyIssues(f, g)
  BY <1>1, <1>3 DEF OnlyIssues, KeepsPromises, Promised, FarmAccount
<1> QED BY <1>5, <1>6 DEF g

(* Promises kept one after the other are kept. *)
LEMMA KeepsPromisesTransitive ==
  ASSUME NEW f, NEW g, NEW h, KeepsPromises(f, g), KeepsPromises(g, h)
  PROVE  KeepsPromises(f, h)
BY DEF KeepsPromises, InitialisedRewards

(* Rewards left alone keep their promises. *)
LEMMA SameRewardsKeepPromises ==
  ASSUME NEW f, NEW g, g.rewards = f.rewards, g.num_reward_tokens = f.num_reward_tokens
  PROVE  KeepsPromises(f, g)
BY DEF KeepsPromises, Promised

(* Issuing rewards leaves the stake's books and the promises alone. *)
LEMMA IssuanceKeepsBooks ==
  ASSUME NEW f, NEW g, OnlyIssues(f, g)
  PROVE  Liabilities(g) = Liabilities(f) /\ KeepsPromises(f, g)
BY DEF OnlyIssues, Liabilities

(* A farm without stake starts issuing at once. *)
LEMMA InitializeRewardTsIssues ==
  ASSUME NEW f \in FarmAccount, NEW ts \in Nat
  PROVE  /\ InitializeRewardTsIfNeeded(f, ts) \in FarmAccount
         /\ OnlyIssues(f, InitializeRewardTsIfNeeded(f, ts))
<1>1. CASE f.active.amount # 0
  BY <1>1 DEF InitializeRewardTsIfNeeded, OnlyIssues, KeepsPromises
<1>2. CASE f.active.amount = 0
  <2> DEFINE g == InitializeRewardTsIfNeeded(f, ts)
             rewards == [i \in RewardIndex |-> IF i \in InitialisedRewards(f)
                           THEN [f.rewards[i] EXCEPT !.last_issuance_ts = ts] ELSE f.rewards[i]]
  <2>1. g = [f EXCEPT !.rewards = rewards]
    BY <1>2 DEF InitializeRewardTsIfNeeded
  <2>2. \A i \in RewardIndex : f.rewards[i] \in RewardInfo
    BY RewardFields
  <2>3. \A i \in RewardIndex :
          /\ rewards[i] \in RewardInfo
          /\ rewards[i].rewards_available = f.rewards[i].rewards_available
          /\ rewards[i].rewards_issued_unclaimed = f.rewards[i].rewards_issued_unclaimed
    BY <2>2 DEF RewardInfo
  <2>4. rewards \in [RewardIndex -> RewardInfo]
    BY <2>3
  <2> HIDE DEF rewards, g
  <2>5. g \in FarmAccount
    BY <2>1, <2>4 DEF FarmAccount
  <2>6. OnlyIssues(f, g)
    BY <2>1, <2>3 DEF OnlyIssues, KeepsPromises, Promised, FarmAccount
  <2> QED BY <2>5, <2>6 DEF g
<1> QED BY <1>1, <1>2

-----------------------------------------------------------------------------
(* What a user has earned *)

(* user_refresh_reward changes the user's rewards only. *)
LEMMA UserRefreshRewardTypes ==
  ASSUME NEW s \in Accounts, NEW indices \in SUBSET RewardIndex, UserRefreshRewardOk(s, indices)
  PROVE  /\ UserRefreshReward(s, indices) \in Accounts
         /\ UserRefreshReward(s, indices).farm = s.farm
<1> DEFINE tally == [i \in RewardIndex |-> IF i \in indices
                       THEN s.user.rewards_tally[i] + RewardDue(s, i) * WAD
                       ELSE s.user.rewards_tally[i]]
           unclaimed == [i \in RewardIndex |-> IF i \in indices
                           THEN s.user.rewards_issued_unclaimed[i] + RewardDue(s, i)
                           ELSE s.user.rewards_issued_unclaimed[i]]
<1>1. s.user \in UserAccount /\ s.farm \in FarmAccount
  BY DEF Accounts
<1>2. \A i \in RewardIndex : /\ s.user.rewards_tally[i] \in Nat
                             /\ s.user.rewards_issued_unclaimed[i] \in Nat
  BY <1>1 DEF UserAccount
<1>3. \A i \in RewardIndex : tally[i] \in Nat /\ unclaimed[i] \in Nat
  BY <1>2, MachineIntegersAreNat DEF UserRefreshRewardOk
<1>4. tally \in [RewardIndex -> Nat] /\ unclaimed \in [RewardIndex -> Nat]
  BY <1>3
<1>5. UserRefreshReward(s, indices)
        = [s EXCEPT !.user.rewards_tally = tally, !.user.rewards_issued_unclaimed = unclaimed]
  BY DEF UserRefreshReward
<1> HIDE DEF tally, unclaimed
<1> DEFINE t == [s EXCEPT !.user.rewards_tally = tally]
<1>6. t \in Accounts /\ t.farm = s.farm
  BY <1>1, <1>4 DEF Accounts, UserAccount
<1>7. UserRefreshReward(s, indices) = [t EXCEPT !.user.rewards_issued_unclaimed = unclaimed]
  BY <1>5 DEF Accounts
<1> HIDE DEF t
<1> QED BY <1>4, <1>6, <1>7 DEF Accounts, UserAccount

(* The refresh most instructions begin with is about rewards only. *)
LEMMA RefreshRewardsIssues ==
  ASSUME NEW s \in Accounts, NEW e \in Environment, RefreshRewardsOk(s, e)
  PROVE  /\ RefreshRewards(s, e) \in Accounts
         /\ RefreshRewards(s, e).farm = RefreshGlobalRewards(s.farm, e)
         /\ OnlyIssues(s.farm, RefreshRewards(s, e).farm)
<1> DEFINE t == Issued(s, e)
<1>1. /\ RefreshGlobalRewards(s.farm, e) \in FarmAccount
      /\ OnlyIssues(s.farm, RefreshGlobalRewards(s.farm, e))
  BY RefreshGlobalRewardsIssues DEF RefreshRewardsOk, Accounts
<1>2. t \in Accounts /\ t.farm = RefreshGlobalRewards(s.farm, e)
  BY <1>1 DEF Issued, Accounts
<1>3. RefreshedIndices(s) \in SUBSET RewardIndex
  BY DEF RefreshedIndices, InitialisedRewards
<1>4. UserRefreshRewardOk(t, RefreshedIndices(s))
  BY DEF RefreshRewardsOk
<1>5. /\ RefreshRewards(s, e) \in Accounts
      /\ RefreshRewards(s, e).farm = t.farm
  BY <1>2, <1>3, <1>4, UserRefreshRewardTypes DEF RefreshRewards
<1> QED BY <1>1, <1>2, <1>5

(* A tally that grows with the stake changes nothing else. *)
LEMMA IncreaseTallyTypes ==
  ASSUME NEW s \in Accounts, NEW shares \in Nat
  PROVE  /\ IncreaseTally(s, shares) \in Accounts
         /\ IncreaseTally(s, shares).farm = s.farm
<1> DEFINE tally == [i \in RewardIndex |-> IF i \in InitialisedRewards(s.farm)
                       THEN s.user.rewards_tally[i] + RewardValue(s.farm, shares, i)
                       ELSE s.user.rewards_tally[i]]
<1>1. s.user \in UserAccount /\ s.farm \in FarmAccount
  BY DEF Accounts
<1>2. \A i \in RewardIndex : /\ s.user.rewards_tally[i] \in Nat
                             /\ RewardValue(s.farm, shares, i) \in Nat
  BY <1>1, RewardValueNat DEF UserAccount
<1>3. tally \in [RewardIndex -> Nat]
  BY <1>2
<1>4. IncreaseTally(s, shares) = [s EXCEPT !.user.rewards_tally = tally]
  BY DEF IncreaseTally
<1> HIDE DEF tally
<1> QED BY <1>1, <1>3, <1>4 DEF Accounts, UserAccount

(* A tally that shrinks with the stake changes nothing else. *)
LEMMA ReduceTallyTypes ==
  ASSUME NEW s \in Accounts, NEW shares \in Nat
  PROVE  /\ ReduceTally(s, shares) \in Accounts
         /\ ReduceTally(s, shares).farm = s.farm
<1> DEFINE tally == [i \in RewardIndex |-> IF i \in InitialisedRewards(s.farm)
                       THEN s.user.rewards_tally[i]
                              - Least(s.user.rewards_tally[i], RewardValue(s.farm, shares, i))
                       ELSE s.user.rewards_tally[i]]
<1>1. s.user \in UserAccount /\ s.farm \in FarmAccount
  BY DEF Accounts
<1>2. \A i \in RewardIndex : /\ s.user.rewards_tally[i] \in Nat
                             /\ RewardValue(s.farm, shares, i) \in Nat
  BY <1>1, RewardValueNat DEF UserAccount
<1>3. tally \in [RewardIndex -> Nat]
  BY <1>2 DEF Least
<1>4. ReduceTally(s, shares) = [s EXCEPT !.user.rewards_tally = tally]
  BY DEF ReduceTally
<1> HIDE DEF tally
<1> QED BY <1>1, <1>3, <1>4 DEF Accounts, UserAccount

-----------------------------------------------------------------------------
(* Deposits and withdrawals *)

(* The share accounting leaves the rewards alone. *)
LEMMA SharesKeepPromises ==
  ASSUME NEW s \in Accounts, NEW amount \in Nat, NEW shares \in Nat, NEW ts \in Nat
  PROVE  /\ KeepsPromises(s.farm, AddPendingDepositStake(s, amount).farm)
         /\ KeepsPromises(s.farm, AddActiveStake(s, amount).farm)
         /\ KeepsPromises(s.farm, ActivatePendingStake(s).farm)
         /\ KeepsPromises(s.farm, MoveToPendingWithdrawal(s, shares, ts).farm)
         /\ KeepsPromises(s.farm, WithdrawUnstakedDeposits(s).farm)
<1>1. s.farm \in FarmAccount
  BY DEF Accounts
<1>2. /\ AddPendingDepositStake(s, amount).farm.rewards = s.farm.rewards
      /\ AddPendingDepositStake(s, amount).farm.num_reward_tokens = s.farm.num_reward_tokens
  BY <1>1 DEF AddPendingDepositStake, FarmAccount
<1>3. /\ AddActiveStake(s, amount).farm.rewards = s.farm.rewards
      /\ AddActiveStake(s, amount).farm.num_reward_tokens = s.farm.num_reward_tokens
  BY <1>1 DEF AddActiveStake, FarmAccount
<1>4. /\ ActivatePendingStake(s).farm.rewards = s.farm.rewards
      /\ ActivatePendingStake(s).farm.num_reward_tokens = s.farm.num_reward_tokens
  BY <1>1 DEF ActivatePendingStake, AddActiveStake, RemovePendingDepositStake, FarmAccount
<1>5. /\ MoveToPendingWithdrawal(s, shares, ts).farm.rewards = s.farm.rewards
      /\ MoveToPendingWithdrawal(s, shares, ts).farm.num_reward_tokens = s.farm.num_reward_tokens
  BY <1>1 DEF MoveToPendingWithdrawal, AddPendingWithdrawalStake, RemoveActiveStake, FarmAccount
<1>6. /\ WithdrawUnstakedDeposits(s).farm.rewards = s.farm.rewards
      /\ WithdrawUnstakedDeposits(s).farm.num_reward_tokens = s.farm.num_reward_tokens
  BY <1>1 DEF WithdrawUnstakedDeposits, RemovePendingWithdrawalStake, FarmAccount
<1> QED BY <1>2, <1>3, <1>4, <1>5, <1>6, SameRewardsKeepPromises

(* Activating a deposit moves nothing in or out of the farm. *)
LEMMA UserRefreshStakeBooks ==
  ASSUME NEW s \in Accounts, NEW e \in Environment, UserRefreshStakeOk(s, e)
  PROVE  /\ UserRefreshStake(s, e) \in Accounts
         /\ Books(UserRefreshStake(s, e)) = Books(s)
         /\ KeepsPromises(s.farm, UserRefreshStake(s, e).farm)
<1> DEFINE f == InitializeRewardTsIfNeeded(s.farm, e.ts)
           t == [s EXCEPT !.farm = f]
<1>1. f \in FarmAccount /\ OnlyIssues(s.farm, f)
  BY InitializeRewardTsIssues DEF Accounts, Environment
<1> HIDE DEF f
<1>2. t \in Accounts /\ t.farm = f /\ t.user = s.user
  BY <1>1 DEF Accounts
<1>3. Books(t) = Books(s) /\ KeepsPromises(s.farm, t.farm)
  BY <1>1, <1>2, IssuanceKeepsBooks DEF Books
<1>4. CASE DepositMatured(s.user, e.ts)
  <2>1. ActivatePendingStakeOk(t)
    BY <1>1, <1>2, <1>4 DEF UserRefreshStakeOk, ActivatePendingStakeOk, ActivatedAmount, OnlyIssues
  <2>2. /\ ActivatePendingStake(t) \in Accounts
        /\ Books(ActivatePendingStake(t)) = Books(t)
        /\ KeepsPromises(t.farm, ActivatePendingStake(t).farm)
    BY <1>2, <2>1, ActivatePendingStakeBooks, SharesKeepPromises
  <2>3. ActivatedShares(t) \in Nat
    BY <1>2, SharesForNat, AmountForNat, FarmFields
    DEF ActivatedShares, ActivatedAmount, Accounts, UserAccount
  <2>4. UserRefreshStake(s, e) = IncreaseTally(ActivatePendingStake(t), ActivatedShares(t))
    BY <1>4 DEF UserRefreshStake, f
  <2> HIDE DEF t
  <2>5. /\ IncreaseTally(ActivatePendingStake(t), ActivatedShares(t)) \in Accounts
        /\ IncreaseTally(ActivatePendingStake(t), ActivatedShares(t)).farm
             = ActivatePendingStake(t).farm
    BY <2>2, <2>3, IncreaseTallyTypes
  <2> QED BY <1>3, <2>2, <2>4, <2>5, KeepsPromisesTransitive DEF Books
<1>5. CASE ~DepositMatured(s.user, e.ts)
  <2>1. UserRefreshStake(s, e) = t
    BY <1>5 DEF UserRefreshStake, f
  <2> QED BY <1>2, <1>3, <2>1
<1> QED BY <1>4, <1>5

(* Refreshing a user moves nothing in or out of the farm. *)
LEMMA UserRefreshStateBooks ==
  ASSUME NEW s \in Accounts, NEW e \in Environment, UserRefreshStateOk(s, e)
  PROVE  /\ UserRefreshState(s, e) \in Accounts
         /\ Books(UserRefreshState(s, e)) = Books(s)
         /\ KeepsPromises(s.farm, UserRefreshState(s, e).farm)
<1>1. /\ RefreshRewards(s, e) \in Accounts
      /\ Books(RefreshRewards(s, e)) = Books(s)
      /\ KeepsPromises(s.farm, RefreshRewards(s, e).farm)
  BY RefreshRewardsIssues, IssuanceKeepsBooks DEF UserRefreshStateOk, Books
<1>2. CASE Delegated
  BY <1>1, <1>2 DEF UserRefreshState
<1>3. CASE ~Delegated
  BY <1>1, <1>3, UserRefreshStakeBooks, KeepsPromisesTransitive
  DEF UserRefreshState, UserRefreshStateOk
<1> QED BY <1>2, <1>3

(* A deposit adds its amount to the books, pending or active. *)
LEMMA DepositBooks ==
  ASSUME NEW s \in Accounts, NEW amount \in Nat, NEW ts \in Nat
  PROVE  /\ Deposit(s, amount, ts) \in Accounts
         /\ Books(Deposit(s, amount, ts)) = Books(s) + amount
         /\ KeepsPromises(s.farm, Deposit(s, amount, ts).farm)
<1> DEFINE warmup == s.farm.config.deposit_warmup_period
           waits == [AddPendingDepositStake(s, amount) EXCEPT
                       !.user.pending_deposit_stake_ts = ts + warmup]
           starts == IncreaseTally(AddActiveStake(s, amount), SharesFor(amount, s.farm.active))
           t == IF warmup > 0 THEN waits ELSE starts
<1>1. warmup \in Nat
  BY FarmFields DEF Accounts, FarmConfig
<1>2. /\ waits \in Accounts /\ Books(waits) = Books(s) + amount
      /\ KeepsPromises(s.farm, waits.farm)
  <2>1. /\ AddPendingDepositStake(s, amount) \in Accounts
        /\ Books(AddPendingDepositStake(s, amount)) = Books(s) + amount
        /\ KeepsPromises(s.farm, AddPendingDepositStake(s, amount).farm)
    BY AddPendingDepositStakeBooks, SharesKeepPromises
  <2>2. waits \in Accounts /\ waits.farm = AddPendingDepositStake(s, amount).farm
    BY <1>1, <2>1 DEF Accounts, UserAccount
  <2> QED BY <2>1, <2>2 DEF Books
<1>3. /\ starts \in Accounts /\ Books(starts) = Books(s) + amount
      /\ KeepsPromises(s.farm, starts.farm)
  <2>1. /\ AddActiveStake(s, amount) \in Accounts
        /\ Books(AddActiveStake(s, amount)) = Books(s) + amount
        /\ KeepsPromises(s.farm, AddActiveStake(s, amount).farm)
    BY AddActiveStakeBooks, SharesKeepPromises
  <2>2. SharesFor(amount, s.farm.active) \in Nat
    BY SharesForNat, FarmFields DEF Accounts
  <2> QED BY <2>1, <2>2, IncreaseTallyTypes DEF Books
<1>4. t \in Accounts /\ Books(t) = Books(s) + amount /\ KeepsPromises(s.farm, t.farm)
  BY <1>2, <1>3
<1>5. Deposit(s, amount, ts) = [t EXCEPT !.user.last_stake_ts = ts]
  BY DEF Deposit
<1> HIDE DEF t
<1>6. Deposit(s, amount, ts) \in Accounts /\ Deposit(s, amount, ts).farm = t.farm
  BY <1>4, <1>5 DEF Accounts, UserAccount
<1> QED BY <1>4, <1>6 DEF Books

(* The books grow by the amount staked. *)
LEMMA StakeBooks ==
  ASSUME NEW s \in Accounts, NEW amount \in Nat, NEW e \in Environment, StakeOk(s, amount, e)
  PROVE  /\ Stake(s, amount, e) \in Accounts
         /\ Books(Stake(s, amount, e)) = Books(s) + amount
         /\ KeepsPromises(s.farm, Stake(s, amount, e).farm)
<1> DEFINE t == RefreshRewards(s, e)
           r == UserRefreshStake(t, e)
<1>1. t \in Accounts /\ Books(t) = Books(s) /\ KeepsPromises(s.farm, t.farm)
  BY RefreshRewardsIssues, IssuanceKeepsBooks DEF StakeOk, Books
<1>2. r \in Accounts /\ Books(r) = Books(t) /\ KeepsPromises(t.farm, r.farm)
  BY <1>1, UserRefreshStakeBooks DEF StakeOk
<1>3. Stake(s, amount, e) = Deposit(r, amount, e.ts) /\ e.ts \in Nat
  BY DEF Stake, Environment
<1> HIDE DEF t, r
<1>4. /\ Deposit(r, amount, e.ts) \in Accounts
      /\ Books(Deposit(r, amount, e.ts)) = Books(r) + amount
      /\ KeepsPromises(r.farm, Deposit(r, amount, e.ts).farm)
  BY <1>2, <1>3, DepositBooks
<1>5. KeepsPromises(s.farm, r.farm)
  BY <1>1, <1>2, KeepsPromisesTransitive
<1> QED BY <1>1, <1>2, <1>3, <1>4, <1>5, KeepsPromisesTransitive

(* A penalty on the books of a farm. *)
BookedPenalty(s, penalty) ==
  [s EXCEPT !.farm = [s.farm EXCEPT !.slashed = @ + penalty,
                                    !.slashed_amount_cumulative = @ + penalty]]

(* It touches what was slashed only. *)
LEMMA PenaltyBooked ==
  ASSUME NEW s \in Accounts, NEW penalty \in Nat
  PROVE  LET b == BookedPenalty(s, penalty)
         IN  /\ b \in Accounts /\ b.user = s.user
             /\ b.farm.slashed = s.farm.slashed + penalty
             /\ b.farm.slashed_amount_cumulative = s.farm.slashed_amount_cumulative + penalty
             /\ b.farm.config = s.farm.config /\ b.farm.frozen = s.farm.frozen
             /\ b.farm.active = s.farm.active /\ b.farm.pending = s.farm.pending
             /\ b.farm.rewards = s.farm.rewards
             /\ b.farm.num_reward_tokens = s.farm.num_reward_tokens
<1> DEFINE f == s.farm
           slashed == f.slashed + penalty
           cumulative == f.slashed_amount_cumulative + penalty
           g == [f EXCEPT !.slashed = slashed, !.slashed_amount_cumulative = cumulative]
<1>1. f \in FarmAccount /\ s.user \in UserAccount
  BY DEF Accounts
<1>2. slashed \in Nat /\ cumulative \in Nat
  BY <1>1, FarmFields
<1>3. BookedPenalty(s, penalty) = [farm |-> g, user |-> s.user]
  BY DEF BookedPenalty, Accounts
<1> HIDE DEF f, slashed, cumulative
<1>4. /\ g \in FarmAccount /\ g.slashed = slashed /\ g.slashed_amount_cumulative = cumulative
      /\ g.config = f.config /\ g.frozen = f.frozen
      /\ g.active = f.active /\ g.pending = f.pending
      /\ g.rewards = f.rewards /\ g.num_reward_tokens = f.num_reward_tokens
  BY <1>1, <1>2 DEF FarmAccount
<1> HIDE DEF g
<1> QED BY <1>1, <1>3, <1>4 DEF Accounts, f, slashed, cumulative

(* What leaves the active pool is pending or a penalty. *)
LEMMA MoveOutBooks ==
  ASSUME NEW s \in Accounts, NEW shares \in Nat, NEW ts \in Nat, MoveOutOk(s, shares, ts)
  PROVE  /\ MoveOut(s, shares, ts) \in Accounts
         /\ Books(MoveOut(s, shares, ts)) = Books(s)
         /\ KeepsPromises(s.farm, MoveOut(s, shares, ts).farm)
<1> DEFINE penalty == UnstakePenalty(s, shares, ts)
           deadline == ts + s.farm.config.withdrawal_cooldown_period
           t == [s EXCEPT !.user.pending_withdrawal_unstake_ts = deadline]
           moved == MoveToPendingWithdrawal(t, shares, ts)
           booked == BookedPenalty(moved, penalty)
<1>1. deadline \in Nat
  BY FarmFields DEF Accounts, FarmConfig
<1> HIDE DEF deadline
<1>2. t \in Accounts /\ t.farm = s.farm
  BY <1>1 DEF Accounts, UserAccount
<1>3. t.user.last_stake_ts = s.user.last_stake_ts /\ t.user.active_stake = s.user.active_stake
  BY DEF Accounts, UserAccount
<1>4. UnstakePenalty(t, shares, ts) = penalty
  BY <1>2, <1>3 DEF UnstakePenalty, LockBegin
<1>5. MoveToPendingWithdrawalOk(t, shares, ts)
  BY <1>2, <1>3, <1>4 DEF MoveOutOk, MoveToPendingWithdrawalOk, UnstakedAmount, LockBegin
<1> HIDE DEF t
<1>6. /\ moved \in Accounts
      /\ Books(moved) = Books(s) - penalty
      /\ KeepsPromises(s.farm, moved.farm)
  BY <1>2, <1>4, <1>5, MoveToPendingWithdrawalBooks, SharesKeepPromises DEF Books
<1>7. penalty \in Nat
  BY <1>2, <1>4, <1>5, UnstakePenaltyBound
<1> HIDE DEF moved, penalty
<1>8. /\ booked \in Accounts
      /\ booked.farm.active = moved.farm.active /\ booked.farm.pending = moved.farm.pending
      /\ booked.farm.slashed = moved.farm.slashed + penalty
      /\ booked.farm.rewards = moved.farm.rewards
      /\ booked.farm.num_reward_tokens = moved.farm.num_reward_tokens
  BY <1>6, <1>7, PenaltyBooked
<1> HIDE DEF booked
<1>9. Books(booked) = Books(moved) + penalty
  BY <1>6, <1>7, <1>8, FarmFields DEF Books, Liabilities, Accounts
<1>10. KeepsPromises(moved.farm, booked.farm)
  BY <1>8, SameRewardsKeepPromises
<1>11. MoveOut(s, shares, ts) = ReduceTally(booked, shares)
  BY DEF MoveOut, booked, BookedPenalty, moved, t, penalty, deadline
<1>12. ReduceTally(booked, shares) \in Accounts /\ ReduceTally(booked, shares).farm = booked.farm
  BY <1>8, ReduceTallyTypes
<1>13. Books(booked) = Books(s)
  BY <1>6, <1>7, <1>9, BooksNat
<1> QED BY <1>6, <1>10, <1>11, <1>12, <1>13, KeepsPromisesTransitive DEF Books

(* An unstake leaves the sum of the books as it is. *)
LEMMA UnstakeBooks ==
  ASSUME NEW s \in Accounts, NEW requested \in Nat, NEW e \in Environment,
         UnstakeOk(s, requested, e)
  PROVE  /\ Unstake(s, requested, e) \in Accounts
         /\ Books(Unstake(s, requested, e)) = Books(s)
         /\ KeepsPromises(s.farm, Unstake(s, requested, e).farm)
<1> DEFINE t == RefreshRewards(s, e)
           shares == SharesToUnstake(t, requested)
<1>1. t \in Accounts /\ Books(t) = Books(s) /\ KeepsPromises(s.farm, t.farm)
  BY RefreshRewardsIssues, IssuanceKeepsBooks DEF UnstakeOk, Books
<1>2. Unstake(s, requested, e) = MoveOut(t, shares, e.ts) /\ MoveOutOk(t, shares, e.ts)
  BY DEF Unstake, UnstakeOk
<1> HIDE DEF t
<1>3. shares \in Nat
  BY <1>1 DEF SharesToUnstake, Least, Accounts, UserAccount
<1> HIDE DEF shares
<1>4. e.ts \in Nat
  BY DEF Environment
<1>5. /\ MoveOut(t, shares, e.ts) \in Accounts
      /\ Books(MoveOut(t, shares, e.ts)) = Books(t)
      /\ KeepsPromises(t.farm, MoveOut(t, shares, e.ts).farm)
  BY <1>1, <1>2, <1>3, <1>4, MoveOutBooks
<1> QED BY <1>1, <1>2, <1>5, KeepsPromisesTransitive

(* A withdrawal takes off the books what it pays. *)
LEMMA WithdrawUnstakedDepositsBooks ==
  ASSUME NEW s \in Accounts, NEW ts \in Nat, WithdrawUnstakedDepositsOk(s, ts)
  PROVE  /\ WithdrawUnstakedDeposits(s) \in Accounts
         /\ AmountToWithdraw(s) \in Nat
         /\ Books(WithdrawUnstakedDeposits(s)) = Books(s) - AmountToWithdraw(s)
         /\ KeepsPromises(s.farm, WithdrawUnstakedDeposits(s).farm)
<1>1. RemoveSharesOk(s.farm.pending, s.user.pending_withdrawal_unstake)
  BY DEF WithdrawUnstakedDepositsOk
<1>2. KeepsPromises(s.farm, WithdrawUnstakedDeposits(s).farm)
  BY SharesKeepPromises
<1> QED BY <1>1, <1>2, RemovePendingWithdrawalStakeBooks
        DEF WithdrawUnstakedDeposits, AmountToWithdraw

-----------------------------------------------------------------------------
(* Rewards that move *)

(* The refresh a harvest begins with is about rewards only. *)
LEMMA RefreshOneIssues ==
  ASSUME NEW s \in Accounts, NEW i \in RewardIndex, NEW e \in Environment, HarvestOk(s, i, e)
  PROVE  /\ RefreshOne(s, i, e) \in Accounts
         /\ OnlyIssues(s.farm, RefreshOne(s, i, e).farm)
<1>1. /\ RefreshGlobalRewards(s.farm, e) \in FarmAccount
      /\ OnlyIssues(s.farm, RefreshGlobalRewards(s.farm, e))
  BY RefreshGlobalRewardsIssues DEF HarvestOk, Accounts
<1>2. Issued(s, e) \in Accounts /\ Issued(s, e).farm = RefreshGlobalRewards(s.farm, e)
  BY <1>1 DEF Issued, Accounts
<1>3. UserRefreshRewardOk(Issued(s, e), {i})
  BY DEF HarvestOk
<1> QED BY <1>1, <1>2, <1>3, UserRefreshRewardTypes DEF RefreshOne

(* A harvest takes what it pays off what is promised. *)
LEMMA HarvestPromises ==
  ASSUME NEW s \in Accounts, NEW i \in RewardIndex, NEW e \in Environment, HarvestOk(s, i, e)
  PROVE  LET t == Harvest(s, i, e)
             reward == HarvestedReward(s, i, e)
         IN  /\ t \in Accounts
             /\ reward \in Nat
             /\ Books(t) = Books(s)
             /\ ChangesPromise(s.farm, t.farm, i, 0, reward)
<1> DEFINE r == RefreshOne(s, i, e)
           reward == HarvestedReward(s, i, e)
           t == Harvest(s, i, e)
<1>1. r \in Accounts /\ OnlyIssues(s.farm, r.farm)
  BY RefreshOneIssues
<1>2. Books(r) = Books(s) /\ KeepsPromises(s.farm, r.farm)
  BY <1>1, IssuanceKeepsBooks DEF Books
<1>3. reward = r.user.rewards_issued_unclaimed[i]
  BY DEF HarvestedReward
<1>4. reward =< r.farm.rewards[i].rewards_issued_unclaimed
  BY DEF HarvestOk
<1>5. t = IF reward = 0 THEN r
          ELSE [ r EXCEPT !.farm.rewards[i].rewards_issued_unclaimed = @ - reward,
                          !.user.rewards_issued_unclaimed[i] = 0,
                          !.user.last_claim_ts[i] = e.ts ]
  BY DEF Harvest
<1>6. e.ts \in Nat
  BY DEF Environment
<1> HIDE DEF r, reward, t
<1>7. /\ r.farm \in FarmAccount /\ r.user \in UserAccount
      /\ r.farm.rewards \in [RewardIndex -> RewardInfo]
      /\ r.farm.rewards[i] \in RewardInfo
      /\ r.user.rewards_issued_unclaimed \in [RewardIndex -> Nat]
      /\ r.user.last_claim_ts \in [RewardIndex -> Nat]
  BY <1>1 DEF Accounts, FarmAccount, UserAccount
<1>8. reward \in Nat
  BY <1>3, <1>7
<1>9. CASE reward = 0
  BY <1>1, <1>2, <1>5, <1>8, <1>9, RewardFields
  DEF KeepsPromises, ChangesPromise, Accounts, t, reward
<1>10. CASE reward # 0
  <2> DEFINE q == [r.farm.rewards[i] EXCEPT !.rewards_issued_unclaimed = @ - reward]
             rewards == [r.farm.rewards EXCEPT ![i] = q]
             f == [r.farm EXCEPT !.rewards = rewards]
             u == [r.user EXCEPT !.rewards_issued_unclaimed = [@ EXCEPT ![i] = 0],
                                 !.last_claim_ts = [@ EXCEPT ![i] = e.ts]]
  <2>1. q \in RewardInfo
    BY <1>4, <1>7, <1>8 DEF RewardInfo
  <2>2. /\ q.rewards_available = r.farm.rewards[i].rewards_available
        /\ q.rewards_issued_unclaimed = r.farm.rewards[i].rewards_issued_unclaimed - reward
    BY <1>7 DEF RewardInfo
  <2>3. t.farm = f /\ t.user = u /\ t = [farm |-> f, user |-> u]
    BY <1>1, <1>5, <1>10 DEF Accounts, FarmAccount, UserAccount
  <2> HIDE DEF q
  <2>4. /\ rewards \in [RewardIndex -> RewardInfo] /\ rewards[i] = q
        /\ \A j \in RewardIndex \ {i} : rewards[j] = r.farm.rewards[j]
    BY <1>7, <2>1
  <2> HIDE DEF rewards
  <2>5. f \in FarmAccount /\ f.rewards = rewards
    BY <1>7, <2>4 DEF FarmAccount
  <2>6. u \in UserAccount
    BY <1>6, <1>7 DEF UserAccount
  <2>7. Liabilities(f) = Liabilities(r.farm) /\ f.num_reward_tokens = r.farm.num_reward_tokens
    BY <1>7 DEF Liabilities, FarmAccount
  <2> HIDE DEF f, u
  <2>8. t \in Accounts
    BY <2>3, <2>5, <2>6 DEF Accounts
  <2>9. Promised(t.farm, i) = Promised(r.farm, i) - reward
    BY <1>7, <1>8, <2>2, <2>3, <2>4, <2>5 DEF Promised, RewardInfo
  <2>10. \A j \in RewardIndex : j # i => Promised(t.farm, j) = Promised(r.farm, j)
    BY <2>3, <2>4, <2>5 DEF Promised
  <2>11. \A j \in RewardIndex :
           t.farm.rewards[j].rewards_available = r.farm.rewards[j].rewards_available
    BY <2>2, <2>3, <2>4, <2>5
  <2>12. Books(t) = Books(r) /\ t.farm.num_reward_tokens = r.farm.num_reward_tokens
    BY <2>3, <2>7 DEF Books
  <2>13. Promised(r.farm, i) \in Nat
    BY <1>7, RewardFields
  <2>14. ChangesPromise(s.farm, t.farm, i, 0, reward)
    BY <1>2, <1>8, <2>9, <2>10, <2>11, <2>12, <2>13 DEF KeepsPromises, ChangesPromise
  <2> QED BY <1>2, <1>8, <2>8, <2>12, <2>14 DEF t, reward
<1> QED BY <1>9, <1>10 DEF t, reward

(* A reward that is updated leaves the stake and the other rewards alone. *)
LEMMA UpdatedReward ==
  ASSUME NEW f \in FarmAccount, NEW i \in RewardIndex, NEW q \in RewardInfo
  PROVE  LET g == [f EXCEPT !.rewards[i] = q]
         IN  /\ g \in FarmAccount
             /\ Liabilities(g) = Liabilities(f)
             /\ g.num_reward_tokens = f.num_reward_tokens
             /\ g.rewards[i] = q
             /\ \A j \in RewardIndex \ {i} : g.rewards[j] = f.rewards[j]
<1> DEFINE g == [f EXCEPT !.rewards[i] = q]
           rewards == [f.rewards EXCEPT ![i] = q]
<1>1. rewards \in [RewardIndex -> RewardInfo] /\ rewards[i] = q
  BY FarmFields
<1>2. \A j \in RewardIndex \ {i} : rewards[j] = f.rewards[j]
  BY FarmFields
<1>3. g = [f EXCEPT !.rewards = rewards]
  OBVIOUS
<1> HIDE DEF rewards, g
<1>4. g \in FarmAccount /\ g.rewards = rewards
  BY <1>1, <1>3 DEF FarmAccount
<1>5. Liabilities(g) = Liabilities(f) /\ g.num_reward_tokens = f.num_reward_tokens
  BY <1>3 DEF Liabilities, FarmAccount
<1> QED BY <1>1, <1>2, <1>4, <1>5 DEF g

(* Its promise changes as its two counters do. *)
LEMMA UpdatedPromise ==
  ASSUME NEW f \in FarmAccount, NEW i \in RewardIndex, NEW q \in RewardInfo,
         NEW gain \in Nat, NEW loss \in Nat,
         q.rewards_available + q.rewards_issued_unclaimed + loss = Promised(f, i) + gain,
         i \in InitialisedRewards(f) \/ q.rewards_available = f.rewards[i].rewards_available
  PROVE  ChangesPromise(f, [f EXCEPT !.rewards[i] = q], i, gain, loss)
<1> DEFINE g == [f EXCEPT !.rewards[i] = q]
<1>1. /\ g.num_reward_tokens = f.num_reward_tokens
      /\ g.rewards[i] = q
      /\ \A j \in RewardIndex \ {i} : g.rewards[j] = f.rewards[j]
  BY UpdatedReward
<1> HIDE DEF g
<1>2. Promised(g, i) + loss = Promised(f, i) + gain
  BY <1>1 DEF Promised
<1>3. \A j \in RewardIndex \ {i} : Promised(g, j) = Promised(f, j)
  BY <1>1 DEF Promised
<1>4. \A j \in RewardIndex \ InitialisedRewards(f) :
        g.rewards[j].rewards_available = f.rewards[j].rewards_available
  BY <1>1
<1> QED BY <1>1, <1>2, <1>3, <1>4 DEF ChangesPromise, g

(* Issuance before a change of a promise does not change it further. *)
LEMMA ChangesPromiseAfterIssuance ==
  ASSUME NEW f \in FarmAccount, NEW g, NEW h, NEW i \in RewardIndex, NEW gain, NEW loss,
         KeepsPromises(f, g), ChangesPromise(g, h, i, gain, loss)
  PROVE  ChangesPromise(f, h, i, gain, loss)
BY DEF KeepsPromises, ChangesPromise, InitialisedRewards

(* Funding a reward promises what was funded. *)
LEMMA AddRewardPromises ==
  ASSUME NEW f \in FarmAccount, NEW i \in RewardIndex, NEW amount \in Nat, NEW e \in Environment,
         AddRewardOk(f, i, amount, e)
  PROVE  LET g == AddReward(f, i, amount, e)
         IN  /\ g \in FarmAccount
             /\ Liabilities(g) = Liabilities(f)
             /\ ChangesPromise(f, g, i, amount, 0)
<1> DEFINE r == RefreshGlobalRewards(f, e)
           q == [r.rewards[i] EXCEPT !.rewards_available = @ + amount]
<1>1. r \in FarmAccount /\ Liabilities(r) = Liabilities(f) /\ KeepsPromises(f, r)
  BY RefreshGlobalRewardsIssues, IssuanceKeepsBooks DEF AddRewardOk
<1>2. i \in InitialisedRewards(r)
  BY <1>1 DEF AddRewardOk, InitialisedRewards, KeepsPromises
<1>3. AddReward(f, i, amount, e) = [r EXCEPT !.rewards[i] = q]
  BY <1>1 DEF AddReward, FarmAccount
<1> HIDE DEF r
<1>4. /\ r.rewards[i] \in RewardInfo
      /\ r.rewards[i].rewards_available \in Nat
      /\ r.rewards[i].rewards_issued_unclaimed \in Nat
  BY <1>1, RewardFields
<1>5. /\ q \in RewardInfo
      /\ q.rewards_available + q.rewards_issued_unclaimed + 0 = Promised(r, i) + amount
  BY <1>4 DEF RewardInfo, Promised
<1> HIDE DEF q
<1>6. ChangesPromise(r, [r EXCEPT !.rewards[i] = q], i, amount, 0)
  BY <1>1, <1>2, <1>5, UpdatedPromise
<1>7. ChangesPromise(f, AddReward(f, i, amount, e), i, amount, 0)
  BY <1>1, <1>3, <1>6, ChangesPromiseAfterIssuance
<1>8. /\ AddReward(f, i, amount, e) \in FarmAccount
      /\ Liabilities(AddReward(f, i, amount, e)) = Liabilities(f)
  BY <1>1, <1>3, <1>5, UpdatedReward
<1> QED BY <1>7, <1>8

(* Withdrawing a reward takes what is paid off what is promised. *)
LEMMA WithdrawRewardPromises ==
  ASSUME NEW f \in FarmAccount, NEW i \in RewardIndex, NEW amount \in Nat, NEW e \in Environment,
         WithdrawRewardOk(f, i, amount, e)
  PROVE  LET g == WithdrawReward(f, i, amount, e)
             paid == WithdrawableReward(f, i, amount, e)
         IN  /\ g \in FarmAccount
             /\ paid \in Nat
             /\ Liabilities(g) = Liabilities(f)
             /\ ChangesPromise(f, g, i, 0, paid)
<1> DEFINE r == RefreshGlobalRewards(f, e)
           paid == WithdrawableReward(f, i, amount, e)
           q == [r.rewards[i] EXCEPT !.rewards_available = @ - paid]
<1>1. r \in FarmAccount /\ Liabilities(r) = Liabilities(f) /\ KeepsPromises(f, r)
  BY RefreshGlobalRewardsIssues, IssuanceKeepsBooks DEF WithdrawRewardOk
<1>2. i \in InitialisedRewards(r)
  BY <1>1 DEF WithdrawRewardOk, InitialisedRewards, KeepsPromises
<1>3. WithdrawReward(f, i, amount, e) = [r EXCEPT !.rewards[i] = q]
  BY <1>1 DEF WithdrawReward, FarmAccount
<1>4. /\ r.rewards[i] \in RewardInfo
      /\ r.rewards[i].rewards_available \in Nat
      /\ r.rewards[i].rewards_issued_unclaimed \in Nat
  BY <1>1, RewardFields
<1>5. paid = Least(r.rewards[i].rewards_available, amount)
  BY DEF WithdrawableReward
<1> HIDE DEF r, paid
<1>6. paid \in 0 .. r.rewards[i].rewards_available
  BY <1>4, <1>5 DEF Least
<1>7. /\ q \in RewardInfo
      /\ q.rewards_available + q.rewards_issued_unclaimed + paid = Promised(r, i) + 0
  BY <1>4, <1>6 DEF RewardInfo, Promised
<1> HIDE DEF q
<1>8. ChangesPromise(r, [r EXCEPT !.rewards[i] = q], i, 0, paid)
  BY <1>1, <1>2, <1>6, <1>7, UpdatedPromise
<1>9. ChangesPromise(f, WithdrawReward(f, i, amount, e), i, 0, paid)
  BY <1>1, <1>3, <1>8, ChangesPromiseAfterIssuance
<1>10. /\ WithdrawReward(f, i, amount, e) \in FarmAccount
       /\ Liabilities(WithdrawReward(f, i, amount, e)) = Liabilities(f)
  BY <1>1, <1>3, <1>7, UpdatedReward
<1> QED BY <1>6, <1>9, <1>10 DEF paid

(* A new configuration promises nothing. *)
LEMMA UpdateRewardConfigPromises ==
  ASSUME NEW f \in FarmAccount, NEW i \in RewardIndex, NEW config \in RewardConfig,
         NEW e \in Environment, UpdateRewardConfigOk(f, i, config, e)
  PROVE  LET g == UpdateRewardConfig(f, i, config, e)
         IN  /\ g \in FarmAccount
             /\ Liabilities(g) = Liabilities(f)
             /\ ChangesPromise(f, g, i, 0, 0)
<1> DEFINE r == RefreshGlobalRewards(f, e)
           q == [r.rewards[i] EXCEPT !.config = config, !.last_issuance_ts = e.ts]
<1>1. r \in FarmAccount /\ Liabilities(r) = Liabilities(f) /\ KeepsPromises(f, r)
  BY RefreshGlobalRewardsIssues, IssuanceKeepsBooks DEF UpdateRewardConfigOk
<1>2. r.rewards \in [RewardIndex -> RewardInfo]
  BY <1>1, FarmFields
<1>3. UpdateRewardConfig(f, i, config, e) = [r EXCEPT !.rewards[i] = q]
  BY <1>1, <1>2 DEF UpdateRewardConfig, FarmAccount, RewardInfo
<1> HIDE DEF r
<1>4. /\ r.rewards[i] \in RewardInfo
      /\ r.rewards[i].rewards_available \in Nat
      /\ r.rewards[i].rewards_issued_unclaimed \in Nat
  BY <1>1, RewardFields
<1>5. /\ q \in RewardInfo
      /\ q.rewards_available = r.rewards[i].rewards_available
      /\ q.rewards_available + q.rewards_issued_unclaimed + 0 = Promised(r, i) + 0
  BY <1>4 DEF RewardInfo, Promised, Environment
<1> HIDE DEF q
<1>6. ChangesPromise(r, [r EXCEPT !.rewards[i] = q], i, 0, 0)
  BY <1>1, <1>5, UpdatedPromise
<1>7. ChangesPromise(f, UpdateRewardConfig(f, i, config, e), i, 0, 0)
  BY <1>1, <1>3, <1>6, ChangesPromiseAfterIssuance
<1>8. /\ UpdateRewardConfig(f, i, config, e) \in FarmAccount
      /\ Liabilities(UpdateRewardConfig(f, i, config, e)) = Liabilities(f)
  BY <1>1, <1>3, <1>5, UpdatedReward
<1> QED BY <1>7, <1>8

(* A new reward has no funds, and had none before. *)
LEMMA InitializeRewardPromises ==
  ASSUME NEW f \in FarmAccount, NEW ts \in Nat, f.num_reward_tokens < MAX_REWARDS_TOKENS,
         f.rewards[f.num_reward_tokens].rewards_available = 0
  PROVE  LET g == InitializeReward(f, ts)
         IN  /\ g \in FarmAccount
             /\ Liabilities(g) = Liabilities(f)
             /\ \A i \in RewardIndex : Promised(g, i) = Promised(f, i)
             /\ InitialisedRewards(f) \subseteq InitialisedRewards(g)
             /\ \A i \in RewardIndex :
                  g.rewards[i].rewards_available = f.rewards[i].rewards_available
<1> DEFINE n == f.num_reward_tokens
           q == [f.rewards[n] EXCEPT !.rewards_available = 0, !.last_issuance_ts = ts]
           h == [f EXCEPT !.rewards[n] = q]
           g == InitializeReward(f, ts)
<1>1. n \in RewardIndex /\ n + 1 \in 0 .. MAX_REWARDS_TOKENS
  BY FarmStateAssumption DEF FarmAccount, RewardIndex
<1>2. q \in RewardInfo
  BY <1>1, RewardFields DEF RewardInfo
<1>3. /\ q.rewards_available = f.rewards[n].rewards_available
      /\ q.rewards_issued_unclaimed = f.rewards[n].rewards_issued_unclaimed
  BY <1>1, RewardFields DEF RewardInfo
<1>4. g = [h EXCEPT !.num_reward_tokens = n + 1] /\ n = f.num_reward_tokens
  BY <1>1, FarmFields DEF InitializeReward, FarmAccount, RewardInfo
<1> HIDE DEF q, n, g
<1>5. /\ h \in FarmAccount /\ Liabilities(h) = Liabilities(f)
      /\ h.num_reward_tokens = n /\ h.rewards[n] = q
      /\ \A j \in RewardIndex \ {n} : h.rewards[j] = f.rewards[j]
  BY <1>1, <1>2, <1>4, UpdatedReward
<1> HIDE DEF h
<1>6. g \in FarmAccount /\ g.rewards = h.rewards /\ g.num_reward_tokens = n + 1
  BY <1>1, <1>4, <1>5 DEF FarmAccount
<1>7. Liabilities(g) = Liabilities(h)
  BY <1>4, <1>5 DEF Liabilities, FarmAccount
<1>8. \A i \in RewardIndex :
        /\ g.rewards[i].rewards_available = f.rewards[i].rewards_available
        /\ g.rewards[i].rewards_issued_unclaimed = f.rewards[i].rewards_issued_unclaimed
  BY <1>3, <1>5, <1>6
<1>9. InitialisedRewards(f) \subseteq InitialisedRewards(g)
  BY <1>1, <1>6 DEF InitialisedRewards, n, RewardIndex
<1> QED BY <1>5, <1>6, <1>7, <1>8, <1>9 DEF g, Promised

(* A reward of which some is credited without being issued. *)
CreditedReward(s, i, amount) ==
  [s.farm.rewards[i] EXCEPT !.rewards_issued_unclaimed = @ + amount,
                            !.rewards_issued_cumulative = @ + amount]

(* reward_user_once touches the counters of one reward and of one user. *)
LEMMA RewardUserOnceCredits ==
  ASSUME NEW s \in Accounts, NEW i \in RewardIndex, NEW amount
  PROVE  LET r == s.farm.rewards[i]
             q == CreditedReward(s, i, amount)
         IN  /\ RewardUserOnce(s, i, amount)
                  = [farm |-> [s.farm EXCEPT !.rewards[i] = q],
                     user |-> [s.user EXCEPT !.rewards_issued_unclaimed[i] = @ + amount]]
             /\ amount \in Nat => q \in RewardInfo
             /\ q.rewards_issued_unclaimed = r.rewards_issued_unclaimed + amount
             /\ q.rewards_issued_cumulative = r.rewards_issued_cumulative + amount
             /\ q.rewards_available = r.rewards_available
             /\ q.reward_per_share_scaled = r.reward_per_share_scaled
             /\ q.last_issuance_ts = r.last_issuance_ts
<1> DEFINE r == s.farm.rewards[i]
           q == CreditedReward(s, i, amount)
           credit == [s EXCEPT !.farm.rewards[i] = q]
           unclaimed == r.rewards_issued_unclaimed + amount
           cumulative == r.rewards_issued_cumulative + amount
<1>1. /\ s.farm \in FarmAccount /\ s.user \in UserAccount /\ r \in RewardInfo
      /\ r.rewards_issued_unclaimed \in Nat /\ r.rewards_issued_cumulative \in Nat
  BY RewardFields DEF Accounts
<1>2. credit = [farm |-> [s.farm EXCEPT !.rewards[i] = q], user |-> s.user]
  BY <1>1 DEF Accounts, FarmAccount
<1>3. RewardUserOnce(s, i, amount) = [credit EXCEPT !.user.rewards_issued_unclaimed[i] = @ + amount]
  BY <1>1 DEF RewardUserOnce, CreditedReward, Accounts
<1>4. q = [r EXCEPT !.rewards_issued_unclaimed = unclaimed,
                    !.rewards_issued_cumulative = cumulative]
  BY <1>1 DEF CreditedReward, RewardInfo
<1>5. amount \in Nat => unclaimed \in Nat /\ cumulative \in Nat
  BY <1>1
<1> HIDE DEF credit, r, q, unclaimed, cumulative
<1>6. /\ q.rewards_issued_unclaimed = unclaimed /\ q.rewards_issued_cumulative = cumulative
      /\ q.rewards_available = r.rewards_available
      /\ q.reward_per_share_scaled = r.reward_per_share_scaled
      /\ q.last_issuance_ts = r.last_issuance_ts
  BY <1>1, <1>4 DEF RewardInfo
<1>7. amount \in Nat => q \in RewardInfo
  BY <1>1, <1>4, <1>5 DEF RewardInfo
<1>8. RewardUserOnce(s, i, amount)
        = [farm |-> [s.farm EXCEPT !.rewards[i] = q],
           user |-> [s.user EXCEPT !.rewards_issued_unclaimed[i] = @ + amount]]
  BY <1>2, <1>3
<1> QED BY <1>6, <1>7, <1>8 DEF r, q, unclaimed, cumulative

(* reward_user_once promises what it credits. *)
LEMMA RewardUserOncePromises ==
  ASSUME NEW s \in Accounts, NEW i \in RewardIndex, NEW amount \in Nat
  PROVE  LET t == RewardUserOnce(s, i, amount)
         IN  /\ t \in Accounts
             /\ Books(t) = Books(s)
             /\ ChangesPromise(s.farm, t.farm, i, amount, 0)
<1> DEFINE f == s.farm
           q == CreditedReward(s, i, amount)
           g == [f EXCEPT !.rewards[i] = q]
           unclaimed == [s.user.rewards_issued_unclaimed EXCEPT ![i] = @ + amount]
           u == [s.user EXCEPT !.rewards_issued_unclaimed[i] = @ + amount]
           t == RewardUserOnce(s, i, amount)
<1>1. f \in FarmAccount /\ s.user \in UserAccount
  BY DEF Accounts
<1>2. /\ f.rewards[i].rewards_available \in Nat
      /\ f.rewards[i].rewards_issued_unclaimed \in Nat
  BY <1>1, RewardFields
<1>3. /\ t = [farm |-> g, user |-> u]
      /\ q \in RewardInfo /\ q.rewards_available = f.rewards[i].rewards_available
      /\ q.rewards_issued_unclaimed = f.rewards[i].rewards_issued_unclaimed + amount
  BY RewardUserOnceCredits
<1>4. unclaimed \in [RewardIndex -> Nat] /\ u = [s.user EXCEPT !.rewards_issued_unclaimed = unclaimed]
  BY <1>1 DEF UserAccount
<1> HIDE DEF unclaimed, u
<1>5. u \in UserAccount
  BY <1>1, <1>4 DEF UserAccount
<1>6. q.rewards_available + q.rewards_issued_unclaimed + 0 = Promised(f, i) + amount
  BY <1>2, <1>3 DEF Promised
<1> HIDE DEF f, q, t
<1>7. g \in FarmAccount /\ Liabilities(g) = Liabilities(f)
  BY <1>1, <1>3, UpdatedReward
<1>8. ChangesPromise(f, g, i, amount, 0)
  BY <1>1, <1>3, <1>6, UpdatedPromise
<1> QED BY <1>3, <1>5, <1>7, <1>8 DEF Accounts, Books, f, t

-----------------------------------------------------------------------------
(* Dictated stakes *)

(* set_stake keeps the shape of the accounts and the promises. *)
LEMMA SetStakeTypes ==
  ASSUME NEW s \in Accounts, NEW new_stake \in Nat, NEW e \in Environment,
         SetStakeOk(s, new_stake, e)
  PROVE  /\ SetStake(s, new_stake, e) \in Accounts
         /\ KeepsPromises(s.farm, SetStake(s, new_stake, e).farm)
<1>1. CASE new_stake = s.user.active_stake
  BY <1>1 DEF SetStake, KeepsPromises
<1>2. CASE new_stake # s.user.active_stake
  <2> DEFINE r == RefreshRewards(s, WithoutPrice(e))
             f == IF StakeIncreases(s, new_stake)
                  THEN InitializeRewardTsIfNeeded(r.farm, e.ts) ELSE r.farm
             old == s.user.active_stake
             g == [f EXCEPT !.active.stake = @ + new_stake - old,
                            !.active.amount = @ + new_stake - old]
             tally == [i \in RewardIndex |-> IF i \in InitialisedRewards(f)
                         THEN f.rewards[i].reward_per_share_scaled * new_stake
                         ELSE r.user.rewards_tally[i]]
             staked_at == IF StakeIncreases(s, new_stake) THEN e.ts ELSE r.user.last_stake_ts
             u == [r.user EXCEPT !.active_stake = new_stake, !.last_stake_ts = staked_at,
                                 !.rewards_tally = tally]
  <2>1. e.ts \in Nat /\ WithoutPrice(e) \in Environment
    BY DEF Environment, Price, WithoutPrice
  <2>2. RefreshRewardsOk(s, WithoutPrice(e))
    BY <1>2 DEF SetStakeOk
  <2>3. r \in Accounts /\ OnlyIssues(s.farm, r.farm)
    BY <2>1, <2>2, RefreshRewardsIssues
  <2>4. SetStake(s, new_stake, e) = [farm |-> g, user |-> u]
    BY <1>2 DEF SetStake
  <2> HIDE DEF r
  <2>5. r.farm \in FarmAccount /\ r.user \in UserAccount
    BY <2>3 DEF Accounts
  <2>6. f \in FarmAccount /\ f.active = s.farm.active /\ KeepsPromises(s.farm, f)
    BY <2>1, <2>3, <2>5, InitializeRewardTsIssues, KeepsPromisesTransitive DEF OnlyIssues
  <2>7. staked_at \in Nat
    BY <2>1, <2>5 DEF UserAccount
  <2> HIDE DEF f, staked_at
  <2>8. f.active.stake + new_stake - old \in Nat /\ f.active.amount + new_stake - old \in Nat
    BY <1>2, <2>6, FarmFields DEF SetStakeOk, DelegatedBooksBalance, Accounts, UserAccount
  <2>9. g \in FarmAccount
    BY <2>6, <2>8 DEF FarmAccount, Pool
  <2>10. KeepsPromises(s.farm, g)
    <3>1. g.rewards = f.rewards /\ g.num_reward_tokens = f.num_reward_tokens
      BY <2>6 DEF FarmAccount
    <3> QED BY <2>6, <3>1, SameRewardsKeepPromises, KeepsPromisesTransitive
  <2>11. tally \in [RewardIndex -> Nat]
    BY <2>5, <2>6, RewardFields DEF UserAccount
  <2> HIDE DEF tally
  <2>12. u \in UserAccount
    BY <2>5, <2>7, <2>11 DEF UserAccount
  <2> QED BY <2>4, <2>9, <2>10, <2>12 DEF Accounts
<1> QED BY <1>1, <1>2

(* What is added per share never exceeds what is issued. *)
LEMMA RefreshGlobalRewardSlack ==
  ASSUME NEW f \in FarmAccount, NEW r \in RewardInfo, NEW e \in Environment,
         RefreshGlobalRewardOk(f, r, e)
  PROVE  LET q == RefreshGlobalReward(f, r, e)
         IN  WAD * StakeScale * r.rewards_issued_unclaimed
               - f.active.stake * r.reward_per_share_scaled
             =< WAD * StakeScale * q.rewards_issued_unclaimed
                  - f.active.stake * q.reward_per_share_scaled
<1> DEFINE q == RefreshGlobalReward(f, r, e)
           a == IssuedAmount(f, r, e)
           p == PerShare(f, a)
           c == WAD * StakeScale
           stake == f.active.stake
<1>1. /\ c \in Nat /\ stake \in Nat
      /\ r.rewards_issued_unclaimed \in Nat /\ r.reward_per_share_scaled \in Nat
      /\ r.rewards_available \in Nat
  <2>1. WAD \in Nat /\ StakeScale \in Nat
    BY MathAssumption, StakeScalePositive
  <2> QED BY <2>1, FarmFields DEF RewardInfo
<1>2. CASE e.ts = r.last_issuance_ts \/ f.active.stake = 0 \/ IssuableAmount(f, r, e) = 0
  <2>1. /\ q.rewards_issued_unclaimed = r.rewards_issued_unclaimed
        /\ q.reward_per_share_scaled = r.reward_per_share_scaled
    BY <1>2 DEF RefreshGlobalReward, RewardInfo
  <2> HIDE DEF q, c, stake
  <2>2. c * r.rewards_issued_unclaimed \in Nat /\ stake * r.reward_per_share_scaled \in Nat
    BY <1>1
  <2>3. c * r.rewards_issued_unclaimed - stake * r.reward_per_share_scaled
          =< c * q.rewards_issued_unclaimed - stake * q.reward_per_share_scaled
    BY <2>1, <2>2
  <2> QED BY <2>3 DEF q, c, stake
<1>3. CASE ~(e.ts = r.last_issuance_ts \/ f.active.stake = 0 \/ IssuableAmount(f, r, e) = 0)
  <2>1. q = [ r EXCEPT !.last_issuance_ts = e.ts,
                       !.rewards_issued_unclaimed = @ + a,
                       !.rewards_issued_cumulative = @ + a,
                       !.rewards_available = @ - a,
                       !.reward_per_share_scaled = @ + p ]
    BY <1>3 DEF RefreshGlobalReward
  <2>2. a \in Nat
    BY <1>1, <1>3, IssuedAmountBound
  <2>3. p = (a * WAD * StakeScale) \div stake /\ stake \in Nat \ {0}
    BY <1>1, <1>3 DEF PerShare
  <2>4. a * WAD * StakeScale = c * a
    <3>1. WAD \in Nat /\ StakeScale \in Nat
      BY MathAssumption, StakeScalePositive
    <3> HIDE DEF a
    <3> QED BY <2>2, <3>1
  <2> HIDE DEF a, p
  <2>5. /\ q.rewards_issued_unclaimed = r.rewards_issued_unclaimed + a
        /\ q.reward_per_share_scaled = r.reward_per_share_scaled + p
    BY <2>1 DEF RewardInfo
  <2> HIDE DEF q, c, stake
  <2>6. p \in Nat /\ p * stake =< c * a
    <3> DEFINE n == c * a
    <3>1. n \in Nat /\ p = n \div stake
      BY <1>1, <2>2, <2>3, <2>4
    <3> HIDE DEF n
    <3> QED BY <2>3, <3>1 DEF n
  <2>7. /\ c * (r.rewards_issued_unclaimed + a) = c * r.rewards_issued_unclaimed + c * a
        /\ stake * (r.reward_per_share_scaled + p) = stake * r.reward_per_share_scaled + p * stake
    BY <1>1, <2>2, <2>6
  <2>8. /\ c * r.rewards_issued_unclaimed \in Nat /\ stake * r.reward_per_share_scaled \in Nat
        /\ c * a \in Nat /\ p * stake \in Nat
    BY <1>1, <2>2, <2>6
  <2>9. c * r.rewards_issued_unclaimed - stake * r.reward_per_share_scaled
          =< c * q.rewards_issued_unclaimed - stake * q.reward_per_share_scaled
    BY <2>5, <2>6, <2>7, <2>8
  <2> QED BY <2>9 DEF q, c, stake
<1> QED BY <1>2, <1>3

=============================================================================
