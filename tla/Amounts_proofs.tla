--------------------------- MODULE Amounts_proofs ---------------------------
(***************************************************************************)
(* What the proofs need to know of amounts: totals, the ledgers of which   *)
(* they are the supply, and the loan arithmetic, for all arguments.        *)
(***************************************************************************)
EXTENDS LoanMath, Ledger, Totals, FiniteSetTheorems, TLAPS

-----------------------------------------------------------------------------
(* Totals: their type, the total of nothing, how a total changes when one  *)
(* value of the function does, and totals of larger functions and of sums. *)

\* A value v contributes v units, none for 0.
LEMMA UnitsOfCount ==
    ASSUME NEW S, NEW f \in [S -> Nat], NEW x \in S
    PROVE  /\ IsFiniteSet(UnitsOf(f, x))
           /\ Cardinality(UnitsOf(f, x)) = f[x]
<1>1. IsFiniteSet({x}) /\ Cardinality({x}) = 1
  BY FS_Singleton
<1>2. f[x] \in Nat
  OBVIOUS
<1>3. IsFiniteSet(1..f[x]) /\ Cardinality(1..f[x]) = f[x]
  BY <1>2, FS_Interval
<1>4. /\ IsFiniteSet({x} \X (1..f[x]))
      /\ Cardinality({x} \X (1..f[x])) = 1 * f[x]
  BY <1>1, <1>3, FS_Product
<1> QED
  BY <1>2, <1>4 DEF UnitsOf

\* The units of finitely many values are finitely many.
LEMMA UnitsFinite ==
    ASSUME NEW S, NEW f \in [S -> Nat], NEW T \in SUBSET S, IsFiniteSet(T)
    PROVE  IsFiniteSet(Units(f, T))
<1> DEFINE image == {UnitsOf(f, x) : x \in T}
           g == [x \in T |-> UnitsOf(f, x)]
<1>1. g \in Surjection(T, image)
  BY DEF Surjection
<1>2. IsFiniteSet(image)
  BY <1>1, FS_Surjection
<1>3. \A U \in image : IsFiniteSet(U)
  BY UnitsOfCount
<1> QED
  BY <1>2, <1>3, FS_UNION DEF Units

\* A total is a natural number.
LEMMA TotalType ==
    ASSUME NEW S, IsFiniteSet(S), NEW f \in [S -> Nat]
    PROVE  Total(f) \in Nat
<1>1. DOMAIN f = S /\ S \in SUBSET S
  OBVIOUS
<1>2. IsFiniteSet(Units(f, S))
  BY <1>1, UnitsFinite
<1> QED
  BY <1>1, <1>2, FS_CardinalityType DEF Total

\* The total of zeros is zero.
LEMMA TotalZero ==
    ASSUME NEW S, NEW f \in [S -> Nat], \A x \in S : f[x] = 0
    PROVE  Total(f) = 0
<1>1. \A x \in S : UnitsOf(f, x) = {}
  BY DEF UnitsOf
<1>2. Units(f, S) = {}
  BY <1>1 DEF Units
<1> QED
  BY <1>2, FS_EmptySet DEF Total

\* A total is the contribution of one value and that of all the others.
LEMMA TotalSplit ==
    ASSUME NEW S, IsFiniteSet(S), NEW f \in [S -> Nat], NEW x \in S
    PROVE  /\ Cardinality(Units(f, S \ {x})) \in Nat
           /\ Total(f) = Cardinality(Units(f, S \ {x})) + f[x]
<1> DEFINE rest == Units(f, S \ {x})
<1>1. IsFiniteSet(S \ {x}) /\ S \ {x} \in SUBSET S
  BY FS_RemoveElement
<1>2. IsFiniteSet(rest)
  BY <1>1, UnitsFinite
<1>3. Cardinality(rest) \in Nat
  BY <1>2, FS_CardinalityType
<1>4. Units(f, S) = rest \cup UnitsOf(f, x)
  BY DEF Units
<1>5. rest \cap UnitsOf(f, x) = {}
  BY DEF Units, UnitsOf
<1>6. IsFiniteSet(UnitsOf(f, x)) /\ Cardinality(UnitsOf(f, x)) = f[x]
  BY UnitsOfCount
<1> HIDE DEF rest
<1>7. Cardinality(rest \cup UnitsOf(f, x)) =
        Cardinality(rest) + Cardinality(UnitsOf(f, x)) - Cardinality(rest \cap UnitsOf(f, x))
  BY <1>2, <1>6, FS_Union
<1>8. Cardinality(rest \cap UnitsOf(f, x)) = 0
  BY <1>5, FS_EmptySet
<1>9. f[x] \in Nat /\ DOMAIN f = S
  OBVIOUS
<1>10. Total(f) = Cardinality(rest \cup UnitsOf(f, x))
  BY <1>4, <1>9 DEF Total
<1>11. Total(f) = Cardinality(rest) + f[x]
  BY <1>3, <1>6, <1>7, <1>8, <1>9, <1>10
<1> QED
  BY <1>3, <1>11 DEF rest

\* Changing one value changes the total by the difference.
LEMMA TotalUpdate ==
    ASSUME NEW S, IsFiniteSet(S), NEW f \in [S -> Nat], NEW x \in S, NEW v \in Nat
    PROVE  Total([f EXCEPT ![x] = v]) = Total(f) - f[x] + v
<1> DEFINE g == [f EXCEPT ![x] = v]
<1>1. g \in [S -> Nat] /\ g[x] = v
  OBVIOUS
<1>2. \A y \in S \ {x} : UnitsOf(g, y) = UnitsOf(f, y)
  BY DEF UnitsOf
<1>3. Units(g, S \ {x}) = Units(f, S \ {x})
  BY <1>2 DEF Units
<1>4. Total(g) = Cardinality(Units(g, S \ {x})) + g[x]
  BY <1>1, TotalSplit
<1>5. /\ Cardinality(Units(f, S \ {x})) \in Nat
      /\ Total(f) = Cardinality(Units(f, S \ {x})) + f[x]
  BY TotalSplit
<1>6. f[x] \in Nat
  OBVIOUS
<1> QED
  BY <1>1, <1>3, <1>4, <1>5, <1>6

\* A total grows with the function.
LEMMA TotalMonotone ==
    ASSUME NEW S, IsFiniteSet(S), NEW f \in [S -> Nat], NEW g \in [S -> Nat],
           \A x \in S : f[x] <= g[x]
    PROVE  Total(f) <= Total(g)
<1>1. \A x \in S : UnitsOf(f, x) \subseteq UnitsOf(g, x)
  BY DEF UnitsOf
<1>2. Units(f, S) \subseteq Units(g, S)
  BY <1>1 DEF Units
<1>3. IsFiniteSet(Units(g, S))
  BY UnitsFinite
<1>4. Cardinality(Units(f, S)) <= Cardinality(Units(g, S))
  BY <1>2, <1>3, FS_Subset
<1> QED
  BY <1>4 DEF Total

\* A total is at most v for every value that is not 0, if v bounds the values.
LEMMA TotalAtMost ==
    ASSUME NEW S, NEW f \in [S -> Nat], NEW D \in SUBSET S, IsFiniteSet(D), NEW v \in Nat,
           \A x \in S : f[x] <= v,
           \A x \in S \ D : f[x] = 0
    PROVE  Total(f) <= Cardinality(D) * v
<1>1. IsFiniteSet(1..v) /\ Cardinality(1..v) = v
  BY FS_Interval
<1>2. /\ IsFiniteSet(D \X (1..v))
      /\ Cardinality(D \X (1..v)) = Cardinality(D) * v
  BY <1>1, FS_Product
<1>3. \A x \in S : UnitsOf(f, x) \subseteq D \X (1..v)
  <2>1. TAKE x \in S
  <2>2. CASE x \in D
    BY <2>2 DEF UnitsOf
  <2>3. CASE x \notin D
    BY <2>3 DEF UnitsOf
  <2> QED
    BY <2>2, <2>3
<1>4. Units(f, S) \subseteq D \X (1..v)
  BY <1>3 DEF Units
<1>5. Cardinality(Units(f, S)) <= Cardinality(D \X (1..v))
  BY <1>2, <1>4, FS_Subset
<1> QED
  BY <1>2, <1>5 DEF Total

\* The total of a sum is the sum of the totals: the units of h are those of f
\* and, behind them, those of g.
LEMMA TotalSum ==
    ASSUME NEW S, IsFiniteSet(S), NEW f \in [S -> Nat], NEW g \in [S -> Nat],
           NEW h \in [S -> Nat], \A x \in S : h[x] = f[x] + g[x]
    PROVE  Total(h) = Total(f) + Total(g)
<1> DEFINE F == Units(f, S)
           G == Units(g, S)
           behind == Units(h, S) \ F
           shift == [p \in G |-> <<p[1], f[p[1]] + p[2]>>]
<1>1. /\ IsFiniteSet(F) /\ Cardinality(F) \in Nat
      /\ IsFiniteSet(G) /\ Cardinality(G) \in Nat
  BY UnitsFinite, FS_CardinalityType
<1>2. F \subseteq Units(h, S)
  BY DEF Units, UnitsOf
<1>3. \A p : p \in G <=> p \in S \X Nat /\ 1 <= p[2] /\ p[2] <= g[p[1]]
  BY DEF Units, UnitsOf
<1>4. \A p : p \in behind <=>
          p \in S \X Nat /\ f[p[1]] + 1 <= p[2] /\ p[2] <= f[p[1]] + g[p[1]]
  BY DEF Units, UnitsOf
<1>5. shift \in Bijection(G, behind)
  <2>1. \A p \in G : shift[p] = <<p[1], f[p[1]] + p[2]>> /\ shift[p] \in behind
    BY <1>3, <1>4
  <2>2. \A p, q \in G : shift[p] = shift[q] => p = q
    BY <1>3, <2>1
  <2>3. ASSUME NEW q \in behind
        PROVE  \E p \in G : shift[p] = q
    <3>1. q \in S \X Nat /\ q[2] - f[q[1]] \in Nat
      BY <1>4
    <3>2. <<q[1], q[2] - f[q[1]]>> \in G
      BY <1>3, <1>4, <3>1
    <3> QED
      BY <2>1, <3>1, <3>2
  <2>4. shift \in [G -> behind]
    BY <2>1
  <2> HIDE DEF shift, G, behind
  <2> QED
    BY <2>2, <2>3, <2>4 DEF Bijection, Injection, IsInjective, Surjection
<1>6. IsFiniteSet(behind) /\ Cardinality(behind) = Cardinality(G)
  <2> HIDE DEF shift, G, behind
  <2>1. ExistsBijection(G, behind)
    BY <1>5 DEF ExistsBijection
  <2> QED
    BY <1>1, <2>1, FS_Bijection
<1>7. F \cap behind = {} /\ Units(h, S) = F \cup behind
  BY <1>2
<1> HIDE DEF F, G, behind
<1>8. Cardinality(F \cup behind) = Cardinality(F) + Cardinality(behind) - Cardinality(F \cap behind)
  BY <1>1, <1>6, FS_Union
<1>9. Cardinality(F \cap behind) = 0
  BY <1>7, FS_EmptySet
<1>10. Cardinality(Units(h, S)) = Cardinality(F) + Cardinality(G)
  BY <1>1, <1>6, <1>7, <1>8, <1>9
<1> QED
  BY <1>10 DEF Total, F, G

\* Shares of the values of h, of which at most one is not zero for each value,
\* add up to at most the total of h: every unit of a share is a unit of h.
LEMMA TotalOfTotals ==
    ASSUME NEW S, IsFiniteSet(S), NEW T, IsFiniteSet(T),
           NEW share \in [S -> [T -> Nat]], NEW h \in [T -> Nat],
           NEW sums \in [S -> Nat], \A s \in S : sums[s] = Total(share[s]),
           \A s \in S, t \in T : share[s][t] <= h[t],
           \A s1, s2 \in S, t \in T : share[s1][t] # 0 /\ share[s2][t] # 0 => s1 = s2
    PROVE  Total(sums) <= Total(h)
<1> DEFINE U(s) == Units(share[s], T)
           pick == [s \in S |-> CHOOSE b : b \in Injection(1..sums[s], U(s))]
           unit == [p \in Units(sums, S) |-> pick[p[1]][p[2]]]
<1>1. ASSUME NEW s \in S
      PROVE  /\ sums[s] \in Nat
             /\ pick[s] \in Injection(1..sums[s], U(s))
             /\ \A q \in U(s) : /\ q \in T \X Nat /\ q \in Units(h, T)
                                /\ share[s][q[1]] # 0
  <2>1. share[s] \in [T -> Nat] /\ sums[s] = Cardinality(U(s))
    BY DEF Total
  <2>2. IsFiniteSet(U(s))
    BY <2>1, UnitsFinite
  <2>3. sums[s] \in Nat /\ ExistsBijection(1..sums[s], U(s))
    BY <2>1, <2>2, FS_CardinalityType
  <2>4. \E b : b \in Injection(1..sums[s], U(s))
    BY <2>3 DEF ExistsBijection, Bijection
  <2>5. pick[s] \in Injection(1..sums[s], U(s))
    BY <2>4
  <2>6. \A t \in T : share[s][t] \in Nat /\ h[t] \in Nat /\ share[s][t] <= h[t]
    BY <2>1
  <2>7. ASSUME NEW q \in U(s)
        PROVE  /\ q \in T \X Nat /\ q \in Units(h, T)
               /\ share[s][q[1]] # 0
    BY <2>6 DEF Units, UnitsOf
  <2> QED
    BY <2>3, <2>5, <2>7
<1>2. \A p \in Units(sums, S) : p \in S \X Nat /\ p[2] \in 1..sums[p[1]]
  BY <1>1 DEF Units, UnitsOf
<1>3. \A p \in Units(sums, S) : unit[p] = pick[p[1]][p[2]] /\ unit[p] \in U(p[1])
  BY <1>1, <1>2 DEF Injection
<1> HIDE DEF U, pick, unit
<1>4. unit \in Injection(Units(sums, S), Units(h, T))
  <2>1. ASSUME NEW p \in Units(sums, S), NEW q \in Units(sums, S), unit[p] = unit[q]
        PROVE  p = q
    <3>1. share[p[1]][unit[p][1]] # 0 /\ share[q[1]][unit[p][1]] # 0 /\ unit[p][1] \in T
      BY <1>1, <1>2, <1>3, <2>1
    <3>2. p[1] = q[1] /\ p[1] \in S
      BY <1>2, <3>1
    <3>3. pick[p[1]][p[2]] = pick[p[1]][q[2]] /\ p[2] \in 1..sums[p[1]] /\ q[2] \in 1..sums[p[1]]
      BY <1>2, <1>3, <2>1, <3>2
    <3>4. p[2] = q[2]
      BY <1>1, <3>2, <3>3 DEF Injection, IsInjective
    <3> QED
      BY <1>2, <3>2, <3>4
  <2>2. \A p \in Units(sums, S) : unit[p] \in Units(h, T)
    BY <1>1, <1>2, <1>3
  <2>3. unit \in [Units(sums, S) -> Units(h, T)]
    BY <2>2 DEF unit
  <2> QED
    BY <2>1, <2>3 DEF Injection, IsInjective
<1>5. IsFiniteSet(Units(h, T))
  BY UnitsFinite
<1>6. Cardinality(Units(sums, S)) <= Cardinality(Units(h, T))
  BY <1>4, <1>5, FS_Injection
<1> QED
  BY <1>6 DEF Total

-----------------------------------------------------------------------------
(* Ledgers: what a call to the token program does to one, and to its supply *)

\* Minting adds to the supply.
LEMMA MintToLedger ==
    ASSUME NEW H, NEW l \in [H -> Nat], NEW h \in H, NEW x \in Nat
    PROVE  /\ MintTo(l, h, x) \in [H -> Nat]
           /\ IsFiniteSet(H) => Total(MintTo(l, h, x)) = Total(l) + x
<1>1. MintTo(l, h, x) = [l EXCEPT ![h] = l[h] + x] /\ l[h] \in Nat
  BY DEF MintTo
<1>2. ASSUME IsFiniteSet(H)
      PROVE  Total(MintTo(l, h, x)) = Total(l) + x
  <2> DEFINE v == l[h] + x
  <2>0. v \in Nat
    BY <1>1
  <2> HIDE DEF v
  <2>1. Total([l EXCEPT ![h] = v]) = Total(l) - l[h] + v
    BY <1>2, <2>0, TotalUpdate
  <2>2. Total(l) \in Nat
    BY <1>2, TotalType
  <2> QED
    BY <1>1, <2>1, <2>2 DEF v
<1> QED
  BY <1>1, <1>2

\* Burning what the holder has takes it from the supply.
LEMMA BurnLedger ==
    ASSUME NEW H, NEW l \in [H -> Nat], NEW h \in H, NEW x \in Nat, CanPay(l, h, x)
    PROVE  /\ Burn(l, h, x) \in [H -> Nat]
           /\ IsFiniteSet(H) => Total(Burn(l, h, x)) = Total(l) - x
<1>1. /\ Burn(l, h, x) = [l EXCEPT ![h] = l[h] - x]
      /\ l[h] \in Nat /\ l[h] - x \in Nat
  BY DEF Burn, CanPay
<1>2. ASSUME IsFiniteSet(H)
      PROVE  Total(Burn(l, h, x)) = Total(l) - x
  <2> DEFINE v == l[h] - x
  <2>0. v \in Nat
    BY <1>1
  <2> HIDE DEF v
  <2>1. Total([l EXCEPT ![h] = v]) = Total(l) - l[h] + v
    BY <1>2, <2>0, TotalUpdate
  <2>2. Total(l) \in Nat
    BY <1>2, TotalType
  <2> QED
    BY <1>1, <2>1, <2>2 DEF v
<1> QED
  BY <1>1, <1>2

\* A transfer leaves the supply as it is.
LEMMA TransferLedger ==
    ASSUME NEW H, NEW l \in [H -> Nat], NEW from \in H, NEW to \in H, NEW x \in Nat,
           CanPay(l, from, x)
    PROVE  /\ Transfer(l, from, to, x) \in [H -> Nat]
           /\ IsFiniteSet(H) => Total(Transfer(l, from, to, x)) = Total(l)
<1>1. /\ Burn(l, from, x) \in [H -> Nat]
      /\ IsFiniteSet(H) => Total(Burn(l, from, x)) = Total(l) - x
  BY BurnLedger
<1>2. /\ Transfer(l, from, to, x) \in [H -> Nat]
      /\ IsFiniteSet(H)
             => Total(Transfer(l, from, to, x)) = Total(Burn(l, from, x)) + x
  BY <1>1, MintToLedger DEF Transfer
<1>3. IsFiniteSet(H) => Total(l) \in Nat
  BY TotalType
<1> QED
  BY <1>1, <1>2, <1>3

-----------------------------------------------------------------------------
(* The loan arithmetic: bounds on its results *)

\* Division rounds down.
LEMMA DivBounds ==
    ASSUME NEW a \in Nat, NEW b \in Nat \ {0}
    PROVE  a \div b \in Nat /\ (a \div b) * b <= a /\ a < (a \div b + 1) * b
OBVIOUS

\* Multiplication preserves the order.
LEMMA ProductMonotone ==
    ASSUME NEW a \in Nat, NEW b \in Nat, NEW c \in Nat, a <= b
    PROVE  a * c <= b * c
OBVIOUS

\* A quotient is bounded by what bounds the dividend in multiples of b.
LEMMA DivAtMost ==
    ASSUME NEW a \in Nat, NEW b \in Nat \ {0}, NEW c \in Nat, a <= c * b
    PROVE  a \div b <= c
OBVIOUS

\* A share b of c of an amount t is at most t.
LEMMA ShareBounded ==
    ASSUME NEW t \in Nat, NEW c \in Nat \ {0}, NEW b \in 0..c
    PROVE  (t * b) \div c \in Nat /\ (t * b) \div c <= t
<1>1. t * b \in Nat /\ t * b <= t * c
  OBVIOUS
<1> QED
  BY <1>1, DivBounds, DivAtMost

\* There is at least one basis point in a whole.
LEMMA BasisPointsType == MAX_BASIS_POINTS \in Nat \ {0}
BY DEF MAX_BASIS_POINTS

\* The types of the constants, without the products that bound them.
LEMMA ConstantsType ==
    /\ LAMPORTS_PER_DROPLET \in Nat \ {0}
    /\ DROPLETS_PER_NFT \in Nat \ {0, 1}
    /\ MAX_INTEREST_SCALER \in Nat \ {0}
    /\ LIQUIDATION_REWARD_PERCENTAGE \in 0..DROPLETS_PER_NFT
    /\ REDEEM_FEE_BASIS_POINTS \in 0..MAX_BASIS_POINTS
    /\ SWAP_FEE_BASIS_POINTS \in 0..MAX_BASIS_POINTS
    /\ DISTRIBUTOR_FEE_BASIS_POINTS \in 0..MAX_BASIS_POINTS
    /\ U64_MAX \in Nat
    /\ U16_MAX \in Nat
BY ConstantsAssumption, Zenon DEF ConstantsAssumption

\* The value of an NFT is positive.
LEMMA NftValueType == NFT_VALUE \in Nat \ {0}
BY ConstantsType DEF NFT_VALUE

-----------------------------------------------------------------------------
\* The numerator and the denominator of the interest are natural numbers.
LEMMA QuotientType ==
    ASSUME NEW a \in CalculateLoanArgs
    PROVE  Numerator(a) \in Nat /\ Denominator(a) \in Nat
<1>1. /\ a.max_locker_duration \in Nat /\ a.locker_duration \in Nat
      /\ a.num_nfts_in_bucket + a.num_nfts_in_lockers \in Nat
      /\ a.num_nfts_in_lockers \in Nat
  BY DEF CalculateLoanArgs
<1>2. \A i, j \in Nat : i * j \in Nat
  OBVIOUS
<1>3. NFT_VALUE \in Nat
  BY NftValueType
<1>4. a.locker_duration * a.num_nfts_in_lockers \in Nat
  BY <1>1, <1>2
<1> QED
  BY <1>1, <1>2, <1>3, <1>4 DEF Numerator, Denominator

\* calculate_loan, when it does not panic, returns natural numbers.
LEMMA LoanType ==
    ASSUME NEW a \in CalculateLoanArgs, LoanDefined(a)
    PROVE  /\ RawInterest(a) \in Nat
           /\ CalculateLoan(a).principal_amount \in Nat
           /\ CalculateLoan(a).principal_amount = NFT_VALUE - RawInterest(a)
           /\ CalculateLoan(a).max_interest_payable \in Nat
<1>1. Numerator(a) \in Nat /\ Denominator(a) \in Nat \ {0}
  BY QuotientType DEF LoanDefined
<1>2. Numerator(a) + (Denominator(a) - 1) \in Nat
  BY <1>1
<1>3. RawInterest(a) \in Nat
  BY <1>1, <1>2, DivBounds DEF RawInterest
<1>4. a.interest_scaler \in Nat /\ MAX_INTEREST_SCALER \in Nat \ {0}
  BY ConstantsType DEF CalculateLoanArgs
<1>5. RawInterest(a) * a.interest_scaler \in Nat
  BY <1>3, <1>4
<1>6. ScaledInterest(a) \in Nat
  BY <1>4, <1>5, DivBounds DEF ScaledInterest
<1>7. RawInterest(a) <= NFT_VALUE /\ NFT_VALUE \in Nat
  BY NftValueType DEF LoanDefined
<1> QED
  BY <1>3, <1>6, <1>7 DEF CalculateLoan

\* With a scaler of at most 100 percent, principal and interest together are
\* at most the value of an NFT.
THEOREM LoanBounded ==
    ASSUME NEW a \in CalculateLoanArgs, LoanDefined(a),
           a.interest_scaler <= MAX_INTEREST_SCALER
    PROVE  CalculateLoan(a).principal_amount + CalculateLoan(a).max_interest_payable
               <= NFT_VALUE
<1>1. RawInterest(a) \in Nat /\ RawInterest(a) <= NFT_VALUE /\ NFT_VALUE \in Nat
  BY LoanType, NftValueType DEF LoanDefined
<1>2. a.interest_scaler \in 0..MAX_INTEREST_SCALER /\ MAX_INTEREST_SCALER \in Nat \ {0}
  BY ConstantsType DEF CalculateLoanArgs
<1>3. ScaledInterest(a) \in Nat /\ ScaledInterest(a) <= RawInterest(a)
  BY <1>1, <1>2, ShareBounded DEF ScaledInterest
<1> QED
  BY <1>1, <1>3 DEF CalculateLoan

\* A loan that calculate_loan accepts is short enough for the interest on it
\* to be computed at any time: its duration times the value of an NFT fits.
LEMMA LoanDurationBounded ==
    ASSUME NEW a \in CalculateLoanArgs, LoanDefined(a), a.num_nfts_in_lockers >= 1
    PROVE  a.locker_duration * NFT_VALUE <= U64_MAX
<1> DEFINE d == a.locker_duration
           y == a.num_nfts_in_lockers
<1>1. d \in Nat /\ y \in Nat /\ 1 <= y /\ NFT_VALUE \in Nat
  BY NftValueType DEF CalculateLoanArgs
<1>2. (d * y) * NFT_VALUE <= U64_MAX /\ U64_MAX \in Nat
  BY ConstantsType DEF LoanDefined, Numerator
<1> HIDE DEF d, y
<1>3. d <= d * y /\ d * y \in Nat
  BY <1>1
<1>4. d * NFT_VALUE <= (d * y) * NFT_VALUE
  BY <1>1, <1>3, ProductMonotone
<1>5. d * NFT_VALUE \in Nat /\ (d * y) * NFT_VALUE \in Nat
  BY <1>1, <1>3
<1>6. d * NFT_VALUE <= U64_MAX
  BY <1>2, <1>4, <1>5
<1> QED
  BY <1>6 DEF d

\* Until the loan expires the interest is at most the maximum quoted, and the
\* product it is computed from does not overflow.
LEMMA InterestBounded ==
    ASSUME NEW i \in Nat, NEW d \in Nat \ {0}, NEW e \in Nat,
           e <= d, i <= NFT_VALUE, d * NFT_VALUE <= U64_MAX
    PROVE  Interest(i, d, e) \in Nat /\ Interest(i, d, e) <= i /\ InterestDefined(i, d, e)
<1>1. e * i \in Nat /\ d * i \in Nat /\ NFT_VALUE \in Nat /\ U64_MAX \in Nat
  BY NftValueType, ConstantsType
<1>2. e * i <= d * i
  BY ProductMonotone
<1>3. d * i <= d * NFT_VALUE /\ d * NFT_VALUE \in Nat
  BY <1>1
<1>4. e * i <= U64_MAX
  BY <1>1, <1>2, <1>3
<1>5. e * i <= i * d
  BY <1>1, <1>2
<1>6. Interest(i, d, e) \in Nat /\ Interest(i, d, e) <= i
  BY <1>1, <1>5, DivBounds, DivAtMost DEF Interest
<1> QED
  BY <1>4, <1>6 DEF InterestDefined

\* A liquidation mints exactly the value that the loan did not, in two parts,
\* and none of its operations overflows.
THEOREM LiquidationSplit ==
    ASSUME NEW p \in Nat, p <= NFT_VALUE
    PROVE  /\ LiquidationReward(p) \in Nat
           /\ ToStoreInVault(p) \in Nat
           /\ ToStoreInVault(p) + LiquidationReward(p) = NFT_VALUE - p
           /\ LiquidationDefined(p)
<1> DEFINE q == DropletsToMint(p)
           r == LIQUIDATION_REWARD_PERCENTAGE
           n == DROPLETS_PER_NFT
<1>1. q \in Nat /\ q = NFT_VALUE - p /\ q <= NFT_VALUE /\ NFT_VALUE \in Nat
  BY NftValueType DEF DropletsToMint
<1>2. /\ r \in Nat /\ n \in Nat \ {0} /\ r <= n
      /\ NFT_VALUE * n <= U64_MAX /\ U64_MAX \in Nat
  <2>1. NFT_VALUE * n <= U64_MAX
    BY ConstantsAssumption, Zenon DEF ConstantsAssumption
  <2> QED
    BY <2>1, ConstantsType
<1> HIDE DEF q, r, n
<1>3. q * r \in Nat /\ q * n \in Nat /\ NFT_VALUE * n \in Nat
  BY <1>1, <1>2
<1>4. q * r <= q * n
  BY <1>1, <1>2, <1>3
<1>5. q * n <= NFT_VALUE * n
  BY <1>1, <1>2, ProductMonotone
<1>6. (q * r) \div n \in Nat /\ (q * r) \div n <= q
  BY <1>1, <1>2, ShareBounded
<1>7. LiquidationReward(p) = (q * r) \div n /\ ToStoreInVault(p) = q - LiquidationReward(p)
  BY DEF LiquidationReward, ToStoreInVault, q, r, n
<1>8. q * r <= U64_MAX
  BY <1>2, <1>3, <1>4, <1>5
<1>9. LiquidationDefined(p)
  BY <1>6, <1>7, <1>8 DEF LiquidationDefined, q, r, n
<1> QED
  BY <1>1, <1>6, <1>7, <1>9

\* The fees of a redemption or a swap are natural numbers.
LEMMA FeesType ==
    ASSUME NEW swap \in BOOLEAN
    PROVE  DistributorFee(swap) \in Nat /\ TreasuryFee(swap) \in Nat
<1>1. FeeBasisPoints(swap) \in Nat /\ DISTRIBUTOR_FEE_BASIS_POINTS \in 0..MAX_BASIS_POINTS
  BY ConstantsType DEF FeeBasisPoints
<1>2. NFT_VALUE * FeeBasisPoints(swap) \in Nat
  BY <1>1, NftValueType
<1>3. TotalFee(swap) \in Nat
  BY <1>2, BasisPointsType, DivBounds DEF TotalFee
<1>4. DistributorFee(swap) \in Nat /\ DistributorFee(swap) <= TotalFee(swap)
  BY <1>1, <1>3, BasisPointsType, ShareBounded DEF DistributorFee
<1> QED
  BY <1>3, <1>4 DEF TreasuryFee
=============================================================================
