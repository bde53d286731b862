-------------------------- MODULE Solvency_proofs ---------------------------
(***************************************************************************)
(* The debts of the lockers and the solvency of the protocol, for every    *)
(* value of the constants.                                                 *)
(***************************************************************************)
EXTENDS Solvent_proofs

-----------------------------------------------------------------------------
(* RepaymentBounded and Settleable are not inductive: what they say of a   *)
(* locker follows from the terms it was given, and those from the range of *)
(* the bucket's scaler when it was locked.                                 *)

SoundLoan(locker) ==
    /\ locker.principal_amount + locker.max_interest_payable <= NFT_VALUE
    /\ locker.duration * NFT_VALUE <= U64_MAX

LoansInv ==
    /\ \A m \in Droplets : bucket[m].interest_scaler <= MAX_INTEREST_SCALER
    /\ \A m \in Droplets, n \in Nfts :
           HasLocker(m, n) => /\ SoundLoan(locker_state[m][n])
                              /\ locker_state[m][n].creation_timestamp <= now

\* A step that keeps the scalers in range and opens only sound lockers keeps
\* all loans sound.
LEMMA LoansKept ==
    ASSUME AccountsTypeOK, LoansInv, AccountsTypeOK',
           \A m \in Droplets : bucket'[m].interest_scaler <= MAX_INTEREST_SCALER,
           now' = now \/ now' = now + 1,
           \A m \in Droplets, n \in Nfts :
               \/ locker_state'[m][n] = locker_state[m][n]
               \/ locker_state'[m][n] = NoLocker
               \/ /\ SoundLoan(locker_state'[m][n])
                  /\ locker_state'[m][n].creation_timestamp <= now'
    PROVE  LoansInv'
<1>1. ASSUME NEW m \in Droplets, NEW n \in Nfts, HasLocker(m, n)'
      PROVE  /\ SoundLoan(locker_state'[m][n])
             /\ locker_state'[m][n].creation_timestamp <= now'
  <2>1. CASE locker_state'[m][n] = locker_state[m][n]
    <3>1. HasLocker(m, n) /\ locker_state[m][n] \in Locker
      BY <1>1, <2>1 DEF HasLocker, AccountsTypeOK
    <3>2. locker_state[m][n].creation_timestamp \in Nat /\ now \in Nat
      BY <3>1, StateAssumption DEF Locker, AccountsTypeOK, StateAssumption
    <3>3. /\ SoundLoan(locker_state[m][n])
          /\ locker_state[m][n].creation_timestamp <= now
      BY <3>1 DEF LoansInv
    <3> QED
      BY <2>1, <3>2, <3>3
  <2> QED
    BY <1>1, <2>1 DEF HasLocker
<1> QED
  BY <1>1 DEF LoansInv, SoundLoan

\* The terms of a new locker are sound.
LEMMA NewLoanSound ==
    ASSUME AccountsTypeOK, LoansInv, NEW m \in Droplets, NEW u \in Users, NEW d \in Nat,
           LoanDefined(LoanArgs(m, d))
    PROVE  SoundLoan(NewLocker(m, u, d))
<1> DEFINE a == LoanArgs(m, d)
<1>1. a \in CalculateLoanArgs
  BY NewLockerType
<1>2. /\ a.interest_scaler <= MAX_INTEREST_SCALER
      /\ a.num_nfts_in_lockers >= 1 /\ a.locker_duration = d
  BY DEF LoanArgs, LoansInv, AccountsTypeOK, Bucket
<1> HIDE DEF a
<1>3. /\ CalculateLoan(a).principal_amount + CalculateLoan(a).max_interest_payable
             <= NFT_VALUE
      /\ d * NFT_VALUE <= U64_MAX
  BY <1>1, <1>2, LoanBounded, LoanDurationBounded DEF a
<1> QED
  BY <1>3 DEF NewLocker, SoundLoan, a

\* The administrator's settings keep the scalers in range.
LEMMA ScalersKept ==
    ASSUME AccountsTypeOK, LoansInv, NEW m \in Droplets, BucketStep(m) \/ LockerStep(m)
    PROVE  \A b \in Droplets : bucket'[b].interest_scaler <= MAX_INTEREST_SCALER
<1>1. /\ \A b \in Droplets : bucket[b].interest_scaler <= MAX_INTEREST_SCALER
      /\ bucket \in [Droplets -> Bucket]
      /\ 0 <= MAX_INTEREST_SCALER
  BY ConstantsType DEF LoansInv, AccountsTypeOK
<1>2. CASE \E c \in Collections : CreateBucket(m, c)
  BY <1>1, <1>2 DEF CreateBucket, NewBucket
<1>3. CASE \E supplied \in SUBSET {"scaler", "duration"}, s \in Scalers,
              d \in MaxDurations : UpdateLockingParams(m, supplied, s, d)
  <2>1. PICK supplied \in SUBSET {"scaler", "duration"}, s \in Scalers,
             d \in MaxDurations : UpdateLockingParams(m, supplied, s, d)
    BY <1>3
  <2> DEFINE i == IF "scaler" \in supplied THEN s ELSE bucket[m].interest_scaler
             j == IF "duration" \in supplied THEN d ELSE bucket[m].max_locker_duration
  <2>2. bucket' = [bucket EXCEPT ![m].interest_scaler = i, ![m].max_locker_duration = j]
    BY <2>1 DEF UpdateLockingParams
  <2>3. i <= MAX_INTEREST_SCALER
    BY <1>1, <2>1 DEF UpdateLockingParams, ScalerValid
  <2> HIDE DEF i, j
  <2> QED
    BY <1>1, <2>2, <2>3 DEF Bucket
<1>4. CASE \A b \in Droplets : bucket'[b].interest_scaler = bucket[b].interest_scaler
  BY <1>1, <1>4
<1>5. ASSUME NEW c \in Collections, UpdateCollectionInfo(m, c)
      PROVE  \A b \in Droplets : bucket'[b].interest_scaler = bucket[b].interest_scaler
  BY <1>1, <1>5 DEF UpdateCollectionInfo, Bucket
<1>6. ASSUME NEW flag \in BOOLEAN, SetLockingEnabled(m, flag)
      PROVE  \A b \in Droplets : bucket'[b].interest_scaler = bucket[b].interest_scaler
  BY <1>1, <1>6 DEF SetLockingEnabled, Bucket
<1>7. ASSUME NEW n \in Nfts, NEW u \in Users,
             \/ \E swap \in BOOLEAN, dest \in Recipients : DepositNft(m, n, u, swap, dest)
             \/ \E swap \in BOOLEAN, distributor \in Recipients, to \in Users :
                    RedeemNft(m, n, u, swap, distributor, to)
      PROVE  \A b \in Droplets : bucket'[b].interest_scaler = bucket[b].interest_scaler
  BY <1>1, <1>7 DEF DepositNft, RedeemNft, Bucket
<1>8. ASSUME NEW n \in Nfts, NEW u \in Users,
             \/ \E d \in LockDurations, dest \in Recipients : LockNft(m, n, u, d, dest)
             \/ \E to \in Users : UnlockNft(m, n, u, to)
      PROVE  \A b \in Droplets : bucket'[b].interest_scaler = bucket[b].interest_scaler
  BY <1>1, <1>8 DEF LockNft, UnlockNft, Bucket
<1>9. ASSUME NEW n \in Nfts, NEW dest \in Recipients, LiquidateLocker(m, n, dest)
      PROVE  \A b \in Droplets : bucket'[b].interest_scaler = bucket[b].interest_scaler
  BY <1>1, <1>9 DEF LiquidateLocker, LiquidatedCounters, Bucket
<1> QED
  BY <1>2, <1>3, <1>4, <1>5, <1>6, <1>7, <1>8, <1>9 DEF BucketStep, LockerStep

\* Every step keeps the loans sound.
LEMMA NextLoans == AccountsTypeOK /\ LoansInv /\ [Next]_vars => LoansInv'
<1> SUFFICES ASSUME AccountsTypeOK, LoansInv, [Next]_vars PROVE LoansInv'
  OBVIOUS
<1>1. AccountsTypeOK'
  BY NextType
<1>2. CASE Tick \/ WalletStep \/ UNCHANGED vars
  BY <1>1, <1>2, LoansKept
     DEF Tick, WalletStep, SplTransfer, SplBurn, NftTransfer, vars, LoansInv
<1>3. ASSUME NEW m \in Droplets, BucketStep(m)
      PROVE  LoansInv'
  <2>1. UNCHANGED <<locker_state, now>>
    BY <1>3 DEF BucketStep, CreateBucket, UpdateCollectionInfo, DepositNft, RedeemNft
  <2> QED
    BY <1>1, <1>3, <2>1, ScalersKept, LoansKept
<1>4. ASSUME NEW m \in Droplets, LockerStep(m)
      PROVE  LoansInv'
  <2>1. UNCHANGED now
    BY <1>4 DEF LockerStep, SetLockingEnabled, UpdateLockingParams, LockNft, UnlockNft,
                LiquidateLocker
  <2>2. ASSUME NEW n \in Nfts, NEW u \in Users, NEW d \in LockDurations,
               NEW dest \in Recipients, LockNft(m, n, u, d, dest)
        PROVE  LoansInv'
    <3>1. d \in Nat
      BY BoundsAssumption DEF BoundsAssumption
    <3>2. SoundLoan(NewLocker(m, u, d))
      BY <2>2, <3>1, NewLoanSound DEF LockNft
    <3>3. NewLocker(m, u, d).creation_timestamp <= now'
      BY <2>1, StateAssumption DEF NewLocker, AccountsTypeOK, StateAssumption
    <3>4. locker_state' = [locker_state EXCEPT ![m][n] = NewLocker(m, u, d)]
      BY <2>2 DEF LockNft
    <3>5. \A b \in Droplets, k \in Nfts :
              \/ locker_state'[b][k] = locker_state[b][k]
              \/ locker_state'[b][k] = NewLocker(m, u, d)
      BY <3>4 DEF AccountsTypeOK
    <3> QED
      BY <1>1, <1>4, <2>1, <3>2, <3>3, <3>5, ScalersKept, LoansKept
  <2>3. ASSUME NEW n \in Nfts, CloseLocker(m, n) PROVE LoansInv'
    <3>1. \A b \in Droplets, k \in Nfts :
              \/ locker_state'[b][k] = locker_state[b][k]
              \/ locker_state'[b][k] = NoLocker
      BY <2>3 DEF CloseLocker, AccountsTypeOK
    <3> QED
      BY <1>1, <1>4, <2>1, <3>1, ScalersKept, LoansKept
  <2>4. CASE UNCHANGED locker_state
    BY <1>1, <1>4, <2>1, <2>4, ScalersKept, LoansKept
  <2> QED
    BY <1>4, <2>2, <2>3, <2>4
       DEF LockerStep, SetLockingEnabled, UpdateLockingParams, UnlockNft, LiquidateLocker
<1> QED
  BY <1>2, <1>3, <1>4 DEF Next

\* There are no loans at first, and the scalers are 0.
LEMMA InitLoans == Init => LoansInv
BY ConstantsType DEF Init, NewBucket, LoansInv, HasLocker

\* In every reachable state all loans are sound.
LEMMA LoansSound == Spec => []LoansInv
<1>1. Init => LoansInv
  BY InitLoans
<1>2. AccountsTypeOK /\ LoansInv /\ [Next]_vars => LoansInv'
  BY NextLoans
<1> QED
  BY <1>1, <1>2, AccountsTypeCorrect, PTL DEF Spec

\* A sound loan can be repaid until it expires, for no more interest than
\* quoted, and liquidated afterwards.
LEMMA SoundLoanSettles ==
    ASSUME AccountsTypeOK, LoansInv, NEW m \in Droplets, NEW n \in Nfts, HasLocker(m, n)
    PROVE  LET locker == locker_state[m][n]
           IN  /\ locker.principal_amount + locker.max_interest_payable <= NFT_VALUE
               /\ Expiry(locker) <= U64_MAX
               /\ now <= Expiry(locker) /\ locker.duration > 0
                      => /\ InterestDue(locker) <= locker.max_interest_payable
                         /\ InterestDueDefined(locker)
               /\ LiquidationDefined(locker.principal_amount)
<1> DEFINE locker == locker_state[m][n]
           p == locker.principal_amount
           i == locker.max_interest_payable
           d == locker.duration
           t == locker.creation_timestamp
<1>1. locker \in Locker
  BY DEF HasLocker, AccountsTypeOK
<1>2. p \in Nat /\ i \in Nat /\ d \in Nat /\ t \in Nat
  BY <1>1 DEF Locker
<1>3. p + i <= NFT_VALUE /\ d * NFT_VALUE <= U64_MAX /\ t <= now
  BY DEF LoansInv, SoundLoan
<1>4. /\ now \in Nat /\ now <= MAX_TIME /\ 2 * MAX_TIME <= U64_MAX
      /\ MAX_TIME \in Nat /\ U64_MAX \in Nat
  BY StateAssumption, ConstantsType DEF AccountsTypeOK, StateAssumption
<1>5. NFT_VALUE \in Nat /\ 2 <= NFT_VALUE
  BY NftValueType, ConstantsType DEF NFT_VALUE
<1>6. InterestDue(locker) = Interest(i, d, now - t)
      /\ InterestDueDefined(locker) = InterestDefined(i, d, now - t)
      /\ Expiry(locker) = t + d
  BY DEF InterestDue, InterestDueDefined, Expiry
<1> HIDE DEF locker, p, i, d, t
<1>7. t + d <= U64_MAX
  <2>1. 2 * d <= NFT_VALUE * d
    BY <1>2, <1>5, ProductMonotone
  <2>2. 2 * d <= U64_MAX
    BY <1>2, <1>3, <1>4, <1>5, <2>1
  <2> QED
    BY <1>2, <1>3, <1>4, <2>2
<1>8. ASSUME now <= t + d, d > 0
      PROVE  Interest(i, d, now - t) <= i /\ InterestDefined(i, d, now - t)
  <2>1. now - t \in Nat /\ now - t <= d /\ d \in Nat \ {0} /\ i <= NFT_VALUE
    BY <1>2, <1>3, <1>4, <1>5, <1>8
  <2> QED
    BY <1>2, <1>3, <2>1, InterestBounded
<1>9. LiquidationDefined(p)
  <2>1. p <= NFT_VALUE
    BY <1>2, <1>3, <1>5
  <2> QED
    BY <1>2, <2>1, LiquidationSplit
<1> QED
  BY <1>3, <1>6, <1>7, <1>8, <1>9 DEF locker, p, i, d

\* In every reachable state a depositor owes at most the value of one NFT and
\* at most the interest quoted.
THEOREM RepaymentBoundedHolds == Spec => []RepaymentBounded
<1>1. AccountsTypeOK /\ LoansInv => RepaymentBounded
  BY SoundLoanSettles DEF RepaymentBounded
<1> QED
  BY <1>1, AccountsTypeCorrect, LoansSound, PTL

\* In every reachable state no locker is stuck by an overflow.
THEOREM SettleableHolds == Spec => []Settleable
<1>1. AccountsTypeOK /\ LoansInv => Settleable
  BY SoundLoanSettles DEF Settleable
<1> QED
  BY <1>1, AccountsTypeCorrect, LoansSound, PTL

-----------------------------------------------------------------------------
(* Solvency is inductive relative to the types and to RecordsApart, by     *)
(* which an NFT deposited or locked backed nothing before.  What a step    *)
(* keeps is stated per bucket and without supposing that the bucket is     *)
(* solvent, as one under migration is not.                                 *)

\* The step leaves the bucket no less covered: its droplets and claims grow by
\* at most what its NFTs back in addition.
NoLessCovered(m) ==
    Supply(m)' + Total(Claims(m)') + Total(Backing(m)) <=
        Supply(m) + Total(Claims(m)) + Total(Backing(m)')

\* The totals of a bucket are natural numbers.
LEMMA TotalsType ==
    ASSUME AccountsTypeOK, NEW m \in Droplets
    PROVE  /\ Supply(m) \in Nat
           /\ Claims(m) \in [Users -> Nat] /\ Total(Claims(m)) \in Nat
           /\ Backing(m) \in [Nfts -> Nat] /\ Total(Backing(m)) \in Nat
<1>1. Supply(m) \in Nat
  BY HoldersFinite, TotalType DEF Supply, AccountsTypeOK
<1>2. Claims(m) \in [Users -> Nat]
  BY NftValueType DEF Claims
<1>3. Backing(m) \in [Nfts -> Nat]
  BY NftValueType DEF Backing, AccountsTypeOK, HasLocker, Locker
<1> QED
  BY <1>1, <1>2, <1>3, StateAssumption, TotalType DEF StateAssumption

\* Writing one flag changes the claims by that of its user.
LEMMA ClaimsUpdate ==
    ASSUME AccountsTypeOK, NEW m \in Droplets, NEW u \in Users, NEW flag \in BOOLEAN,
           swap_state' = [swap_state EXCEPT ![m][u] = flag]
    PROVE  /\ Total(Claims(m)') =
                  Total(Claims(m)) - Claims(m)[u] + (IF flag THEN NFT_VALUE ELSE 0)
           /\ \A b \in Droplets \ {m} : Claims(b)' = Claims(b)
<1> DEFINE v == IF flag THEN NFT_VALUE ELSE 0
<1>1. v \in Nat
  BY NftValueType
<1>2. Claims(m)' = [Claims(m) EXCEPT ![u] = v]
  BY DEF Claims, AccountsTypeOK
<1>3. Claims(m) \in [Users -> Nat] /\ IsFiniteSet(Users)
  BY TotalsType, StateAssumption DEF StateAssumption
<1> HIDE DEF v
<1>4. Total([Claims(m) EXCEPT ![u] = v]) = Total(Claims(m)) - Claims(m)[u] + v
  BY <1>1, <1>3, TotalUpdate
<1>5. \A b \in Droplets \ {m} : Claims(b)' = Claims(b)
  BY DEF Claims, AccountsTypeOK
<1> QED
  BY <1>2, <1>4, <1>5 DEF v

\* Changing the backing of one NFT changes the total by the difference.
LEMMA BackingTotalUpdate ==
    ASSUME NEW f \in [Nfts -> Nat], NEW n \in Nfts, NEW v \in Nat
    PROVE  Total([f EXCEPT ![n] = v]) = Total(f) - f[n] + v
<1>1. IsFiniteSet(Nfts)
  BY StateAssumption DEF StateAssumption
<1> QED
  BY <1>1, TotalUpdate

\* Changing the record of one NFT changes the backing by that of the NFT.
LEMMA BackingUpdate ==
    ASSUME AccountsTypeOK, NEW m \in Droplets, NEW n \in Nfts, NEW v \in Nat,
           \A k \in Nfts \ {n} : /\ k \in deposit_state'[m] <=> k \in deposit_state[m]
                                 /\ locker_state'[m][k] = locker_state[m][k],
           v = IF n \in deposit_state'[m] THEN NFT_VALUE
               ELSE IF HasLocker(m, n)' THEN locker_state'[m][n].principal_amount
               ELSE 0
    PROVE  Total(Backing(m)') = Total(Backing(m)) - Backing(m)[n] + v
<1>1. Backing(m)' = [Backing(m) EXCEPT ![n] = v]
  BY DEF Backing, HasLocker
<1>2. Backing(m) \in [Nfts -> Nat]
  BY TotalsType
<1>3. Total([Backing(m) EXCEPT ![n] = v]) = Total(Backing(m)) - Backing(m)[n] + v
  BY <1>2, BackingTotalUpdate
<1> QED
  BY <1>1, <1>3

\* After a step, too, the totals are natural numbers.
LEMMA NextTotalsType ==
    ASSUME AccountsTypeOK', NEW m \in Droplets
    PROVE  /\ Supply(m)' \in Nat
           /\ Total(Claims(m)') \in Nat
           /\ Total(Backing(m)') \in Nat
<1>1. Supply(m)' \in Nat
  BY HoldersFinite, TotalType DEF Supply, AccountsTypeOK
<1>2. Claims(m)' \in [Users -> Nat]
  BY NftValueType DEF Claims
<1>3. Backing(m)' \in [Nfts -> Nat]
  BY NftValueType DEF Backing, AccountsTypeOK, HasLocker, Locker
<1> QED
  BY <1>1, <1>2, <1>3, StateAssumption, TotalType DEF StateAssumption

\* A bucket whose records and claims stay and whose supply does not grow.
LEMMA BucketNoLessCovered ==
    ASSUME AccountsTypeOK, AccountsTypeOK', NEW m \in Droplets,
           Supply(m)' <= Supply(m),
           UNCHANGED <<deposit_state[m], locker_state[m], Claims(m)>>
    PROVE  NoLessCovered(m)
<1>1. Backing(m)' = Backing(m)
  BY DEF Backing, HasLocker
<1> QED
  BY <1>1, TotalsType, NextTotalsType DEF NoLessCovered

\* A step that changes the accounts of one bucket leaves none less covered if
\* it leaves that bucket no less covered.
LEMMA OneBucketCovered ==
    ASSUME AccountsTypeOK, NEW m \in Droplets,
           \A b \in Droplets \ {m} : /\ balance'[b] = balance[b]
                                     /\ deposit_state'[b] = deposit_state[b]
                                     /\ locker_state'[b] = locker_state[b]
                                     /\ Claims(b)' = Claims(b),
           NoLessCovered(m)
    PROVE  \A b \in Droplets : NoLessCovered(b)
<1>1. \A b \in Droplets \ {m} : Supply(b)' = Supply(b) /\ Backing(b)' = Backing(b)
  BY DEF Supply, Backing, HasLocker
<1> QED
  BY <1>1, TotalsType DEF NoLessCovered

\* A covered bucket that a step leaves no less covered is covered.
LEMMA StaysCovered ==
    ASSUME AccountsTypeOK, AccountsTypeOK', NEW m \in Droplets, NoLessCovered(m),
           Supply(m) + Total(Claims(m)) <= Total(Backing(m))
    PROVE  Supply(m)' + Total(Claims(m)') <= Total(Backing(m)')
BY TotalsType, NextTotalsType DEF NoLessCovered

\* A deposit is covered by its NFT, whether it mints droplets or opens a swap.
LEMMA DepositNftCovered ==
    ASSUME AccountsTypeOK, RecordsApart, NEW m \in Droplets, NEW n \in Nfts,
           NEW u \in Users, NEW swap \in BOOLEAN, NEW dest \in Recipients,
           DepositNft(m, n, u, swap, dest)
    PROVE  \A b \in Droplets : NoLessCovered(b)
<1>1. ~Recorded(m, n)
  BY WalletHasNoRecord DEF DepositNft
<1>2. Backing(m)[n] = 0
  BY <1>1 DEF Backing, Recorded
<1>3. Total(Backing(m)') = Total(Backing(m)) - Backing(m)[n] + NFT_VALUE
  <2>1. /\ n \in deposit_state'[m]
        /\ \A k \in Nfts \ {n} : /\ k \in deposit_state'[m] <=> k \in deposit_state[m]
                                /\ locker_state'[m][k] = locker_state[m][k]
    BY DEF DepositNft, AccountsTypeOK
  <2> QED
    BY <2>1, BackingUpdate, NftValueType
<1>4. /\ Total(Claims(m)') =
             Total(Claims(m)) - Claims(m)[u] + (IF swap THEN NFT_VALUE ELSE 0)
      /\ \A b \in Droplets \ {m} : Claims(b)' = Claims(b)
  BY ClaimsUpdate DEF DepositNft
<1>5. Claims(m)[u] \in Nat /\ (swap => Claims(m)[u] = 0)
  BY NftValueType DEF Claims, DepositNft
<1>6. Supply(m)' = Supply(m) + (IF swap THEN 0 ELSE NFT_VALUE)
  <2>1. balance'[m] = MintedByDeposit(m, swap, dest)
    BY DEF DepositNft, AccountsTypeOK
  <2>2. balance[m] \in [Holders -> Nat] /\ Total(balance[m]) \in Nat
    BY TotalsType DEF AccountsTypeOK, Supply
  <2> QED
    BY <2>1, <2>2, HoldersFinite, MintToLedger, NftValueType DEF MintedByDeposit, Supply
<1>7. NoLessCovered(m)
  BY <1>2, <1>3, <1>4, <1>5, <1>6, TotalsType, NftValueType DEF NoLessCovered
<1> QED
  BY <1>4, <1>7, OneBucketCovered DEF DepositNft, AccountsTypeOK

\* A redemption spends a swap or leaves the claims as they are.
LEMMA ClaimsSpent ==
    ASSUME AccountsTypeOK, NEW m \in Droplets, NEW n \in Nfts, NEW u \in Users,
           NEW swap \in BOOLEAN, NEW distributor \in Recipients, NEW to \in Users,
           RedeemNft(m, n, u, swap, distributor, to)
    PROVE  /\ Total(Claims(m)') = Total(Claims(m)) - (IF swap THEN NFT_VALUE ELSE 0)
           /\ \A b \in Droplets \ {m} : Claims(b)' = Claims(b)
<1>1. CASE swap
  <2>1. /\ swap_state' = [swap_state EXCEPT ![m][u] = FALSE]
        /\ Claims(m)[u] = NFT_VALUE
    BY <1>1 DEF RedeemNft, SwapSpent, SwapAllowed, Claims
  <2>2. /\ Total(Claims(m)') = Total(Claims(m)) - Claims(m)[u] + 0
        /\ \A b \in Droplets \ {m} : Claims(b)' = Claims(b)
    BY <2>1, ClaimsUpdate
  <2> QED
    BY <1>1, <2>1, <2>2, TotalsType, NftValueType
<1>2. CASE ~swap
  <2>1. \A b \in Droplets : Claims(b)' = Claims(b)
    BY <1>2 DEF RedeemNft, SwapSpent, Claims
  <2> QED
    BY <1>2, <2>1, TotalsType
<1> QED
  BY <1>1, <1>2

\* A redemption takes away droplets, or a swap, worth the NFT.
LEMMA RedeemNftCovered ==
    ASSUME AccountsTypeOK, RecordsApart, NEW m \in Droplets, NEW n \in Nfts,
           NEW u \in Users, NEW swap \in BOOLEAN, NEW distributor \in Recipients,
           NEW to \in Users, RedeemNft(m, n, u, swap, distributor, to)
    PROVE  \A b \in Droplets : NoLessCovered(b)
<1>1. n \in deposit_state[m] /\ ~HasLocker(m, n)
  BY DEF RedeemNft, RecordsApart
<1>2. Backing(m)[n] = NFT_VALUE
  BY <1>1 DEF Backing
<1>3. Total(Backing(m)') = Total(Backing(m)) - Backing(m)[n] + 0
  <2>1. /\ n \notin deposit_state'[m] /\ ~HasLocker(m, n)'
        /\ \A k \in Nfts \ {n} : /\ k \in deposit_state'[m] <=> k \in deposit_state[m]
                                /\ locker_state'[m][k] = locker_state[m][k]
    BY <1>1 DEF RedeemNft, AccountsTypeOK, HasLocker
  <2> QED
    BY <2>1, BackingUpdate
<1>4. /\ Total(Claims(m)') = Total(Claims(m)) - (IF swap THEN NFT_VALUE ELSE 0)
      /\ \A b \in Droplets \ {m} : Claims(b)' = Claims(b)
  BY ClaimsSpent
<1>5. Supply(m)' = Supply(m) - (IF swap THEN 0 ELSE NFT_VALUE)
  <2>1. balance'[m] = FeesPaid(m, u, swap, distributor)
    BY DEF RedeemNft, AccountsTypeOK
  <2> QED
    BY <2>1, FeesPaidLedger, TotalsType, NftValueType DEF RedeemNft, Supply
<1>6. NoLessCovered(m)
  BY <1>2, <1>3, <1>4, <1>5, TotalsType, NftValueType DEF NoLessCovered
<1> QED
  BY <1>4, <1>6, OneBucketCovered DEF RedeemNft, AccountsTypeOK

\* A loan mints the principal that the locker owes.
LEMMA LockNftCovered ==
    ASSUME AccountsTypeOK, RecordsApart, NEW m \in Droplets, NEW n \in Nfts,
           NEW u \in Users, NEW d \in LockDurations, NEW dest \in Recipients,
           LockNft(m, n, u, d, dest)
    PROVE  \A b \in Droplets : NoLessCovered(b)
<1> DEFINE p == NewLocker(m, u, d).principal_amount
<1>1. ~Recorded(m, n)
  BY WalletHasNoRecord DEF LockNft
<1>2. Backing(m)[n] = 0
  BY <1>1 DEF Backing, Recorded
<1>3. NewLocker(m, u, d) \in Locker /\ NewLocker(m, u, d) # NoLocker /\ p \in Nat
  BY NewLockerType, BoundsAssumption, StateAssumption
     DEF LockNft, BoundsAssumption, StateAssumption, Locker
<1>4. locker_state'[m] = [locker_state[m] EXCEPT ![n] = NewLocker(m, u, d)]
  BY DEF LockNft, AccountsTypeOK
<1>5. Total(Backing(m)') = Total(Backing(m)) - Backing(m)[n] + p
  <2>1. /\ n \notin deposit_state'[m] /\ HasLocker(m, n)'
        /\ locker_state'[m][n].principal_amount = p
        /\ \A k \in Nfts \ {n} : /\ k \in deposit_state'[m] <=> k \in deposit_state[m]
                                /\ locker_state'[m][k] = locker_state[m][k]
    BY <1>1, <1>3, <1>4 DEF LockNft, AccountsTypeOK, HasLocker, Recorded
  <2> HIDE DEF p
  <2> QED
    BY <1>3, <2>1, BackingUpdate
<1>6. \A b \in Droplets : Claims(b)' = Claims(b)
  BY DEF LockNft, Claims
<1>7. Supply(m)' = Supply(m) + p
  <2>1. balance'[m] = MintTo(balance[m], dest, p)
    BY DEF LockNft, AccountsTypeOK
  <2>2. balance[m] \in [Holders -> Nat] /\ dest \in Holders /\ IsFiniteSet(Holders)
    BY HoldersFinite DEF AccountsTypeOK
  <2> HIDE DEF p
  <2> QED
    BY <1>3, <2>1, <2>2, MintToLedger DEF Supply
<1> HIDE DEF p
<1>8. NoLessCovered(m)
  BY <1>2, <1>3, <1>5, <1>6, <1>7, TotalsType DEF NoLessCovered
<1> QED
  BY <1>6, <1>8, OneBucketCovered DEF LockNft, AccountsTypeOK

\* A repayment burns the principal that the locker owed.
LEMMA UnlockNftCovered ==
    ASSUME AccountsTypeOK, RecordsApart, NEW m \in Droplets, NEW n \in Nfts,
           NEW u \in Users, NEW to \in Users, UnlockNft(m, n, u, to)
    PROVE  \A b \in Droplets : NoLessCovered(b)
<1> DEFINE p == locker_state[m][n].principal_amount
<1>1. n \notin deposit_state[m] /\ HasLocker(m, n)
  BY DEF UnlockNft, RecordsApart
<1>2. Backing(m)[n] = p
  BY <1>1 DEF Backing
<1>3. Total(Backing(m)') = Total(Backing(m)) - Backing(m)[n] + 0
  <2>1. /\ n \notin deposit_state'[m] /\ ~HasLocker(m, n)'
        /\ \A k \in Nfts \ {n} : /\ k \in deposit_state'[m] <=> k \in deposit_state[m]
                                /\ locker_state'[m][k] = locker_state[m][k]
    BY <1>1 DEF UnlockNft, CloseLocker, AccountsTypeOK, HasLocker
  <2> QED
    BY <2>1, BackingUpdate
<1>4. \A b \in Droplets : Claims(b)' = Claims(b)
  BY DEF UnlockNft, Claims
<1>5. Supply(m)' = Supply(m) - p
  BY RepaymentLedger
<1>6. p \in Nat
  BY <1>1 DEF AccountsTypeOK, HasLocker, Locker
<1> HIDE DEF p
<1>7. NoLessCovered(m)
  BY <1>2, <1>3, <1>4, <1>5, <1>6, TotalsType DEF NoLessCovered
<1>8. \A b \in Droplets \ {m} : balance'[b] = balance[b]
  BY RepaymentLedger DEF AccountsTypeOK
<1> QED
  BY <1>4, <1>7, <1>8, OneBucketCovered DEF UnlockNft, CloseLocker, AccountsTypeOK

\* A liquidation mints what the NFT, now a deposit, backs in addition.
LEMMA LiquidateLockerCovered ==
    ASSUME AccountsTypeOK, RecordsApart, NEW m \in Droplets, NEW n \in Nfts,
           NEW dest \in Recipients, LiquidateLocker(m, n, dest)
    PROVE  \A b \in Droplets : NoLessCovered(b)
<1> DEFINE p == locker_state[m][n].principal_amount
<1>1. n \notin deposit_state[m] /\ HasLocker(m, n)
  BY DEF LiquidateLocker
<1>2. Backing(m)[n] = p
  BY <1>1 DEF Backing
<1>3. Total(Backing(m)') = Total(Backing(m)) - Backing(m)[n] + NFT_VALUE
  <2>1. /\ n \in deposit_state'[m]
        /\ \A k \in Nfts \ {n} : /\ k \in deposit_state'[m] <=> k \in deposit_state[m]
                                /\ locker_state'[m][k] = locker_state[m][k]
    BY DEF LiquidateLocker, CloseLocker, AccountsTypeOK
  <2> QED
    BY <2>1, BackingUpdate, NftValueType
<1>4. \A b \in Droplets : Claims(b)' = Claims(b)
  BY DEF LiquidateLocker, Claims
<1>5. Supply(m)' = Supply(m) + NFT_VALUE - p
  BY LiquidationLedger
<1>6. p \in Nat
  BY <1>1 DEF AccountsTypeOK, HasLocker, Locker
<1> HIDE DEF p
<1>7. NoLessCovered(m)
  BY <1>2, <1>3, <1>4, <1>5, <1>6, TotalsType, NftValueType DEF NoLessCovered
<1>8. \A b \in Droplets \ {m} : balance'[b] = balance[b]
  BY LiquidationLedger DEF AccountsTypeOK
<1> QED
  BY <1>4, <1>7, <1>8, OneBucketCovered DEF LiquidateLocker, CloseLocker, AccountsTypeOK

\* No step leaves a bucket less covered.
LEMMA NextCovered ==
    ASSUME AccountsTypeOK, RecordsApart, [Next]_vars
    PROVE  \A m \in Droplets : NoLessCovered(m)
<1>1. AccountsTypeOK'
  BY NextType
<1>2. CASE UNCHANGED <<balance, deposit_state, locker_state, swap_state>>
  <2>1. \A m \in Droplets : /\ Supply(m)' = Supply(m)
                            /\ UNCHANGED <<deposit_state[m], locker_state[m], Claims(m)>>
    BY <1>2 DEF Supply, Claims
  <2> QED
    BY <1>1, <2>1, TotalsType, BucketNoLessCovered
<1>3. CASE WalletStep
  <2>1. \A m \in Droplets : Supply(m)' <= Supply(m)
    BY <1>3, WalletStepType
  <2>2. UNCHANGED <<deposit_state, locker_state, swap_state>>
    BY <1>3 DEF WalletStep, SplTransfer, SplBurn, NftTransfer
  <2>3. \A m \in Droplets : UNCHANGED <<deposit_state[m], locker_state[m], Claims(m)>>
    BY <2>2 DEF Claims
  <2> QED
    BY <1>1, <2>1, <2>3, BucketNoLessCovered
<1>4. CASE Tick \/ UNCHANGED vars
  BY <1>2, <1>4 DEF Tick, vars
<1>5. ASSUME NEW m \in Droplets, BucketStep(m)
      PROVE  \A b \in Droplets : NoLessCovered(b)
  <2>1. CASE \E c \in Collections : CreateBucket(m, c) \/ UpdateCollectionInfo(m, c)
    BY <1>2, <2>1 DEF CreateBucket, UpdateCollectionInfo
  <2> QED
    BY <1>5, <2>1, DepositNftCovered, RedeemNftCovered DEF BucketStep
<1>6. ASSUME NEW m \in Droplets, LockerStep(m)
      PROVE  \A b \in Droplets : NoLessCovered(b)
  <2>1. CASE \/ \E flag \in BOOLEAN : SetLockingEnabled(m, flag)
             \/ \E supplied \in SUBSET {"scaler", "duration"}, s \in Scalers,
                   d \in MaxDurations : UpdateLockingParams(m, supplied, s, d)
    BY <1>2, <2>1 DEF SetLockingEnabled, UpdateLockingParams
  <2> QED
    BY <1>6, <2>1, LockNftCovered, UnlockNftCovered, LiquidateLockerCovered DEF LockerStep
<1> QED
  BY <1>3, <1>4, <1>5, <1>6 DEF Next

\* Every step keeps the protocol solvent.
LEMMA NextSolvent == AccountsTypeOK /\ RecordsApart /\ Solvency /\ [Next]_vars => Solvency'
<1> SUFFICES ASSUME AccountsTypeOK, RecordsApart, Solvency, [Next]_vars PROVE Solvency'
  OBVIOUS
<1>1. AccountsTypeOK' /\ \A m \in Droplets : NoLessCovered(m)
  BY NextType, NextCovered
<1> QED
  BY <1>1, StaysCovered DEF Solvency

\* There are no droplets and no claims at first.
LEMMA InitSolvent == Init => Solvency
<1> SUFFICES ASSUME Init, NEW m \in Droplets
             PROVE  Supply(m) + Total(Claims(m)) <= Total(Backing(m))
  BY DEF Solvency
<1>1. Supply(m) = 0
  BY TotalZero DEF Init, Supply
<1>2. Claims(m) \in [Users -> Nat] /\ \A u \in Users : Claims(m)[u] = 0
  BY DEF Init, Claims
<1>3. Total(Claims(m)) = 0
  BY <1>2, TotalZero
<1>4. Total(Backing(m)) \in Nat
  BY InitType, TotalsType
<1> QED
  BY <1>1, <1>3, <1>4

\* In every reachable state the droplets in circulation and the pending swaps
\* are covered by the NFTs deposited and the debts of the lockers.
THEOREM SolvencyHolds == Spec => []Solvency
<1>1. Init => Solvency
  BY InitSolvent
<1>2. AccountsTypeOK /\ Custody /\ Solvency /\ [Next]_vars => Solvency'
  BY NextSolvent, CustodyApart
<1> QED
  BY <1>1, <1>2, AccountsTypeCorrect, CustodyHolds, PTL DEF Spec

-----------------------------------------------------------------------------
(* No supply comes near the end of a u64. *)

\* The droplets of a bucket are worth at most as many NFTs as its two counters,
\* each a u16, can count.  For the real constants that is far below the end of
\* a u64, at which the token program refuses to mint, as the model does not.
SupplyBounded == \A m \in Droplets : Supply(m) <= (U16_MAX + U16_MAX) * NFT_VALUE

\* An NFT with a record backs at most its value, and one without nothing.
LEMMA BackingOfNft ==
    ASSUME AccountsTypeOK, LoansInv, NEW m \in Droplets
    PROVE  /\ Backing(m) \in [Nfts -> Nat]
           /\ \A n \in Nfts : Backing(m)[n] <= NFT_VALUE
           /\ \A n \in Nfts : ~Recorded(m, n) => Backing(m)[n] = 0
<1>1. Backing(m) \in [Nfts -> Nat] /\ NFT_VALUE \in Nat
  BY TotalsType, NftValueType
<1>2. ASSUME NEW n \in Nfts, HasLocker(m, n)
      PROVE  locker_state[m][n].principal_amount <= NFT_VALUE
  <2>1. /\ locker_state[m][n].principal_amount \in Nat
        /\ locker_state[m][n].max_interest_payable \in Nat
    BY <1>2 DEF AccountsTypeOK, HasLocker, Locker
  <2>2. locker_state[m][n].principal_amount + locker_state[m][n].max_interest_payable
            <= NFT_VALUE
    BY <1>2 DEF LoansInv, SoundLoan
  <2> QED
    BY <1>1, <2>1, <2>2
<1>3. \A n \in Nfts : Backing(m)[n] <= NFT_VALUE
  BY <1>1, <1>2 DEF Backing
<1>4. \A n \in Nfts : ~Recorded(m, n) => Backing(m)[n] = 0
  BY DEF Backing, Recorded
<1> QED
  BY <1>1, <1>3, <1>4

\* What covers the droplets is bounded by the number of records.
LEMMA BackingBounded ==
    ASSUME AccountsTypeOK, CountersMatch, LoansInv, NEW m \in Droplets
    PROVE  Total(Backing(m)) <= (U16_MAX + U16_MAX) * NFT_VALUE
<1> DEFINE D == deposit_state[m]
           L == LockedNfts(m)
           k == Cardinality(D \cup L)
<1>1. /\ IsFiniteSet(D) /\ Cardinality(D) \in Nat
      /\ IsFiniteSet(L) /\ Cardinality(L) \in Nat
      /\ D \cup L \in SUBSET Nfts
  BY RecordsFinite, FS_CardinalityType DEF AccountsTypeOK, LockedNfts
<1>2. IsFiniteSet(D \cup L) /\ k \in Nat /\ k <= Cardinality(D) + Cardinality(L)
  <2>1. IsFiniteSet(D \cup L) /\ k = Cardinality(D) + Cardinality(L) - Cardinality(D \cap L)
    BY <1>1, FS_Union
  <2>2. IsFiniteSet(D \cap L) /\ Cardinality(D \cap L) \in Nat
    BY <1>1, FS_Intersection, FS_CardinalityType
  <2>3. k \in Nat
    BY <2>1, FS_CardinalityType
  <2> HIDE DEF D, L, k
  <2> QED
    BY <1>1, <2>1, <2>2, <2>3
<1>3. Cardinality(D) <= U16_MAX /\ Cardinality(L) <= U16_MAX /\ U16_MAX \in Nat
  BY ConstantsType DEF CountersMatch
<1>4. /\ Backing(m) \in [Nfts -> Nat]
      /\ \A n \in Nfts : Backing(m)[n] <= NFT_VALUE
      /\ \A n \in Nfts \ (D \cup L) : Backing(m)[n] = 0
  BY BackingOfNft DEF Recorded, LockedNfts
<1>5. Total(Backing(m)) <= k * NFT_VALUE
  BY <1>1, <1>2, <1>4, NftValueType, TotalAtMost
<1> HIDE DEF D, L, k
<1>6. k <= U16_MAX + U16_MAX
  BY <1>1, <1>2, <1>3
<1>7. k * NFT_VALUE <= (U16_MAX + U16_MAX) * NFT_VALUE
  BY <1>2, <1>3, <1>6, NftValueType, ProductMonotone
<1>8. Total(Backing(m)) \in Nat /\ NFT_VALUE \in Nat
  BY TotalsType, NftValueType
<1> QED
  BY <1>2, <1>3, <1>5, <1>7, <1>8

\* Solvency carries the bound over to the supply.
LEMMA SupplyWithinCounters ==
    ASSUME AccountsTypeOK, CountersMatch, LoansInv, Solvency
    PROVE  SupplyBounded
<1> SUFFICES ASSUME NEW m \in Droplets
             PROVE  Supply(m) <= (U16_MAX + U16_MAX) * NFT_VALUE
  BY DEF SupplyBounded
<1>1. Supply(m) + Total(Claims(m)) <= Total(Backing(m))
  BY DEF Solvency
<1>2. Supply(m) \in Nat /\ Total(Claims(m)) \in Nat /\ Total(Backing(m)) \in Nat
  BY TotalsType
<1>3. (U16_MAX + U16_MAX) * NFT_VALUE \in Nat
  BY ConstantsType, NftValueType
<1> QED
  BY <1>1, <1>2, <1>3, BackingBounded

\* In every reachable state the supply of droplets is at most the value of all
\* the NFTs that the counters of the bucket can count.
THEOREM SupplyBoundedHolds == Spec => []SupplyBounded
<1>1. AccountsTypeOK /\ CountersMatch /\ LoansInv /\ Solvency => SupplyBounded
  BY SupplyWithinCounters
<1> QED
  BY <1>1, AccountsTypeCorrect, CountersMatchHolds, LoansSound, SolvencyHolds, PTL

-----------------------------------------------------------------------------
(* What a step may never do: how a locker ends, how a deposit leaves *)

\* A repayment is in time, burns the principal and hands the NFT to a wallet.
LEMMA UnlockNftRepays ==
    ASSUME AccountsTypeOK, NEW m \in Droplets, NEW n \in Nfts, NEW u \in Users, NEW to \in Users,
           UnlockNft(m, n, u, to)
    PROVE  Repaid(m, n)
<1>1. now <= Expiry(locker_state[m][n])
  BY DEF UnlockNft, Active, Expiry
<1>2. nft_owner'[n] \in Users
  BY DEF UnlockNft, AccountsTypeOK
<1> QED
  BY <1>1, <1>2, RepaymentLedger DEF Repaid

\* A liquidation is after the expiry and makes a deposit of the NFT.
LEMMA LiquidateLockerLiquidates ==
    ASSUME AccountsTypeOK, NEW m \in Droplets, NEW n \in Nfts, NEW dest \in Recipients,
           LiquidateLocker(m, n, dest)
    PROVE  Liquidated(m, n)
<1>1. now > Expiry(locker_state[m][n])
  BY DEF LiquidateLocker, Expired, Expiry
<1>2. n \in deposit_state'[m]
  BY DEF LiquidateLocker, AccountsTypeOK
<1> QED
  BY <1>1, <1>2, LiquidationLedger DEF Liquidated

\* Only a repayment or a liquidation changes a locker.
LEMMA LockerEnds ==
    ASSUME AccountsTypeOK, [Next]_vars, NEW m \in Droplets, NEW n \in Nfts,
           HasLocker(m, n), locker_state'[m][n] # locker_state[m][n]
    PROVE  locker_state'[m][n] = NoLocker /\ (Repaid(m, n) \/ Liquidated(m, n))
<1>1. PICK b \in Droplets, k \in Nfts :
          \/ \E u \in Users, to \in Users : UnlockNft(b, k, u, to)
          \/ \E dest \in Recipients : LiquidateLocker(b, k, dest)
          \/ \E u \in Users, d \in LockDurations, dest \in Recipients :
                 LockNft(b, k, u, d, dest)
  <2>1. PICK b \in Droplets : BucketStep(b) \/ LockerStep(b)
    <3>1. CASE Tick \/ WalletStep \/ UNCHANGED vars
      BY <3>1 DEF Tick, WalletStep, SplTransfer, SplBurn, NftTransfer, vars
    <3> QED
      BY <3>1 DEF Next
  <2>2. LockerStep(b)
    <3>1. CASE BucketStep(b)
      BY <3>1 DEF BucketStep, CreateBucket, UpdateCollectionInfo, DepositNft, RedeemNft
    <3> QED
      BY <2>1, <3>1
  <2>3. ~ \/ \E flag \in BOOLEAN : SetLockingEnabled(b, flag)
          \/ \E supplied \in SUBSET {"scaler", "duration"}, s \in Scalers,
                d \in MaxDurations : UpdateLockingParams(b, supplied, s, d)
    BY DEF SetLockingEnabled, UpdateLockingParams
  <2> QED
    BY <2>2, <2>3 DEF LockerStep
<1>2. CASE \E u \in Users, d \in LockDurations, dest \in Recipients :
               LockNft(b, k, u, d, dest)
  BY <1>2 DEF LockNft, HasLocker, AccountsTypeOK
<1>3. ASSUME CloseLocker(b, k)
      PROVE  b = m /\ k = n /\ locker_state'[m][n] = NoLocker
  BY <1>3 DEF CloseLocker, AccountsTypeOK
<1>4. CASE \E u \in Users, to \in Users : UnlockNft(b, k, u, to)
  <2>1. CloseLocker(b, k)
    BY <1>4 DEF UnlockNft
  <2> QED
    BY <1>3, <1>4, <2>1, UnlockNftRepays
<1>5. CASE \E dest \in Recipients : LiquidateLocker(b, k, dest)
  <2>1. CloseLocker(b, k)
    BY <1>5 DEF LiquidateLocker
  <2> QED
    BY <1>3, <1>5, <2>1, LiquidateLockerLiquidates
<1> QED
  BY <1>1, <1>2, <1>4, <1>5

\* In every behaviour a locker changes only by being closed, by a repayment
\* up to its expiry or by a liquidation after it.
THEOREM LockerSettledInOneWayHolds == Spec => LockerSettledInOneWay
<1>1. AccountsTypeOK /\ [Next]_vars =>
        [\A m \in Droplets, n \in Nfts :
             HasLocker(m, n) /\ locker_state'[m][n] # locker_state[m][n] =>
                 /\ locker_state'[m][n] = NoLocker
                 /\ Repaid(m, n) \/ Liquidated(m, n)]_vars
  BY LockerEnds
<1> QED
  BY <1>1, AccountsTypeCorrect, PTL DEF Spec, LockerSettledInOneWay

\* Only a redemption takes a deposit away.
LEMMA DepositEnds ==
    ASSUME AccountsTypeOK, [Next]_vars, NEW m \in Droplets, NEW n \in Nfts,
           n \in deposit_state[m], n \notin deposit_state'[m]
    PROVE  \E u \in Users, swap \in BOOLEAN, distributor \in Recipients, to \in Users :
               RedeemNft(m, n, u, swap, distributor, to)
<1>1. PICK b \in Droplets, k \in Nfts :
          \/ \E u \in Users, swap \in BOOLEAN, distributor \in Recipients, to \in Users :
                 RedeemNft(b, k, u, swap, distributor, to)
          \/ deposit_state' = [deposit_state EXCEPT ![b] = @ \cup {k}]
  <2>1. PICK b \in Droplets : BucketStep(b) \/ LockerStep(b)
    <3>1. CASE Tick \/ WalletStep \/ UNCHANGED vars
      BY <3>1 DEF Tick, WalletStep, SplTransfer, SplBurn, NftTransfer, vars
    <3> QED
      BY <3>1 DEF Next
  <2>2. CASE BucketStep(b)
    <3>1. ~ \E c \in Collections : CreateBucket(b, c) \/ UpdateCollectionInfo(b, c)
      BY DEF CreateBucket, UpdateCollectionInfo
    <3>2. \A k \in Nfts, u \in Users, swap \in BOOLEAN, dest \in Recipients :
              DepositNft(b, k, u, swap, dest)
                  => deposit_state' = [deposit_state EXCEPT ![b] = @ \cup {k}]
      BY DEF DepositNft
    <3> QED
      BY <2>2, <3>1, <3>2 DEF BucketStep
  <2>3. CASE LockerStep(b)
    <3>1. PICK k \in Nfts, dest \in Recipients : LiquidateLocker(b, k, dest)
      BY <2>3 DEF LockerStep, SetLockingEnabled, UpdateLockingParams, LockNft, UnlockNft
    <3> QED
      BY <3>1 DEF LiquidateLocker
  <2> QED
    BY <2>1, <2>2, <2>3
<1>2. ~(deposit_state' = [deposit_state EXCEPT ![b] = @ \cup {k}])
  <2>1. deposit_state \in [Droplets -> SUBSET Nfts]
    BY DEF AccountsTypeOK
  <2> QED
    BY <2>1
<1>3. PICK u \in Users, swap \in BOOLEAN, distributor \in Recipients, to \in Users :
          RedeemNft(b, k, u, swap, distributor, to)
  BY <1>1, <1>2
<1>4. b = m /\ k = n
  BY <1>3 DEF RedeemNft, AccountsTypeOK
<1> QED
  BY <1>3, <1>4

\* A redemption burns the value of the NFT or spends a pending swap.
LEMMA RedeemNftPays ==
    ASSUME AccountsTypeOK, NEW m \in Droplets, NEW n \in Nfts, NEW u \in Users,
           NEW swap \in BOOLEAN, NEW distributor \in Recipients, NEW to \in Users,
           RedeemNft(m, n, u, swap, distributor, to)
    PROVE  \/ /\ Supply(m)' = Supply(m) - NFT_VALUE
              /\ swap_state' = swap_state
           \/ /\ Supply(m)' = Supply(m)
              /\ \E v \in Users :
                     /\ swap_state[m][v]
                     /\ swap_state' = [swap_state EXCEPT ![m][v] = FALSE]
<1>1. Supply(m)' = IF swap THEN Supply(m) ELSE Supply(m) - NFT_VALUE
  <2>1. balance'[m] = FeesPaid(m, u, swap, distributor)
    BY DEF RedeemNft, AccountsTypeOK
  <2> QED
    BY <2>1, FeesPaidLedger DEF RedeemNft, Supply
<1>2. CASE swap
  BY <1>1, <1>2 DEF RedeemNft, SwapSpent, SwapAllowed
<1>3. CASE ~swap
  BY <1>1, <1>3 DEF RedeemNft, SwapSpent
<1> QED
  BY <1>2, <1>3

\* In every behaviour an NFT deposited in a bucket leaves it only against its
\* value in droplets or against a swap pending in that bucket.
THEOREM RedemptionPaidHolds == Spec => RedemptionPaid
<1>1. AccountsTypeOK /\ [Next]_vars =>
        [\A m \in Droplets, n \in Nfts :
             n \in deposit_state[m] /\ n \notin deposit_state'[m] =>
                 \/ /\ Supply(m)' = Supply(m) - NFT_VALUE
                    /\ swap_state' = swap_state
                 \/ /\ Supply(m)' = Supply(m)
                    /\ \E u \in Users :
                           /\ swap_state[m][u]
                           /\ swap_state' = [swap_state EXCEPT ![m][u] = FALSE]]_vars
  BY DepositEnds, RedeemNftPays
<1> QED
  BY <1>1, AccountsTypeCorrect, PTL DEF Spec, RedemptionPaid
=============================================================================
