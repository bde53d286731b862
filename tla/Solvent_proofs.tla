--------------------------- MODULE Solvent_proofs ---------------------------
(***************************************************************************)
(* Invariants of Solvent, proved for every value of the constants: its     *)
(* types, and its records, DepositState and LockerState accounts, against  *)
(* the NFTs the program holds (Custody) and against the counters that      *)
(* price its loans (CountersMatch).                                        *)
(***************************************************************************)
EXTENDS Solvent, Amounts_proofs

-----------------------------------------------------------------------------
(* Types *)

\* A bucket stays a bucket when its counters, or its settings, are replaced by
\* values of their types.
LEMMA BucketUpdates ==
    ASSUME NEW b \in Bucket, NEW i \in Nat, NEW j \in Nat
    PROVE  /\ [b EXCEPT !.num_nfts_in_bucket = i] \in Bucket
           /\ [b EXCEPT !.num_nfts_in_lockers = i] \in Bucket
           /\ [b EXCEPT !.num_nfts_in_lockers = i, !.num_nfts_in_bucket = j] \in Bucket
           /\ [b EXCEPT !.interest_scaler = i, !.max_locker_duration = j] \in Bucket
           /\ \A c \in Collections : [b EXCEPT !.collection_info = c] \in Bucket
           /\ \A flag \in BOOLEAN : [b EXCEPT !.is_locking_enabled = flag] \in Bucket
BY DEF Bucket

\* What a locked NFT is quoted has the type of a locker.
LEMMA NewLockerType ==
    ASSUME AccountsTypeOK, NEW m \in Droplets, NEW u \in Users, NEW d \in Nat,
           LoanDefined(LoanArgs(m, d))
    PROVE  /\ LoanArgs(m, d) \in CalculateLoanArgs
           /\ NewLocker(m, u, d) \in Locker
<1>1. LoanArgs(m, d) \in CalculateLoanArgs
  BY DEF LoanArgs, CalculateLoanArgs, AccountsTypeOK, Bucket
<1>2. now \in Nat
  BY StateAssumption DEF AccountsTypeOK, StateAssumption
<1> QED
  BY <1>1, <1>2, LoanType DEF NewLocker, Locker

\* The accounts of a ledger are finitely many, and include those the
\* instructions pay to.
LEMMA HoldersFinite ==
    /\ IsFiniteSet(Holders)
    /\ Users \subseteq Holders /\ Recipients \subseteq Holders
    /\ SOLVENT_CORE_TREASURY \in Holders /\ SOLVENT_LOCKERS_TREASURY \in Holders
<1>1. IsFiniteSet(Users \cup {SOLVENT_CORE_TREASURY})
  BY StateAssumption, FS_AddElement DEF StateAssumption
<1>2. IsFiniteSet((Users \cup {SOLVENT_CORE_TREASURY}) \cup {SOLVENT_LOCKERS_TREASURY})
  BY <1>1, FS_AddElement
<1>3. Holders = (Users \cup {SOLVENT_CORE_TREASURY}) \cup {SOLVENT_LOCKERS_TREASURY}
  BY DEF Holders
<1> QED
  BY <1>2, <1>3, BoundsAssumption DEF BoundsAssumption, Holders

\* A deposit leaves the types as they are.
LEMMA DepositNftType ==
    ASSUME AccountsTypeOK, NEW m \in Droplets, NEW n \in Nfts, NEW u \in Users,
           NEW swap \in BOOLEAN, NEW dest \in Recipients,
           DepositNft(m, n, u, swap, dest)
    PROVE  AccountsTypeOK'
<1>1. balance[m] \in [Holders -> Nat] /\ dest \in Holders
  BY BoundsAssumption DEF AccountsTypeOK, BoundsAssumption
<1>2. MintedByDeposit(m, swap, dest) \in [Holders -> Nat]
  BY <1>1, MintToLedger, NftValueType DEF MintedByDeposit
<1>3. balance' \in [Droplets -> [Holders -> Nat]]
  BY <1>2 DEF DepositNft, AccountsTypeOK
<1>4. bucket' \in [Droplets -> Bucket]
  <2>1. bucket[m] \in Bucket /\ bucket[m].num_nfts_in_bucket + 1 \in Nat
    BY DEF AccountsTypeOK, Bucket
  <2>2. [bucket[m] EXCEPT !.num_nfts_in_bucket = bucket[m].num_nfts_in_bucket + 1] \in Bucket
    BY <2>1, BucketUpdates
  <2> QED
    BY <2>2 DEF DepositNft, AccountsTypeOK
<1> QED
  BY <1>3, <1>4 DEF DepositNft, AccountsTypeOK

\* The payments of a redemption leave a ledger and take the value from its
\* supply, unless the redemption is a swap.
LEMMA FeesPaidLedger ==
    ASSUME AccountsTypeOK, NEW m \in Droplets, NEW u \in Users, NEW swap \in BOOLEAN,
           NEW distributor \in Recipients,
           RedemptionAffordable(m, u, swap, distributor)
    PROVE  /\ FeesPaid(m, u, swap, distributor) \in [Holders -> Nat]
           /\ Total(FeesPaid(m, u, swap, distributor)) =
                  IF swap THEN Supply(m) ELSE Supply(m) - NFT_VALUE
<1>1. /\ balance[m] \in [Holders -> Nat] /\ u \in Holders
      /\ distributor \in Holders /\ SOLVENT_CORE_TREASURY \in Holders
      /\ IsFiniteSet(Holders)
  BY HoldersFinite DEF AccountsTypeOK
<1>2. /\ BurnedByRedemption(m, u, swap) \in [Holders -> Nat]
      /\ Total(BurnedByRedemption(m, u, swap)) =
             IF swap THEN Supply(m) ELSE Supply(m) - NFT_VALUE
  BY <1>1, BurnLedger, NftValueType DEF BurnedByRedemption, RedemptionAffordable, Supply
<1>3. /\ FeePaidToDistributor(m, u, swap, distributor) \in [Holders -> Nat]
      /\ Total(FeePaidToDistributor(m, u, swap, distributor)) =
             Total(BurnedByRedemption(m, u, swap))
  BY <1>1, <1>2, TransferLedger, FeesType DEF FeePaidToDistributor, RedemptionAffordable
<1>4. /\ FeesPaid(m, u, swap, distributor) \in [Holders -> Nat]
      /\ Total(FeesPaid(m, u, swap, distributor)) =
             Total(FeePaidToDistributor(m, u, swap, distributor))
  BY <1>1, <1>3, TransferLedger, FeesType DEF FeesPaid, RedemptionAffordable
<1> QED
  BY <1>2, <1>3, <1>4

\* A redemption leaves the types as they are.
LEMMA RedeemNftType ==
    ASSUME AccountsTypeOK, NEW m \in Droplets, NEW n \in Nfts, NEW u \in Users,
           NEW swap \in BOOLEAN, NEW distributor \in Recipients, NEW to \in Users,
           RedeemNft(m, n, u, swap, distributor, to)
    PROVE  AccountsTypeOK'
<1>1. balance' \in [Droplets -> [Holders -> Nat]]
  BY FeesPaidLedger DEF RedeemNft, AccountsTypeOK
<1>2. bucket' \in [Droplets -> Bucket]
  <2>1. bucket[m] \in Bucket /\ bucket[m].num_nfts_in_bucket - 1 \in Nat
    BY DEF RedeemNft, AccountsTypeOK, Bucket
  <2>2. [bucket[m] EXCEPT !.num_nfts_in_bucket = bucket[m].num_nfts_in_bucket - 1] \in Bucket
    BY <2>1, BucketUpdates
  <2> QED
    BY <2>2 DEF RedeemNft, AccountsTypeOK
<1>3. swap_state' \in [Droplets -> [Users -> BOOLEAN]]
  BY DEF RedeemNft, SwapSpent, AccountsTypeOK
<1> QED
  BY <1>1, <1>2, <1>3 DEF RedeemNft, AccountsTypeOK

\* The administrator's settings leave the types as they are.
LEMMA SettingsType ==
    ASSUME AccountsTypeOK, NEW m \in Droplets,
           \/ \E c \in Collections : CreateBucket(m, c) \/ UpdateCollectionInfo(m, c)
           \/ \E flag \in BOOLEAN : SetLockingEnabled(m, flag)
           \/ \E supplied \in SUBSET {"scaler", "duration"}, s \in Scalers,
                 d \in MaxDurations : UpdateLockingParams(m, supplied, s, d)
    PROVE  AccountsTypeOK'
<1>1. bucket[m] \in Bucket
  BY DEF AccountsTypeOK
<1>2. CASE \E c \in Collections : CreateBucket(m, c)
  BY <1>2 DEF CreateBucket, NewBucket, Bucket, AccountsTypeOK
<1>3. CASE \E c \in Collections : UpdateCollectionInfo(m, c)
  <2>1. PICK c \in Collections : UpdateCollectionInfo(m, c)
    BY <1>3
  <2>2. [bucket[m] EXCEPT !.collection_info = c] \in Bucket
    BY <1>1, BucketUpdates
  <2> QED
    BY <2>1, <2>2 DEF UpdateCollectionInfo, AccountsTypeOK
<1>4. CASE \E flag \in BOOLEAN : SetLockingEnabled(m, flag)
  <2>1. PICK flag \in BOOLEAN : SetLockingEnabled(m, flag)
    BY <1>4
  <2>2. [bucket[m] EXCEPT !.is_locking_enabled = flag] \in Bucket
    BY <1>1, BucketUpdates
  <2> QED
    BY <2>1, <2>2 DEF SetLockingEnabled, AccountsTypeOK
<1>5. CASE \E supplied \in SUBSET {"scaler", "duration"}, s \in Scalers,
              d \in MaxDurations : UpdateLockingParams(m, supplied, s, d)
  <2>1. PICK supplied \in SUBSET {"scaler", "duration"}, s \in Scalers,
             d \in MaxDurations : UpdateLockingParams(m, supplied, s, d)
    BY <1>5
  <2> DEFINE i == IF "scaler" \in supplied THEN s ELSE bucket[m].interest_scaler
             j == IF "duration" \in supplied THEN d ELSE bucket[m].max_locker_duration
  <2>2. i \in Nat /\ j \in Nat
    BY <1>1, BoundsAssumption DEF BoundsAssumption, Bucket
  <2>3. bucket' = [bucket EXCEPT ![m] =
                      [bucket[m] EXCEPT !.interest_scaler = i, !.max_locker_duration = j]]
    BY <2>1 DEF UpdateLockingParams, AccountsTypeOK
  <2> HIDE DEF i, j
  <2>4. [bucket[m] EXCEPT !.interest_scaler = i, !.max_locker_duration = j] \in Bucket
    BY <1>1, <2>2, BucketUpdates
  <2>5. bucket' \in [Droplets -> Bucket]
    BY <2>3, <2>4 DEF AccountsTypeOK
  <2>6. UNCHANGED <<created, deposit_state, locker_state, swap_state, balance,
                    nft_owner, now>>
    BY <2>1 DEF UpdateLockingParams
  <2> QED
    BY <2>5, <2>6 DEF AccountsTypeOK
<1> QED
  BY <1>2, <1>3, <1>4, <1>5

\* A loan leaves the types as they are.
LEMMA LockNftType ==
    ASSUME AccountsTypeOK, NEW m \in Droplets, NEW n \in Nfts, NEW u \in Users,
           NEW d \in LockDurations, NEW dest \in Recipients,
           LockNft(m, n, u, d, dest)
    PROVE  AccountsTypeOK'
<1>1. d \in Nat
  BY BoundsAssumption DEF BoundsAssumption
<1>2. NewLocker(m, u, d) \in Locker
  BY <1>1, NewLockerType DEF LockNft
<1>3. NewLocker(m, u, d).principal_amount \in Nat
  BY <1>2 DEF Locker
<1>4. MintTo(balance[m], dest, NewLocker(m, u, d).principal_amount) \in [Holders -> Nat]
  BY <1>3, MintToLedger, HoldersFinite DEF AccountsTypeOK
<1>5. balance' \in [Droplets -> [Holders -> Nat]]
  BY <1>4 DEF LockNft, AccountsTypeOK
<1>6. bucket' \in [Droplets -> Bucket]
  <2>1. bucket[m] \in Bucket /\ bucket[m].num_nfts_in_lockers + 1 \in Nat
    BY DEF AccountsTypeOK, Bucket
  <2>2. [bucket[m] EXCEPT !.num_nfts_in_lockers = bucket[m].num_nfts_in_lockers + 1] \in Bucket
    BY <2>1, BucketUpdates
  <2> QED
    BY <2>2 DEF LockNft, AccountsTypeOK
<1>7. locker_state' \in [Droplets -> [Nfts -> Locker \cup {NoLocker}]]
  BY <1>2 DEF LockNft, AccountsTypeOK
<1> QED
  BY <1>5, <1>6, <1>7 DEF LockNft, AccountsTypeOK

\* The payments of an unlocking leave a ledger and take the principal from
\* its supply.
LEMMA RepaymentLedger ==
    ASSUME AccountsTypeOK, NEW m \in Droplets, NEW n \in Nfts, NEW u \in Users, NEW to \in Users,
           UnlockNft(m, n, u, to)
    PROVE  /\ balance' = [balance EXCEPT ![m] = balance'[m]]
           /\ balance'[m] \in [Holders -> Nat]
           /\ Supply(m)' = Supply(m) - locker_state[m][n].principal_amount
<1> DEFINE locker == locker_state[m][n]
           burned == Burn(balance[m], u, locker.principal_amount)
           paid == Transfer(burned, u, SOLVENT_LOCKERS_TREASURY, InterestDue(locker))
<1>1. locker \in Locker
  BY DEF UnlockNft, HasLocker, AccountsTypeOK
<1>2. locker.principal_amount \in Nat
  BY <1>1 DEF Locker
<1>3. InterestDue(locker) \in Nat
  <2>1. /\ locker.max_interest_payable \in Nat /\ locker.duration \in Nat \ {0}
        /\ now - locker.creation_timestamp \in Nat
    BY <1>1, StateAssumption
       DEF UnlockNft, InterestDueDefined, InterestDefined, Locker, AccountsTypeOK, StateAssumption
  <2>2. (now - locker.creation_timestamp) * locker.max_interest_payable \in Nat
    BY <2>1
  <2> QED
    BY <2>1, <2>2, DivBounds DEF InterestDue, Interest
<1>4. /\ balance[m] \in [Holders -> Nat] /\ u \in Holders
      /\ SOLVENT_LOCKERS_TREASURY \in Holders /\ IsFiniteSet(Holders)
  BY HoldersFinite DEF AccountsTypeOK
<1>5. /\ CanPay(balance[m], u, locker.principal_amount)
      /\ balance[m][u] - locker.principal_amount >= InterestDue(locker)
  BY <1>2, <1>3, <1>4 DEF UnlockNft, CanPay
<1>6. burned \in [Holders -> Nat] /\ Total(burned) = Supply(m) - locker.principal_amount
  BY <1>2, <1>4, <1>5, BurnLedger DEF Supply
<1>7. CanPay(burned, u, InterestDue(locker))
  BY <1>4, <1>5 DEF CanPay, Burn
<1>8. paid \in [Holders -> Nat] /\ Total(paid) = Total(burned)
  <2> HIDE DEF burned
  <2> QED
    BY <1>3, <1>4, <1>6, <1>7, TransferLedger
<1>9. balance' = [balance EXCEPT ![m] = paid]
  BY DEF UnlockNft
<1>10. balance'[m] = paid
  BY <1>9 DEF AccountsTypeOK
<1> QED
  BY <1>6, <1>8, <1>9, <1>10 DEF Supply

\* A repayment leaves the types as they are.
LEMMA UnlockNftType ==
    ASSUME AccountsTypeOK, NEW m \in Droplets, NEW n \in Nfts, NEW u \in Users, NEW to \in Users,
           UnlockNft(m, n, u, to)
    PROVE  AccountsTypeOK'
<1>1. balance' \in [Droplets -> [Holders -> Nat]]
  BY RepaymentLedger DEF AccountsTypeOK
<1>2. bucket' \in [Droplets -> Bucket]
  <2>1. bucket[m] \in Bucket /\ bucket[m].num_nfts_in_lockers - 1 \in Nat
    BY DEF UnlockNft, AccountsTypeOK, Bucket
  <2>2. [bucket[m] EXCEPT !.num_nfts_in_lockers = bucket[m].num_nfts_in_lockers - 1] \in Bucket
    BY <2>1, BucketUpdates
  <2> QED
    BY <2>2 DEF UnlockNft, AccountsTypeOK
<1>3. locker_state' \in [Droplets -> [Nfts -> Locker \cup {NoLocker}]]
  BY DEF UnlockNft, CloseLocker, AccountsTypeOK
<1> QED
  BY <1>1, <1>2, <1>3 DEF UnlockNft, AccountsTypeOK

\* What a liquidation mints leaves a ledger and brings the droplets minted for
\* the NFT to its value.
LEMMA LiquidationLedger ==
    ASSUME AccountsTypeOK, NEW m \in Droplets, NEW n \in Nfts, NEW dest \in Recipients,
           LiquidateLocker(m, n, dest)
    PROVE  /\ balance' = [balance EXCEPT ![m] = balance'[m]]
           /\ balance'[m] \in [Holders -> Nat]
           /\ Supply(m)' = Supply(m) + NFT_VALUE - locker_state[m][n].principal_amount
<1> DEFINE p == locker_state[m][n].principal_amount
           stored == MintTo(balance[m], SOLVENT_LOCKERS_TREASURY, ToStoreInVault(p))
           minted == MintTo(stored, dest, LiquidationReward(p))
<1>1. p \in Nat /\ p <= NFT_VALUE /\ NFT_VALUE \in Nat
  BY NftValueType
     DEF LiquidateLocker, LiquidationDefined, HasLocker, AccountsTypeOK, Locker
<1>2. /\ LiquidationReward(p) \in Nat /\ ToStoreInVault(p) \in Nat
      /\ ToStoreInVault(p) + LiquidationReward(p) = NFT_VALUE - p
  BY <1>1, LiquidationSplit
<1>3. /\ balance[m] \in [Holders -> Nat] /\ dest \in Holders
      /\ SOLVENT_LOCKERS_TREASURY \in Holders /\ IsFiniteSet(Holders)
      /\ Supply(m) \in Nat
  BY HoldersFinite, TotalType DEF AccountsTypeOK, Supply
<1>4. balance' = [balance EXCEPT ![m] = minted]
  BY DEF LiquidateLocker
<1>5. balance'[m] = minted
  BY <1>4 DEF AccountsTypeOK
<1>6. stored \in [Holders -> Nat] /\ Total(stored) = Supply(m) + ToStoreInVault(p)
  BY <1>2, <1>3, MintToLedger DEF Supply
<1>7. minted \in [Holders -> Nat] /\ Total(minted) = Total(stored) + LiquidationReward(p)
  <2> DEFINE r == LiquidationReward(p)
  <2>1. r \in Nat /\ stored \in [Holders -> Nat]
    BY <1>2, <1>6
  <2> HIDE DEF stored, r
  <2>2. MintTo(stored, dest, r) \in [Holders -> Nat]
    BY <1>3, <2>1, MintToLedger
  <2>3. Total(MintTo(stored, dest, r)) = Total(stored) + r
    BY <1>3, <2>1, MintToLedger
  <2> QED
    BY <2>2, <2>3 DEF r
<1>8. Total(minted) = Supply(m) + NFT_VALUE - p
  BY <1>1, <1>2, <1>3, <1>6, <1>7
<1> QED
  BY <1>4, <1>5, <1>7, <1>8 DEF Supply

\* A liquidation leaves the types as they are.
LEMMA LiquidateLockerType ==
    ASSUME AccountsTypeOK, NEW m \in Droplets, NEW n \in Nfts, NEW dest \in Recipients,
           LiquidateLocker(m, n, dest)
    PROVE  AccountsTypeOK'
<1>1. balance' \in [Droplets -> [Holders -> Nat]]
  BY LiquidationLedger DEF AccountsTypeOK
<1>2. bucket' \in [Droplets -> Bucket]
  <2> DEFINE i == bucket[m].num_nfts_in_lockers - 1
             j == bucket[m].num_nfts_in_bucket + 1
  <2>1. bucket[m] \in Bucket /\ i \in Nat /\ j \in Nat
    BY DEF LiquidateLocker, AccountsTypeOK, Bucket
  <2>2. bucket' = [bucket EXCEPT ![m] = LiquidatedCounters(bucket[m])]
    BY DEF LiquidateLocker
  <2>3. LiquidatedCounters(bucket[m]) =
          [bucket[m] EXCEPT !.num_nfts_in_lockers = i, !.num_nfts_in_bucket = j]
    BY <2>1 DEF LiquidatedCounters, Bucket
  <2> HIDE DEF i, j
  <2>4. [bucket[m] EXCEPT !.num_nfts_in_lockers = i, !.num_nfts_in_bucket = j] \in Bucket
    BY <2>1 DEF Bucket
  <2>5. LiquidatedCounters(bucket[m]) \in Bucket
    BY <2>3, <2>4
  <2> QED
    BY <2>2, <2>5 DEF AccountsTypeOK
<1>3. locker_state' \in [Droplets -> [Nfts -> Locker \cup {NoLocker}]]
  BY DEF LiquidateLocker, CloseLocker, AccountsTypeOK
<1> QED
  BY <1>1, <1>2, <1>3 DEF LiquidateLocker, AccountsTypeOK

\* What wallets do on their own leaves the types as they are, and never adds
\* to a supply.
LEMMA WalletStepType ==
    ASSUME AccountsTypeOK, WalletStep
    PROVE  AccountsTypeOK' /\ \A m \in Droplets : Supply(m)' <= Supply(m)
<1>1. \A m \in Droplets : Supply(m) \in Nat
  BY HoldersFinite, TotalType DEF AccountsTypeOK, Supply
<1>2. CASE \E n \in Nfts, to \in Users \cup {SOLVENT_AUTHORITY} : NftTransfer(n, to)
  <2>1. AccountsTypeOK'
    BY <1>2 DEF NftTransfer, AccountsTypeOK
  <2>2. UNCHANGED balance
    BY <1>2 DEF NftTransfer
  <2> QED
    BY <1>1, <2>1, <2>2 DEF Supply
<1>3. ASSUME NEW d \in Droplets, NEW from \in Holders, NEW amount \in TransferAmounts,
             \/ \E to \in Holders : SplTransfer(d, from, to, amount)
             \/ SplBurn(d, from, amount)
      PROVE  AccountsTypeOK' /\ \A m \in Droplets : Supply(m)' <= Supply(m)
  <2>1. amount \in Nat /\ balance[d] \in [Holders -> Nat] /\ IsFiniteSet(Holders)
    BY BoundsAssumption, HoldersFinite DEF BoundsAssumption, AccountsTypeOK
  <2>2. PICK l \in [Holders -> Nat] :
            balance' = [balance EXCEPT ![d] = l] /\ Total(l) <= Supply(d)
    <3>1. CASE SplBurn(d, from, amount)
      <4>1. Total(Burn(balance[d], from, amount)) = Supply(d) - amount
        BY <2>1, <3>1, BurnLedger DEF SplBurn, Supply
      <4>2. Burn(balance[d], from, amount) \in [Holders -> Nat]
        BY <2>1, <3>1, BurnLedger DEF SplBurn
      <4>3. balance' = [balance EXCEPT ![d] = Burn(balance[d], from, amount)]
        BY <3>1 DEF SplBurn
      <4>4. Supply(d) \in Nat /\ Supply(d) - amount <= Supply(d)
        BY <1>1, <2>1
      <4> DEFINE burned == Burn(balance[d], from, amount)
      <4>5. burned \in [Holders -> Nat] /\ Total(burned) <= Supply(d)
        BY <4>1, <4>2, <4>4
      <4>6. balance' = [balance EXCEPT ![d] = burned]
        BY <4>3
      <4> HIDE DEF burned
      <4> QED
        BY <4>5, <4>6
    <3>2. CASE \E to \in Holders : SplTransfer(d, from, to, amount)
      <4>1. PICK to \in Holders : SplTransfer(d, from, to, amount)
        BY <3>2
      <4>2. /\ Transfer(balance[d], from, to, amount) \in [Holders -> Nat]
            /\ Total(Transfer(balance[d], from, to, amount)) = Supply(d)
        BY <2>1, <4>1, TransferLedger DEF SplTransfer, Supply
      <4>3. balance' = [balance EXCEPT ![d] = Transfer(balance[d], from, to, amount)]
        BY <4>1 DEF SplTransfer
      <4> DEFINE moved == Transfer(balance[d], from, to, amount)
      <4>4. moved \in [Holders -> Nat] /\ Total(moved) <= Supply(d)
        BY <1>1, <4>2
      <4>5. balance' = [balance EXCEPT ![d] = moved]
        BY <4>3
      <4> HIDE DEF moved
      <4> QED
        BY <4>4, <4>5
    <3> QED
      BY <1>3, <3>1, <3>2
  <2>3. \A m \in Droplets : balance'[m] = IF m = d THEN l ELSE balance[m]
    BY <2>2 DEF AccountsTypeOK
  <2>4. \A m \in Droplets : Supply(m)' <= Supply(m)
    BY <1>1, <2>2, <2>3 DEF Supply
  <2>5. UNCHANGED <<created, bucket, deposit_state, locker_state, swap_state,
                    nft_owner, now>>
    BY <1>3 DEF SplTransfer, SplBurn
  <2> QED
    BY <2>2, <2>4, <2>5 DEF AccountsTypeOK
<1> QED
  BY <1>2, <1>3 DEF WalletStep

\* The initial state has the types.
LEMMA InitType == Init => AccountsTypeOK
BY StateAssumption DEF Init, AccountsTypeOK, NewBucket, Bucket, StateAssumption

\* Every step leaves the types as they are.
LEMMA NextType == AccountsTypeOK /\ [Next]_vars => AccountsTypeOK'
<1> SUFFICES ASSUME AccountsTypeOK, [Next]_vars PROVE AccountsTypeOK'
  OBVIOUS
<1>1. CASE Tick
  BY <1>1, StateAssumption DEF Tick, AccountsTypeOK, StateAssumption
<1>2. CASE WalletStep
  BY <1>2, WalletStepType
<1>3. ASSUME NEW m \in Droplets, BucketStep(m) \/ LockerStep(m)
      PROVE  AccountsTypeOK'
  BY <1>3, SettingsType, DepositNftType, RedeemNftType, LockNftType, UnlockNftType,
     LiquidateLockerType DEF BucketStep, LockerStep
<1>4. CASE UNCHANGED vars
  BY <1>4 DEF vars, AccountsTypeOK
<1> QED
  BY <1>1, <1>2, <1>3, <1>4 DEF Next

\* In every reachable state the accounts have their types.
LEMMA AccountsTypeCorrect == Spec => []AccountsTypeOK
<1>1. Init => AccountsTypeOK
  BY InitType
<1>2. AccountsTypeOK /\ [Next]_vars => AccountsTypeOK'
  BY NextType
<1> QED
  BY <1>1, <1>2, PTL DEF Spec

\* A step moves at most one NFT, from a wallet or the program to another.
LEMMA NextMovesNft ==
    ASSUME Next
    PROVE  \/ UNCHANGED nft_owner
           \/ \E n \in Nfts, to \in Users \cup {SOLVENT_AUTHORITY} :
                  /\ nft_owner[n] \in Users \cup {SOLVENT_AUTHORITY}
                  /\ nft_owner' = [nft_owner EXCEPT ![n] = to]
<1>1. CASE Tick
  BY <1>1 DEF Tick
<1>2. CASE WalletStep
  BY <1>2 DEF WalletStep, SplTransfer, SplBurn, NftTransfer
<1>3. ASSUME NEW m \in Droplets, BucketStep(m)
      PROVE  \/ UNCHANGED nft_owner
             \/ \E n \in Nfts, to \in Users \cup {SOLVENT_AUTHORITY} :
                    /\ nft_owner[n] \in Users \cup {SOLVENT_AUTHORITY}
                    /\ nft_owner' = [nft_owner EXCEPT ![n] = to]
  BY <1>3 DEF BucketStep, CreateBucket, UpdateCollectionInfo, DepositNft, RedeemNft
<1>4. ASSUME NEW m \in Droplets, LockerStep(m)
      PROVE  \/ UNCHANGED nft_owner
             \/ \E n \in Nfts, to \in Users \cup {SOLVENT_AUTHORITY} :
                    /\ nft_owner[n] \in Users \cup {SOLVENT_AUTHORITY}
                    /\ nft_owner' = [nft_owner EXCEPT ![n] = to]
  <2>1. ASSUME NEW flag \in BOOLEAN, SetLockingEnabled(m, flag)
        PROVE  UNCHANGED nft_owner
    BY <2>1 DEF SetLockingEnabled
  <2>2. ASSUME NEW supplied, NEW s, NEW d, UpdateLockingParams(m, supplied, s, d)
        PROVE  UNCHANGED nft_owner
    BY <2>2 DEF UpdateLockingParams
  <2>3. ASSUME NEW n \in Nfts, NEW u \in Users, NEW d, NEW dest, LockNft(m, n, u, d, dest)
        PROVE  /\ nft_owner[n] \in Users
               /\ nft_owner' = [nft_owner EXCEPT ![n] = SOLVENT_AUTHORITY]
    BY <2>3 DEF LockNft
  <2>4. ASSUME NEW n \in Nfts, NEW u \in Users, NEW to \in Users, UnlockNft(m, n, u, to)
        PROVE  /\ nft_owner[n] = SOLVENT_AUTHORITY
               /\ nft_owner' = [nft_owner EXCEPT ![n] = to]
    BY <2>4 DEF UnlockNft
  <2>5. ASSUME NEW n \in Nfts, NEW dest, LiquidateLocker(m, n, dest)
        PROVE  UNCHANGED nft_owner
    BY <2>5 DEF LiquidateLocker
  <2> QED
    BY <1>4, <2>1, <2>2, <2>3, <2>4, <2>5 DEF LockerStep
<1> QED
  BY <1>1, <1>2, <1>3, <1>4 DEF Next

\* Every reachable state has the types: no balance or counter underflows, and
\* every NFT is a wallet's or the program's.
THEOREM TypeCorrect == Spec => []TypeOK
<1>1. Init => TypeOK
  BY InitType DEF Init, TypeOK
<1>2. TypeOK /\ [Next]_vars => TypeOK'
  <2> SUFFICES ASSUME TypeOK, [Next]_vars PROVE TypeOK'
    OBVIOUS
  <2>1. AccountsTypeOK /\ AccountsTypeOK'
    BY NextType DEF TypeOK
  <2>2. \A n \in Nfts : nft_owner'[n] \in Users \cup {SOLVENT_AUTHORITY}
    BY <2>1, NextMovesNft DEF TypeOK, vars
  <2> QED
    BY <2>1, <2>2 DEF AccountsTypeOK, TypeOK
<1> QED
  BY <1>1, <1>2, PTL DEF Spec

-----------------------------------------------------------------------------
(* Custody is inductive relative to the types: an instruction that writes  *)
(* a record either takes the NFT from a wallet, which by Custody means     *)
(* that it had no record, or turns its one record into another.  The       *)
(* argument is the same if others keep NFTs for the program, as farms do.  *)

\* An NFT has at most one record, over all the buckets, and one of the keepers
\* K holds every NFT that has one.
HeldBy(K) ==
    /\ \A m \in Droplets, n \in Nfts :
           /\ Recorded(m, n) => nft_owner[n] \in K
           /\ ~(n \in deposit_state[m] /\ HasLocker(m, n))
    /\ \A m1, m2 \in Droplets, n \in Nfts :
           Recorded(m1, n) /\ Recorded(m2, n) => m1 = m2

\* The authority is a keeper, and no wallet is.
IsKeepers(K) == SOLVENT_AUTHORITY \in K /\ K \cap Users = {}

\* What the accounting of droplets needs of it.
RecordsApart ==
    /\ \A m \in Droplets, n \in Nfts :
           /\ Recorded(m, n) => nft_owner[n] \notin Users
           /\ ~(n \in deposit_state[m] /\ HasLocker(m, n))
    /\ \A m1, m2 \in Droplets, n \in Nfts :
           Recorded(m1, n) /\ Recorded(m2, n) => m1 = m2

LEMMA HeldByApart ==
    ASSUME NEW K, IsKeepers(K), HeldBy(K)
    PROVE  RecordsApart
BY DEF IsKeepers, HeldBy, RecordsApart

\* Custody is to be held by the authority.
LEMMA CustodyIsHeldBy ==
    /\ IsKeepers({SOLVENT_AUTHORITY})
    /\ Custody <=> HeldBy({SOLVENT_AUTHORITY})
    /\ Custody' <=> HeldBy({SOLVENT_AUTHORITY})'
BY StateAssumption DEF IsKeepers, Custody, HeldBy, StateAssumption

LEMMA CustodyApart == Custody => RecordsApart
BY CustodyIsHeldBy, HeldByApart

\* An NFT held by a wallet has no record.
LEMMA WalletHasNoRecord ==
    ASSUME RecordsApart, NEW n \in Nfts, nft_owner[n] \in Users, NEW m \in Droplets
    PROVE  ~Recorded(m, n)
BY DEF RecordsApart

\* A step that writes no record and takes no NFT from its keepers keeps HeldBy.
LEMMA HeldByKept ==
    ASSUME NEW K, HeldBy(K), UNCHANGED <<deposit_state, locker_state>>,
           \A n \in Nfts : nft_owner[n] \in K => nft_owner'[n] \in K
    PROVE  HeldBy(K)'
BY DEF HeldBy, Recorded, HasLocker

\* An instruction that touches the records of n alone keeps HeldBy if
\* afterwards n has at most one record, and only if the program holds it.
LEMMA OneNftHeldBy ==
    ASSUME NEW K, IsKeepers(K), AccountsTypeOK, HeldBy(K),
           NEW m \in Droplets, NEW n \in Nfts,
           \A k \in Nfts \ {n} :
               /\ \A b \in Droplets : /\ k \in deposit_state'[b] <=> k \in deposit_state[b]
                                      /\ locker_state'[b][k] = locker_state[b][k]
               /\ nft_owner'[k] = nft_owner[k],
           \A b \in Droplets \ {m} : ~Recorded(b, n)',
           Recorded(m, n)' => nft_owner'[n] \in K,
           ~(n \in deposit_state'[m] /\ HasLocker(m, n)')
    PROVE  HeldBy(K)'
<1>1. ASSUME NEW b \in Droplets, NEW k \in Nfts
      PROVE  /\ Recorded(b, k)' => nft_owner'[k] \in K
             /\ ~(k \in deposit_state'[b] /\ HasLocker(b, k)')
  <2>1. CASE k = n
    BY <2>1 DEF Recorded, HasLocker
  <2>2. CASE k # n
    BY <2>2 DEF HeldBy, Recorded, HasLocker
  <2> QED
    BY <2>1, <2>2
<1>2. ASSUME NEW b \in Droplets, NEW c \in Droplets, NEW k \in Nfts,
             Recorded(b, k)', Recorded(c, k)'
      PROVE  b = c
  <2>1. CASE k = n
    BY <1>2, <2>1
  <2>2. CASE k # n
    BY <1>2, <2>2 DEF HeldBy, Recorded, HasLocker
  <2> QED
    BY <2>1, <2>2
<1> QED
  BY <1>1, <1>2 DEF HeldBy

\* A deposit keeps HeldBy.
LEMMA DepositNftHeldBy ==
    ASSUME NEW K, IsKeepers(K), AccountsTypeOK, HeldBy(K),
           NEW m \in Droplets, NEW n \in Nfts, NEW u \in Users,
           NEW swap \in BOOLEAN, NEW dest \in Recipients,
           DepositNft(m, n, u, swap, dest)
    PROVE  HeldBy(K)'
<1>1. \A b \in Droplets : ~Recorded(b, n)
  BY HeldByApart, WalletHasNoRecord DEF DepositNft
<1>2. /\ deposit_state' = [deposit_state EXCEPT ![m] = @ \cup {n}]
      /\ nft_owner' = [nft_owner EXCEPT ![n] = SOLVENT_AUTHORITY]
      /\ UNCHANGED locker_state
  BY DEF DepositNft
<1> QED
  BY <1>1, <1>2, OneNftHeldBy DEF Recorded, HasLocker, AccountsTypeOK, IsKeepers

\* A redemption keeps HeldBy: the one record of the NFT is gone.
LEMMA RedeemNftHeldBy ==
    ASSUME NEW K, IsKeepers(K), AccountsTypeOK, HeldBy(K),
           NEW m \in Droplets, NEW n \in Nfts, NEW u \in Users,
           NEW swap \in BOOLEAN, NEW distributor \in Recipients, NEW to \in Users,
           RedeemNft(m, n, u, swap, distributor, to)
    PROVE  HeldBy(K)'
<1>1. /\ \A b \in Droplets \ {m} : ~Recorded(b, n)
      /\ ~HasLocker(m, n)
  BY DEF RedeemNft, HeldBy, Recorded
<1>2. /\ deposit_state' = [deposit_state EXCEPT ![m] = @ \ {n}]
      /\ nft_owner' = [nft_owner EXCEPT ![n] = to]
      /\ UNCHANGED locker_state
  BY DEF RedeemNft
<1>3. \A b \in Droplets : ~Recorded(b, n)'
  BY <1>1, <1>2 DEF Recorded, HasLocker, AccountsTypeOK
<1>4. \A k \in Nfts \ {n} :
          /\ \A b \in Droplets : /\ k \in deposit_state'[b] <=> k \in deposit_state[b]
                                 /\ locker_state'[b][k] = locker_state[b][k]
          /\ nft_owner'[k] = nft_owner[k]
  BY <1>2 DEF AccountsTypeOK
<1> QED
  BY <1>3, <1>4, OneNftHeldBy DEF Recorded, HasLocker

\* A loan keeps HeldBy.
LEMMA LockNftHeldBy ==
    ASSUME NEW K, IsKeepers(K), AccountsTypeOK, HeldBy(K),
           NEW m \in Droplets, NEW n \in Nfts, NEW u \in Users,
           NEW d \in LockDurations, NEW dest \in Recipients,
           LockNft(m, n, u, d, dest)
    PROVE  HeldBy(K)'
<1>1. \A b \in Droplets : ~Recorded(b, n)
  BY HeldByApart, WalletHasNoRecord DEF LockNft
<1>2. /\ locker_state' = [locker_state EXCEPT ![m][n] = NewLocker(m, u, d)]
      /\ nft_owner' = [nft_owner EXCEPT ![n] = SOLVENT_AUTHORITY]
      /\ UNCHANGED deposit_state
  BY DEF LockNft
<1>3. \A k \in Nfts \ {n} :
          /\ \A b \in Droplets : /\ k \in deposit_state'[b] <=> k \in deposit_state[b]
                                 /\ locker_state'[b][k] = locker_state[b][k]
          /\ nft_owner'[k] = nft_owner[k]
  BY <1>2 DEF AccountsTypeOK
<1>4. /\ \A b \in Droplets \ {m} : ~Recorded(b, n)'
      /\ n \notin deposit_state'[m]
      /\ nft_owner'[n] \in K
  BY <1>1, <1>2 DEF Recorded, HasLocker, AccountsTypeOK, IsKeepers
<1> QED
  BY <1>3, <1>4, OneNftHeldBy DEF Recorded, HasLocker

\* A repayment keeps HeldBy: the one record of the NFT is gone.
LEMMA UnlockNftHeldBy ==
    ASSUME NEW K, IsKeepers(K), AccountsTypeOK, HeldBy(K),
           NEW m \in Droplets, NEW n \in Nfts, NEW u \in Users,
           NEW to \in Users, UnlockNft(m, n, u, to)
    PROVE  HeldBy(K)'
<1>1. /\ \A b \in Droplets \ {m} : ~Recorded(b, n)
      /\ n \notin deposit_state[m]
  BY DEF UnlockNft, HeldBy, Recorded
<1>2. /\ locker_state' = [locker_state EXCEPT ![m][n] = NoLocker]
      /\ nft_owner' = [nft_owner EXCEPT ![n] = to]
      /\ UNCHANGED deposit_state
  BY DEF UnlockNft, CloseLocker
<1>3. \A k \in Nfts \ {n} :
          /\ \A b \in Droplets : /\ k \in deposit_state'[b] <=> k \in deposit_state[b]
                                 /\ locker_state'[b][k] = locker_state[b][k]
          /\ nft_owner'[k] = nft_owner[k]
  BY <1>2 DEF AccountsTypeOK
<1>4. \A b \in Droplets : ~Recorded(b, n)'
  BY <1>1, <1>2 DEF Recorded, HasLocker, AccountsTypeOK
<1> QED
  BY <1>3, <1>4, OneNftHeldBy DEF Recorded, HasLocker

\* A liquidation keeps HeldBy: the locker becomes a deposit.
LEMMA LiquidateLockerHeldBy ==
    ASSUME NEW K, IsKeepers(K), AccountsTypeOK, HeldBy(K),
           NEW m \in Droplets, NEW n \in Nfts, NEW dest \in Recipients,
           LiquidateLocker(m, n, dest)
    PROVE  HeldBy(K)'
<1>1. /\ \A b \in Droplets \ {m} : ~Recorded(b, n)
      /\ nft_owner[n] \in K
  BY DEF LiquidateLocker, HeldBy, Recorded
<1>2. /\ locker_state' = [locker_state EXCEPT ![m][n] = NoLocker]
      /\ deposit_state' = [deposit_state EXCEPT ![m] = @ \cup {n}]
      /\ UNCHANGED nft_owner
  BY DEF LiquidateLocker, CloseLocker
<1>3. \A k \in Nfts \ {n} :
          /\ \A b \in Droplets : /\ k \in deposit_state'[b] <=> k \in deposit_state[b]
                                 /\ locker_state'[b][k] = locker_state[b][k]
          /\ nft_owner'[k] = nft_owner[k]
  BY <1>2 DEF AccountsTypeOK
<1>4. /\ \A b \in Droplets \ {m} : ~Recorded(b, n)'
      /\ ~HasLocker(m, n)'
  BY <1>1, <1>2 DEF Recorded, HasLocker, AccountsTypeOK
<1> QED
  BY <1>1, <1>2, <1>3, <1>4, OneNftHeldBy DEF Recorded, HasLocker

\* Every step keeps HeldBy.
LEMMA NextHeldBy ==
    ASSUME NEW K, IsKeepers(K), AccountsTypeOK, HeldBy(K), [Next]_vars
    PROVE  HeldBy(K)'
<1>1. CASE Tick \/ UNCHANGED vars
  BY <1>1, HeldByKept DEF Tick, vars
<1>2. CASE WalletStep
  <2>1. UNCHANGED <<deposit_state, locker_state>>
    BY <1>2 DEF WalletStep, SplTransfer, SplBurn, NftTransfer
  <2>2. \A n \in Nfts : nft_owner[n] \in K => nft_owner'[n] \in K
    BY <1>2 DEF WalletStep, SplTransfer, SplBurn, NftTransfer, AccountsTypeOK, IsKeepers
  <2> QED
    BY <2>1, <2>2, HeldByKept
<1>3. ASSUME NEW m \in Droplets, BucketStep(m) PROVE HeldBy(K)'
  <2>1. CASE \E c \in Collections : CreateBucket(m, c) \/ UpdateCollectionInfo(m, c)
    BY <2>1, HeldByKept DEF CreateBucket, UpdateCollectionInfo
  <2> QED
    BY <1>3, <2>1, DepositNftHeldBy, RedeemNftHeldBy DEF BucketStep
<1>4. ASSUME NEW m \in Droplets, LockerStep(m) PROVE HeldBy(K)'
  <2>1. CASE \E flag \in BOOLEAN : SetLockingEnabled(m, flag)
    BY <2>1, HeldByKept DEF SetLockingEnabled
  <2>2. CASE \E supplied \in SUBSET {"scaler", "duration"}, s \in Scalers,
                d \in MaxDurations : UpdateLockingParams(m, supplied, s, d)
    BY <2>2, HeldByKept DEF UpdateLockingParams
  <2> QED
    BY <1>4, <2>1, <2>2, LockNftHeldBy, UnlockNftHeldBy, LiquidateLockerHeldBy
       DEF LockerStep
<1> QED
  BY <1>1, <1>2, <1>3, <1>4 DEF Next

\* Every step keeps Custody.
LEMMA NextCustody == AccountsTypeOK /\ Custody /\ [Next]_vars => Custody'
BY NextHeldBy, CustodyIsHeldBy

\* A step that touches no record and lets the authority keep its NFTs keeps
\* Custody.
LEMMA CustodyKept ==
    ASSUME Custody, UNCHANGED <<deposit_state, locker_state>>,
           \A n \in Nfts : nft_owner[n] = SOLVENT_AUTHORITY
                               => nft_owner'[n] = SOLVENT_AUTHORITY
    PROVE  Custody'
BY HeldByKept, CustodyIsHeldBy

\* In every reachable state an NFT has at most one record, over all the
\* buckets, and the program's account holds every NFT that has one.
THEOREM CustodyHolds == Spec => []Custody
<1>1. Init => Custody
  BY DEF Init, Custody, Recorded, HasLocker
<1>2. AccountsTypeOK /\ Custody /\ [Next]_vars => Custody'
  BY NextCustody
<1> QED
  BY <1>1, <1>2, AccountsTypeCorrect, PTL DEF Spec

-----------------------------------------------------------------------------
(* CountersMatch needs to know that a bucket yet to be created, whose      *)
(* counters create_bucket sets to zero, has no records.                    *)

EmptyUntilCreated ==
    \A m \in Droplets : m \notin created => deposit_state[m] = {} /\ LockedNfts(m) = {}

CountersInv == CountersMatch /\ EmptyUntilCreated

\* The records of a bucket are finitely many.
LEMMA RecordsFinite ==
    ASSUME AccountsTypeOK, NEW m \in Droplets
    PROVE  IsFiniteSet(deposit_state[m]) /\ IsFiniteSet(LockedNfts(m))
<1>1. deposit_state[m] \subseteq Nfts /\ LockedNfts(m) \subseteq Nfts
  BY DEF AccountsTypeOK, LockedNfts
<1> QED
  BY <1>1, StateAssumption, FS_Subset DEF StateAssumption

\* Adding to a finite set what it lacks counts one more, and removing what it
\* has counts one less.
LEMMA CountOneMore ==
    ASSUME NEW S, IsFiniteSet(S), NEW x, x \notin S
    PROVE  Cardinality(S \cup {x}) = Cardinality(S) + 1
BY FS_AddElement

LEMMA CountOneLess ==
    ASSUME NEW S, IsFiniteSet(S), NEW x \in S
    PROVE  Cardinality(S \ {x}) = Cardinality(S) - 1
BY FS_RemoveElement

\* A step that leaves the records and the counters alone keeps the counts.
LEMMA CountersKept ==
    ASSUME CountersInv, UNCHANGED <<created, deposit_state, locker_state>>,
           \A m \in Droplets :
               /\ bucket'[m].num_nfts_in_bucket = bucket[m].num_nfts_in_bucket
               /\ bucket'[m].num_nfts_in_lockers = bucket[m].num_nfts_in_lockers
    PROVE  CountersInv'
BY DEF CountersInv, CountersMatch, EmptyUntilCreated, LockedNfts, HasLocker

\* A step that changes the records and the counters of one created bucket m
\* keeps the counts if it keeps those of m.
LEMMA OneBucketCounts ==
    ASSUME AccountsTypeOK, CountersInv, NEW m \in created, m \in Droplets,
           UNCHANGED created,
           \A b \in Droplets \ {m} : /\ bucket'[b] = bucket[b]
                                     /\ deposit_state'[b] = deposit_state[b]
                                     /\ locker_state'[b] = locker_state[b],
           bucket'[m].num_nfts_in_bucket = Cardinality(deposit_state'[m]),
           bucket'[m].num_nfts_in_lockers = Cardinality(LockedNfts(m)'),
           bucket'[m].num_nfts_in_bucket <= U16_MAX,
           bucket'[m].num_nfts_in_lockers <= U16_MAX
    PROVE  CountersInv'
<1>1. \A b \in Droplets \ {m} : LockedNfts(b)' = LockedNfts(b)
  BY DEF LockedNfts, HasLocker
<1> QED
  BY <1>1 DEF CountersInv, CountersMatch, EmptyUntilCreated

\* A bucket that a deposit or a redemption changes has only its records of
\* deposits changed, and the counter of them.
LEMMA DepositsCounted ==
    ASSUME AccountsTypeOK, CountersInv, NEW m \in created, m \in Droplets,
           NEW D \in SUBSET Nfts, NEW i \in Nat, i = Cardinality(D), i <= U16_MAX,
           deposit_state' = [deposit_state EXCEPT ![m] = D],
           bucket' = [bucket EXCEPT ![m].num_nfts_in_bucket = i],
           UNCHANGED <<created, locker_state>>
    PROVE  CountersInv'
<1>1. bucket[m] \in Bucket
  BY DEF AccountsTypeOK
<1>2. /\ bucket'[m].num_nfts_in_bucket = Cardinality(deposit_state'[m])
      /\ bucket'[m].num_nfts_in_lockers = bucket[m].num_nfts_in_lockers
  BY <1>1 DEF AccountsTypeOK, Bucket
<1>3. LockedNfts(m)' = LockedNfts(m)
  BY DEF LockedNfts, HasLocker
<1>4. bucket'[m].num_nfts_in_bucket <= U16_MAX
  BY <1>2 DEF AccountsTypeOK
<1>5. \A b \in Droplets \ {m} : /\ bucket'[b] = bucket[b]
                                /\ deposit_state'[b] = deposit_state[b]
                                /\ locker_state'[b] = locker_state[b]
  BY DEF AccountsTypeOK
<1>6. /\ bucket'[m].num_nfts_in_lockers = Cardinality(LockedNfts(m)')
      /\ bucket'[m].num_nfts_in_lockers <= U16_MAX
  BY <1>2, <1>3 DEF CountersInv, CountersMatch
<1> QED
  BY <1>2, <1>4, <1>5, <1>6, OneBucketCounts

\* A bucket that a loan or a repayment changes has only its records of
\* lockers changed, and the counter of them.
LEMMA LockersCounted ==
    ASSUME AccountsTypeOK, CountersInv, NEW m \in created, m \in Droplets,
           NEW i \in Nat, i = Cardinality(LockedNfts(m)'), i <= U16_MAX,
           \A b \in Droplets \ {m} : locker_state'[b] = locker_state[b],
           bucket' = [bucket EXCEPT ![m].num_nfts_in_lockers = i],
           UNCHANGED <<created, deposit_state>>
    PROVE  CountersInv'
<1>1. bucket[m] \in Bucket
  BY DEF AccountsTypeOK
<1>2. /\ bucket'[m].num_nfts_in_lockers = i
      /\ bucket'[m].num_nfts_in_bucket = bucket[m].num_nfts_in_bucket
  BY <1>1 DEF AccountsTypeOK, Bucket
<1>3. \A b \in Droplets \ {m} : /\ bucket'[b] = bucket[b]
                                /\ deposit_state'[b] = deposit_state[b]
  BY DEF AccountsTypeOK
<1>4. /\ bucket'[m].num_nfts_in_bucket = Cardinality(deposit_state'[m])
      /\ bucket'[m].num_nfts_in_bucket <= U16_MAX
  BY <1>2 DEF CountersInv, CountersMatch
<1> QED
  BY <1>2, <1>3, <1>4, OneBucketCounts

\* A deposit is counted.
LEMMA DepositNftCounted ==
    ASSUME AccountsTypeOK, CountersInv, NEW m \in Droplets, NEW n \in Nfts, NEW u \in Users,
           NEW swap \in BOOLEAN, NEW dest \in Recipients,
           DepositNft(m, n, u, swap, dest)
    PROVE  CountersInv'
<1> DEFINE D == deposit_state[m] \cup {n}
           i == bucket[m].num_nfts_in_bucket + 1
<1>1. m \in created /\ n \notin deposit_state[m] /\ i <= U16_MAX
  BY DEF DepositNft
<1>2. bucket[m].num_nfts_in_bucket \in Nat
  BY DEF AccountsTypeOK, Bucket
<1>3. Cardinality(D) = Cardinality(deposit_state[m]) + 1
  BY <1>1, RecordsFinite, CountOneMore
<1>4. i \in Nat /\ i = Cardinality(D) /\ D \in SUBSET Nfts
  BY <1>2, <1>3 DEF CountersInv, CountersMatch, AccountsTypeOK
<1>5. /\ deposit_state' = [deposit_state EXCEPT ![m] = D]
      /\ bucket' = [bucket EXCEPT ![m].num_nfts_in_bucket = i]
      /\ UNCHANGED <<created, locker_state>>
  BY DEF DepositNft, AccountsTypeOK
<1> HIDE DEF D, i
<1> QED
  BY <1>1, <1>4, <1>5, DepositsCounted

\* A redemption is counted.
LEMMA RedeemNftCounted ==
    ASSUME AccountsTypeOK, CountersInv, NEW m \in Droplets, NEW n \in Nfts, NEW u \in Users,
           NEW swap \in BOOLEAN, NEW distributor \in Recipients, NEW to \in Users,
           RedeemNft(m, n, u, swap, distributor, to)
    PROVE  CountersInv'
<1> DEFINE D == deposit_state[m] \ {n}
           i == bucket[m].num_nfts_in_bucket - 1
<1>1. m \in created /\ n \in deposit_state[m]
  BY DEF RedeemNft
<1>2. /\ bucket[m].num_nfts_in_bucket \in Nat
      /\ bucket[m].num_nfts_in_bucket >= 1
      /\ bucket[m].num_nfts_in_bucket <= U16_MAX
      /\ U16_MAX \in Nat
  <2>1. U16_MAX \in Nat
    BY ConstantsType
  <2>2. bucket[m].num_nfts_in_bucket >= 1
    BY DEF RedeemNft
  <2> QED
    BY <2>1, <2>2 DEF AccountsTypeOK, Bucket, CountersInv, CountersMatch
<1>3. Cardinality(D) = Cardinality(deposit_state[m]) - 1
  BY <1>1, RecordsFinite, CountOneLess
<1>4. i \in Nat /\ i = Cardinality(D) /\ D \in SUBSET Nfts /\ i <= U16_MAX
  BY <1>2, <1>3 DEF CountersInv, CountersMatch, AccountsTypeOK
<1>5. /\ deposit_state' = [deposit_state EXCEPT ![m] = D]
      /\ bucket' = [bucket EXCEPT ![m].num_nfts_in_bucket = i]
      /\ UNCHANGED <<created, locker_state>>
  BY DEF RedeemNft, AccountsTypeOK
<1> HIDE DEF D, i
<1> QED
  BY <1>1, <1>4, <1>5, DepositsCounted

\* A loan is counted.
LEMMA LockNftCounted ==
    ASSUME AccountsTypeOK, CountersInv, NEW m \in Droplets, NEW n \in Nfts, NEW u \in Users,
           NEW d \in LockDurations, NEW dest \in Recipients,
           LockNft(m, n, u, d, dest)
    PROVE  CountersInv'
<1> DEFINE i == bucket[m].num_nfts_in_lockers + 1
<1>1. m \in created /\ n \notin LockedNfts(m) /\ i <= U16_MAX
  BY DEF LockNft, LockedNfts
<1>2. NewLocker(m, u, d) # NoLocker
  BY NewLockerType, BoundsAssumption, StateAssumption
     DEF LockNft, BoundsAssumption, StateAssumption
<1>3. locker_state' = [locker_state EXCEPT ![m][n] = NewLocker(m, u, d)]
  BY DEF LockNft
<1>4. LockedNfts(m)' = LockedNfts(m) \cup {n}
  BY <1>2, <1>3 DEF LockedNfts, HasLocker, AccountsTypeOK
<1>5. Cardinality(LockedNfts(m)') = Cardinality(LockedNfts(m)) + 1
  BY <1>1, <1>4, RecordsFinite, CountOneMore
<1>6. i \in Nat /\ i = Cardinality(LockedNfts(m)')
  BY <1>5 DEF CountersInv, CountersMatch, AccountsTypeOK, Bucket
<1>7. /\ \A b \in Droplets \ {m} : locker_state'[b] = locker_state[b]
      /\ bucket' = [bucket EXCEPT ![m].num_nfts_in_lockers = i]
      /\ UNCHANGED <<created, deposit_state>>
  BY <1>3 DEF LockNft, AccountsTypeOK
<1> HIDE DEF i
<1> QED
  BY <1>1, <1>6, <1>7, LockersCounted

\* A locker that is closed is one locked NFT less.
LEMMA CloseLockerCount ==
    ASSUME AccountsTypeOK, NEW m \in Droplets, NEW n \in Nfts, HasLocker(m, n), CloseLocker(m, n)
    PROVE  /\ Cardinality(LockedNfts(m)') = Cardinality(LockedNfts(m)) - 1
           /\ \A b \in Droplets \ {m} : locker_state'[b] = locker_state[b]
<1>1. locker_state' = [locker_state EXCEPT ![m][n] = NoLocker]
  BY DEF CloseLocker
<1>2. n \in LockedNfts(m) /\ LockedNfts(m)' = LockedNfts(m) \ {n}
  BY <1>1 DEF LockedNfts, HasLocker, AccountsTypeOK
<1> QED
  BY <1>1, <1>2, RecordsFinite, CountOneLess DEF AccountsTypeOK

\* A repayment is counted.
LEMMA UnlockNftCounted ==
    ASSUME AccountsTypeOK, CountersInv, NEW m \in Droplets, NEW n \in Nfts, NEW u \in Users,
           NEW to \in Users, UnlockNft(m, n, u, to)
    PROVE  CountersInv'
<1> DEFINE i == bucket[m].num_nfts_in_lockers - 1
<1>1. /\ m \in created
      /\ Cardinality(LockedNfts(m)') = Cardinality(LockedNfts(m)) - 1
      /\ \A b \in Droplets \ {m} : locker_state'[b] = locker_state[b]
  BY CloseLockerCount DEF UnlockNft
<1>2. /\ bucket[m].num_nfts_in_lockers \in Nat
      /\ bucket[m].num_nfts_in_lockers >= 1
      /\ bucket[m].num_nfts_in_lockers <= U16_MAX
      /\ U16_MAX \in Nat
  <2>1. U16_MAX \in Nat
    BY ConstantsType
  <2>2. bucket[m].num_nfts_in_lockers >= 1
    BY DEF UnlockNft
  <2> QED
    BY <2>1, <2>2 DEF AccountsTypeOK, Bucket, CountersInv, CountersMatch
<1>3. i \in Nat /\ i = Cardinality(LockedNfts(m)') /\ i <= U16_MAX
  BY <1>1, <1>2 DEF CountersInv, CountersMatch
<1>4. /\ bucket' = [bucket EXCEPT ![m].num_nfts_in_lockers = i]
      /\ UNCHANGED <<created, deposit_state>>
  BY DEF UnlockNft, AccountsTypeOK
<1> HIDE DEF i
<1> QED
  BY <1>1, <1>3, <1>4, LockersCounted

\* A liquidation is counted on both sides.
LEMMA LiquidateLockerCounted ==
    ASSUME AccountsTypeOK, CountersInv, NEW m \in Droplets, NEW n \in Nfts, NEW dest \in Recipients,
           LiquidateLocker(m, n, dest)
    PROVE  CountersInv'
<1>1. /\ m \in created
      /\ Cardinality(LockedNfts(m)') = Cardinality(LockedNfts(m)) - 1
      /\ \A b \in Droplets \ {m} : locker_state'[b] = locker_state[b]
  BY CloseLockerCount DEF LiquidateLocker
<1>2. /\ bucket[m] \in Bucket
      /\ bucket[m].num_nfts_in_lockers \in Nat
      /\ bucket[m].num_nfts_in_lockers <= U16_MAX
      /\ bucket[m].num_nfts_in_bucket \in Nat
      /\ bucket[m].num_nfts_in_bucket + 1 <= U16_MAX
      /\ U16_MAX \in Nat
  <2>1. bucket[m] \in Bucket
    BY DEF AccountsTypeOK
  <2>2. U16_MAX \in Nat
    BY ConstantsType
  <2>3. bucket[m].num_nfts_in_bucket + 1 <= U16_MAX
    BY DEF LiquidateLocker
  <2> QED
    BY <2>1, <2>2, <2>3 DEF Bucket, CountersInv, CountersMatch
<1>3. /\ bucket'[m].num_nfts_in_lockers = bucket[m].num_nfts_in_lockers - 1
      /\ bucket'[m].num_nfts_in_bucket = bucket[m].num_nfts_in_bucket + 1
      /\ \A b \in Droplets \ {m} : bucket'[b] = bucket[b]
  BY <1>2 DEF LiquidateLocker, LiquidatedCounters, AccountsTypeOK, Bucket
<1>4. /\ deposit_state'[m] = deposit_state[m] \cup {n} /\ n \notin deposit_state[m]
      /\ \A b \in Droplets \ {m} : deposit_state'[b] = deposit_state[b]
      /\ UNCHANGED created
  BY DEF LiquidateLocker, AccountsTypeOK
<1>5. Cardinality(deposit_state'[m]) = Cardinality(deposit_state[m]) + 1
  BY <1>4, RecordsFinite, CountOneMore
<1>6. /\ bucket'[m].num_nfts_in_bucket = Cardinality(deposit_state'[m])
      /\ bucket'[m].num_nfts_in_lockers = Cardinality(LockedNfts(m)')
      /\ bucket'[m].num_nfts_in_bucket <= U16_MAX
      /\ bucket'[m].num_nfts_in_lockers <= U16_MAX
  BY <1>1, <1>2, <1>3, <1>5 DEF CountersInv, CountersMatch
<1> QED
  BY <1>1, <1>3, <1>4, <1>6, OneBucketCounts

\* Creating a bucket sets its counters to zero, which is the number of its
\* records.
LEMMA CreateBucketCounted ==
    ASSUME AccountsTypeOK, CountersInv, NEW m \in Droplets, NEW c \in Collections,
           CreateBucket(m, c)
    PROVE  CountersInv'
<1>1. /\ deposit_state[m] = {} /\ LockedNfts(m) = {}
      /\ \A b \in Droplets : LockedNfts(b)' = LockedNfts(b)
      /\ U16_MAX \in Nat
  BY ConstantsType DEF CreateBucket, CountersInv, EmptyUntilCreated, LockedNfts, HasLocker
<1>2. /\ bucket'[m].num_nfts_in_bucket = 0 /\ bucket'[m].num_nfts_in_lockers = 0
      /\ \A b \in Droplets \ {m} : bucket'[b] = bucket[b]
      /\ created' = created \cup {m} /\ UNCHANGED deposit_state
  BY DEF CreateBucket, NewBucket, AccountsTypeOK
<1>3. CountersMatch'
  BY <1>1, <1>2, FS_EmptySet DEF CountersInv, CountersMatch
<1> QED
  BY <1>1, <1>2, <1>3 DEF CountersInv, EmptyUntilCreated

\* The administrator's settings leave the counters alone.
LEMMA SettingsCounted ==
    ASSUME AccountsTypeOK, CountersInv, NEW m \in Droplets,
           \/ \E c \in Collections : UpdateCollectionInfo(m, c)
           \/ \E flag \in BOOLEAN : SetLockingEnabled(m, flag)
           \/ \E supplied \in SUBSET {"scaler", "duration"}, s \in Scalers,
                 d \in MaxDurations : UpdateLockingParams(m, supplied, s, d)
    PROVE  CountersInv'
<1>1. \A b \in Droplets : bucket[b] \in Bucket
  BY DEF AccountsTypeOK
<1>2. CASE \E c \in Collections : UpdateCollectionInfo(m, c)
  BY <1>1, <1>2, CountersKept DEF UpdateCollectionInfo, AccountsTypeOK, Bucket
<1>3. CASE \E flag \in BOOLEAN : SetLockingEnabled(m, flag)
  BY <1>1, <1>3, CountersKept DEF SetLockingEnabled, AccountsTypeOK, Bucket
<1>4. CASE \E supplied \in SUBSET {"scaler", "duration"}, s \in Scalers,
              d \in MaxDurations : UpdateLockingParams(m, supplied, s, d)
  <2>1. PICK supplied \in SUBSET {"scaler", "duration"}, s \in Scalers,
             d \in MaxDurations : UpdateLockingParams(m, supplied, s, d)
    BY <1>4
  <2> DEFINE i == IF "scaler" \in supplied THEN s ELSE bucket[m].interest_scaler
             j == IF "duration" \in supplied THEN d ELSE bucket[m].max_locker_duration
  <2>2. bucket' = [bucket EXCEPT ![m].interest_scaler = i, ![m].max_locker_duration = j]
    BY <2>1 DEF UpdateLockingParams
  <2>3. UNCHANGED <<created, deposit_state, locker_state>>
    BY <2>1 DEF UpdateLockingParams
  <2> HIDE DEF i, j
  <2> QED
    BY <1>1, <2>2, <2>3, CountersKept DEF AccountsTypeOK, Bucket
<1> QED
  BY <1>2, <1>3, <1>4

\* Every step keeps the counts.
LEMMA NextCounted == AccountsTypeOK /\ CountersInv /\ [Next]_vars => CountersInv'
<1> SUFFICES ASSUME AccountsTypeOK, CountersInv, [Next]_vars PROVE CountersInv'
  OBVIOUS
<1>1. CASE Tick \/ WalletStep \/ UNCHANGED vars
  BY <1>1, CountersKept
     DEF Tick, WalletStep, SplTransfer, SplBurn, NftTransfer, vars
<1>2. ASSUME NEW m \in Droplets, BucketStep(m) PROVE CountersInv'
  BY <1>2, CreateBucketCounted, SettingsCounted, DepositNftCounted, RedeemNftCounted
     DEF BucketStep
<1>3. ASSUME NEW m \in Droplets, LockerStep(m) PROVE CountersInv'
  BY <1>3, SettingsCounted, LockNftCounted, UnlockNftCounted, LiquidateLockerCounted
     DEF LockerStep
<1> QED
  BY <1>1, <1>2, <1>3 DEF Next

\* There are no records at first, and the counters are 0.
LEMMA InitCounted == Init => CountersInv
<1> SUFFICES ASSUME Init PROVE CountersInv
  OBVIOUS
<1>1. \A m \in Droplets : LockedNfts(m) = {} /\ deposit_state[m] = {}
  BY DEF Init, LockedNfts, HasLocker
<1>2. \A m \in Droplets : /\ bucket[m].num_nfts_in_bucket = 0
                          /\ bucket[m].num_nfts_in_lockers = 0
  BY DEF Init, NewBucket
<1>3. Cardinality({}) = 0 /\ 0 <= U16_MAX
  BY FS_EmptySet, ConstantsType
<1> QED
  BY <1>1, <1>2, <1>3 DEF CountersInv, CountersMatch, EmptyUntilCreated

\* In every reachable state the counters of each bucket are the numbers of
\* its DepositState and LockerState accounts.
THEOREM CountersMatchHolds == Spec => []CountersMatch
<1>1. Init => CountersInv
  BY InitCounted
<1>2. AccountsTypeOK /\ CountersInv /\ [Next]_vars => CountersInv'
  BY NextCounted
<1>3. CountersInv => CountersMatch
  BY DEF CountersInv
<1> QED
  BY <1>1, <1>2, <1>3, AccountsTypeCorrect, PTL DEF Spec
=============================================================================
