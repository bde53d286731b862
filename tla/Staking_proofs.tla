--------------------------- MODULE Staking_proofs ---------------------------
(***************************************************************************)
(* Staking is invisible to buckets and lockers: for every value of the     *)
(* constants, Staking implements Solvent, and the program with staking has *)
(* the invariants of Solvent.                                              *)
(***************************************************************************)
EXTENDS Staking, Vaults_proofs

\* An NFT that moves outside the farms moves alike for Solvent.
LEMMA CustodianMoves ==
    ASSUME StakingTypeOK, NEW n \in Nfts, NEW to \in Users \cup {SOLVENT_AUTHORITY},
           nft_owner' = [nft_owner EXCEPT ![n] = to]
    PROVE  custodian' = [custodian EXCEPT ![n] = to]
BY StakingAssumption DEF custodian, StakingTypeOK, StakingAssumption

\* What is not in a farm is where Solvent sees it.
LEMMA CustodianOutside ==
    ASSUME NEW n \in Nfts, nft_owner[n] \in Users \cup {SOLVENT_AUTHORITY}
    PROVE  custodian[n] = nft_owner[n]
BY StakingAssumption DEF custodian, StakingAssumption

-----------------------------------------------------------------------------
(* Every step of Solvent here is one of Solvent as Solvent sees it. *)

\* A deposit.
LEMMA DepositNftImplemented ==
    ASSUME StakingTypeOK, NEW m \in Droplets, NEW n \in Nfts, NEW u \in Users,
           NEW swap \in BOOLEAN, NEW dest \in Recipients,
           DepositNft(m, n, u, swap, dest)
    PROVE  S!DepositNft(m, n, u, swap, dest)
<1>1. custodian[n] = u
  BY CustodianOutside DEF DepositNft
<1>2. custodian' = [custodian EXCEPT ![n] = SOLVENT_AUTHORITY]
  BY CustodianMoves DEF DepositNft
<1> QED
  BY <1>1, <1>2 DEF DepositNft, S!DepositNft, NftAccepted, S!NftAccepted, MintedByDeposit,
     S!MintedByDeposit, NFT_VALUE, S!NFT_VALUE, MintTo, S!MintTo

\* The arithmetic of loans is the same.
LEMMA SameLoans ==
    /\ \A args : S!LoanDefined(args) <=> LoanDefined(args)
    /\ \A args : S!CalculateLoan(args) = CalculateLoan(args)
BY DEF S!LoanDefined, LoanDefined, S!CalculateLoan, CalculateLoan, S!ScaledInterest,
   ScaledInterest, S!RawInterest, RawInterest, S!Numerator, Numerator, S!Denominator,
   Denominator, S!NFT_VALUE, NFT_VALUE

\* The arithmetic of liquidations is the same.
LEMMA SameLiquidation ==
    \A p : /\ S!LiquidationDefined(p) <=> LiquidationDefined(p)
           /\ S!ToStoreInVault(p) = ToStoreInVault(p)
           /\ S!LiquidationReward(p) = LiquidationReward(p)
BY DEF S!LiquidationDefined, LiquidationDefined, S!ToStoreInVault, ToStoreInVault,
   S!LiquidationReward, LiquidationReward, S!DropletsToMint, DropletsToMint,
   S!NFT_VALUE, NFT_VALUE

\* The interest of a locker, its expiry and the fees of a redemption are the
\* same.
LEMMA SameTerms ==
    /\ \A locker : /\ S!InterestDue(locker) = InterestDue(locker)
                   /\ S!InterestDueDefined(locker) <=> InterestDueDefined(locker)
                   /\ S!Active(locker) <=> Active(locker)
                   /\ S!Expired(locker) <=> Expired(locker)
    /\ \A swap : /\ S!DistributorFee(swap) = DistributorFee(swap)
                /\ S!TreasuryFee(swap) = TreasuryFee(swap)
BY DEF S!InterestDue, InterestDue, S!Interest, Interest, S!InterestDueDefined,
   InterestDueDefined, S!InterestDefined, InterestDefined, S!Active, Active, S!Expired,
   Expired, S!DistributorFee, DistributorFee, S!TreasuryFee, TreasuryFee, S!TotalFee,
   TotalFee, S!FeeBasisPoints, FeeBasisPoints, S!NFT_VALUE, NFT_VALUE, S!MAX_BASIS_POINTS,
   MAX_BASIS_POINTS

\* A redemption.
LEMMA RedeemNftImplemented ==
    ASSUME StakingTypeOK, NEW m \in Droplets, NEW n \in Nfts, NEW u \in Users,
           NEW swap \in BOOLEAN, NEW distributor \in Recipients, NEW to \in Users,
           RedeemNft(m, n, u, swap, distributor, to)
    PROVE  S!RedeemNft(m, n, u, swap, distributor, to)
<1>1. custodian[n] = SOLVENT_AUTHORITY
  BY CustodianOutside DEF RedeemNft
<1>2. custodian' = [custodian EXCEPT ![n] = to]
  BY CustodianMoves DEF RedeemNft
<1>3. S!BurnedByRedemption(m, u, swap) = BurnedByRedemption(m, u, swap)
  BY DEF S!BurnedByRedemption, BurnedByRedemption, S!Burn, Burn, S!NFT_VALUE, NFT_VALUE
<1>4. S!FeePaidToDistributor(m, u, swap, distributor)
          = FeePaidToDistributor(m, u, swap, distributor)
  BY <1>3, SameTerms DEF S!FeePaidToDistributor, FeePaidToDistributor,
     S!MintTo, MintTo, S!Burn, Burn, S!Transfer, Transfer
<1>5. S!FeesPaid(m, u, swap, distributor) = FeesPaid(m, u, swap, distributor)
  BY <1>4, SameTerms DEF S!FeesPaid, FeesPaid, S!MintTo, MintTo, S!Burn, Burn, S!Transfer, Transfer
<1>6. S!RedemptionAffordable(m, u, swap, distributor)
  BY <1>3, <1>4, SameTerms DEF RedeemNft, S!RedemptionAffordable, RedemptionAffordable,
     S!CanPay, CanPay, S!NFT_VALUE, NFT_VALUE
<1> QED
  BY <1>1, <1>2, <1>5, <1>6 DEF RedeemNft, S!RedeemNft, SwapAllowed, S!SwapAllowed, SwapSpent,
     S!SwapSpent

\* A loan.
LEMMA LockNftImplemented ==
    ASSUME StakingTypeOK, NEW m \in Droplets, NEW n \in Nfts, NEW u \in Users,
           NEW d \in LockDurations, NEW dest \in Recipients,
           LockNft(m, n, u, d, dest)
    PROVE  S!LockNft(m, n, u, d, dest)
<1>1. custodian[n] = u
  BY CustodianOutside DEF LockNft
<1>2. custodian' = [custodian EXCEPT ![n] = SOLVENT_AUTHORITY]
  BY CustodianMoves DEF LockNft
<1>3. S!LoanArgs(m, d) = LoanArgs(m, d)
  BY DEF S!LoanArgs, LoanArgs
<1>4. S!NewLocker(m, u, d) = NewLocker(m, u, d)
  BY <1>3, SameLoans DEF S!NewLocker, NewLocker
<1>5. S!LoanDefined(S!LoanArgs(m, d))
  BY <1>3, SameLoans DEF LockNft
<1> QED
  BY <1>1, <1>2, <1>4, <1>5 DEF LockNft, S!LockNft, HasLocker, S!HasLocker, NftAccepted,
     S!NftAccepted, DurationAllowed, S!DurationAllowed, S!MintTo, MintTo

\* A repayment.
LEMMA UnlockNftImplemented ==
    ASSUME StakingTypeOK, NEW m \in Droplets, NEW n \in Nfts, NEW u \in Users,
           NEW to \in Users, UnlockNft(m, n, u, to)
    PROVE  S!UnlockNft(m, n, u, to)
<1>1. custodian[n] = SOLVENT_AUTHORITY
  BY CustodianOutside DEF UnlockNft
<1>2. custodian' = [custodian EXCEPT ![n] = to]
  BY CustodianMoves DEF UnlockNft
<1> QED
  BY <1>1, <1>2, SameTerms DEF UnlockNft, S!UnlockNft, HasLocker, S!HasLocker,
     CloseLocker, S!CloseLocker, S!CanPay, CanPay, S!MintTo, MintTo, S!Burn, Burn,
     S!Transfer, Transfer

\* A liquidation.
LEMMA LiquidateLockerImplemented ==
    ASSUME NEW m \in Droplets, NEW n \in Nfts, NEW dest \in Recipients,
           LiquidateLocker(m, n, dest)
    PROVE  S!LiquidateLocker(m, n, dest)
<1>1. custodian' = custodian
  BY DEF LiquidateLocker, custodian
<1> QED
  BY <1>1, SameTerms, SameLiquidation DEF LiquidateLocker, S!LiquidateLocker, HasLocker,
     S!HasLocker, CloseLocker, S!CloseLocker, S!LiquidatedCounters, LiquidatedCounters,
     S!MintTo, MintTo

\* The administrator's instructions, which move no NFT.
LEMMA SettingsImplemented ==
    ASSUME NEW m \in Droplets
    PROVE  /\ \A c : CreateBucket(m, c) => S!CreateBucket(m, c)
           /\ \A c : UpdateCollectionInfo(m, c) => S!UpdateCollectionInfo(m, c)
           /\ \A flag : SetLockingEnabled(m, flag) => S!SetLockingEnabled(m, flag)
           /\ \A supplied, s, d : UpdateLockingParams(m, supplied, s, d)
                  => S!UpdateLockingParams(m, supplied, s, d)
BY DEF CreateBucket, S!CreateBucket, NewBucket, S!NewBucket, UpdateCollectionInfo,
   S!UpdateCollectionInfo, SetLockingEnabled, S!SetLockingEnabled, UpdateLockingParams,
   S!UpdateLockingParams, ScalerValid, S!ScalerValid, custodian

\* What wallets do on their own.
LEMMA WalletStepImplemented ==
    ASSUME StakingTypeOK, WalletStep
    PROVE  S!WalletStep
<1>1. ASSUME NEW m \in Droplets, NEW from \in Holders, NEW amount \in TransferAmounts,
             NEW to \in Holders, SplTransfer(m, from, to, amount)
      PROVE  S!SplTransfer(m, from, to, amount)
  BY <1>1 DEF SplTransfer, S!SplTransfer, S!CanPay, CanPay, S!MintTo, MintTo, S!Burn,
     Burn, S!Transfer, Transfer, custodian
<1>2. ASSUME NEW m \in Droplets, NEW from \in Holders, NEW amount \in TransferAmounts,
             SplBurn(m, from, amount)
      PROVE  S!SplBurn(m, from, amount)
  BY <1>2 DEF SplBurn, S!SplBurn, S!CanPay, CanPay, S!Burn, Burn, custodian
<1>3. ASSUME NEW n \in Nfts, NEW to \in Users \cup {SOLVENT_AUTHORITY}, NftTransfer(n, to)
      PROVE  S!NftTransfer(n, to)
  <2>1. custodian[n] \in Users
    BY <1>3, CustodianOutside DEF NftTransfer
  <2>2. custodian' = [custodian EXCEPT ![n] = to]
    BY <1>3, CustodianMoves DEF NftTransfer
  <2> QED
    BY <1>3, <2>1, <2>2 DEF NftTransfer, S!NftTransfer
<1>4. S!Holders = Holders
  BY DEF S!Holders, Holders
<1> QED
  BY <1>1, <1>2, <1>3, <1>4 DEF WalletStep, S!WalletStep

\* Every step of Solvent.
LEMMA NextImplemented == StakingTypeOK /\ Next => S!Next
<1> SUFFICES ASSUME StakingTypeOK, Next PROVE S!Next
  OBVIOUS
<1>1. CASE Tick
  BY <1>1 DEF Tick, S!Tick, S!Next, custodian
<1>2. CASE WalletStep
  BY <1>2, WalletStepImplemented DEF S!Next
<1>3. ASSUME NEW m \in Droplets, BucketStep(m)
      PROVE  S!Next
  <2>1. S!BucketStep(m)
    BY <1>3, SettingsImplemented, DepositNftImplemented, RedeemNftImplemented
       DEF BucketStep, S!BucketStep
  <2> QED
    BY <2>1 DEF S!Next
<1>4. ASSUME NEW m \in Droplets, LockerStep(m)
      PROVE  S!Next
  <2>1. S!LockerStep(m)
    BY <1>4, SettingsImplemented, LockNftImplemented, UnlockNftImplemented,
       LiquidateLockerImplemented DEF LockerStep, S!LockerStep
  <2> QED
    BY <2>1 DEF S!Next
<1> QED
  BY <1>1, <1>2, <1>3, <1>4 DEF Next

-----------------------------------------------------------------------------
(* The steps of staking move NFTs between the authority and the farms. *)

\* Staking and unstaking are no steps of Solvent.
LEMMA StakingStutters ==
    ASSUME StakingTypeOK, FarmCustody, StakingStep
    PROVE  UNCHANGED S!vars
<1>1. ASSUME UNCHANGED <<vars, staking, farmer>> \/ UNCHANGED <<vars, config, farmer>>
      PROVE  UNCHANGED S!vars
  BY <1>1 DEF vars, S!vars, custodian
<1>2. ASSUME NEW m \in Droplets, NEW n \in Nfts, StakeNft(m, n)
      PROVE  UNCHANGED S!vars
  <2>1. staking[m].staking_params \in Farms
    BY <1>2 DEF StakeNft, StakingTypeOK
  <2>2. custodian' = custodian
    BY <1>2, <2>1 DEF StakeNft, StakingTypeOK, custodian
  <2> QED
    BY <1>2, <2>2 DEF StakeNft, SolventVarsButOwner, S!vars
<1>3. ASSUME NEW m \in Droplets, NEW n \in Nfts, NEW sent \in LamportsSent,
             UnstakeNft(m, n, sent)
      PROVE  UNCHANGED S!vars
  <2>1. staking[m].staking_params \in Farms
    BY <1>3 DEF UnstakeNft, StakingTypeOK
  <2>2. CASE UNCHANGED nft_owner
    BY <1>3, <2>2 DEF UnstakeNft, SolventVarsButOwner, S!vars, custodian
  <2>3. CASE /\ WithdrawDue(staking[m].staking_params, n)
             /\ nft_owner' = [nft_owner EXCEPT ![n] = GemDestination]
    <3>1. nft_owner[n] \in Farms
      BY <2>1, <2>3 DEF WithdrawDue, FarmCustody
    <3>2. custodian' = custodian
      BY <2>3, <3>1, StakingAssumption
         DEF custodian, GemDestination, StakingTypeOK, StakingAssumption
    <3> QED
      BY <1>3, <3>2 DEF UnstakeNft, SolventVarsButOwner, S!vars
  <2> QED
    BY <1>3, <2>2, <2>3 DEF UnstakeNft
<1> QED
  BY <1>1, <1>2, <1>3 DEF StakingStep, UpdateFarm, SetStakingEnabled, UpdateStakingParams

-----------------------------------------------------------------------------
(* Types, and the farmers against the NFTs in the farms *)

\* The initial state has the types, and nothing is in a farm.
LEMMA StakingInitTypes == StakingInit => StakingTypeOK /\ FarmCustody
BY StakingAssumption
   DEF StakingInit, Init, StakingTypeOK, FarmCustody, FarmerStates, NewStaking, NewFarmer,
       StakingAssumption

\* created grows only within the droplets.
LEMMA NextCreated ==
    ASSUME created \subseteq Droplets, Next
    PROVE  created' \subseteq Droplets
<1>1. ASSUME NEW m \in Droplets, BucketStep(m) \/ LockerStep(m)
      PROVE  created' \subseteq Droplets
  BY <1>1 DEF BucketStep, CreateBucket, UpdateCollectionInfo, DepositNft, RedeemNft,
     LockerStep, SetLockingEnabled, UpdateLockingParams, LockNft, UnlockNft, LiquidateLocker
<1> QED
  BY <1>1 DEF Next, Tick, WalletStep, SplTransfer, SplBurn, NftTransfer

\* A step of Solvent keeps both: it moves no NFT into or out of a farm.
LEMMA SolventStepKeepsStaking ==
    ASSUME StakingTypeOK, FarmCustody, SolventStep
    PROVE  StakingTypeOK' /\ FarmCustody'
<1>1. created' \subseteq Droplets
  BY NextCreated DEF SolventStep, StakingTypeOK
<1>2. /\ nft_owner' \in [Nfts -> Users \cup {SOLVENT_AUTHORITY} \cup Farms]
      /\ \A f \in Farms, n \in Nfts : nft_owner'[n] = f <=> nft_owner[n] = f
  BY NextMovesNft, StakingAssumption
     DEF SolventStep, StakingTypeOK, StakingAssumption
<1>3. staking' \in [Droplets ->
          [is_staking_enabled : BOOLEAN, staking_params : Farms \cup {NoFarm}]]
  BY DEF SolventStep, StakingTypeOK, NewStaking
<1>4. UNCHANGED <<config, farmer>>
  BY DEF SolventStep
<1> QED
  BY <1>1, <1>2, <1>3, <1>4 DEF StakingTypeOK, FarmCustody

\* Staking an NFT of the authority makes its farmer staked.
LEMMA StakeNftKeepsStaking ==
    ASSUME StakingTypeOK, FarmCustody, NEW m \in Droplets, NEW n \in Nfts, StakeNft(m, n)
    PROVE  StakingTypeOK' /\ FarmCustody'
<1> DEFINE f == staking[m].staking_params
<1>1. f \in Farms
  BY DEF StakeNft, StakingTypeOK
<1>2. /\ nft_owner' = [nft_owner EXCEPT ![n] = f]
      /\ farmer' = [farmer EXCEPT ![f][n] = Deposited(f, n)]
      /\ nft_owner[n] = SOLVENT_AUTHORITY
      /\ UNCHANGED <<created, staking, config>>
  BY DEF StakeNft, SolventVarsButOwner
<1> HIDE DEF f
<1>3. /\ Deposited(f, n) \in [state : FarmerStates, cooldown_ends_ts : Nat]
      /\ Deposited(f, n).state = "Staked"
  BY <1>1 DEF Deposited, StakingTypeOK, FarmerStates
<1>4. StakingTypeOK'
  BY <1>1, <1>2, <1>3 DEF StakingTypeOK
<1>5. ASSUME NEW g \in Farms, NEW k \in Nfts
      PROVE  nft_owner'[k] = g <=> farmer'[g][k].state \in {"Staked", "PendingCooldown"}
  BY <1>1, <1>2, <1>3, StakingAssumption DEF StakingTypeOK, FarmCustody, StakingAssumption
<1> QED
  BY <1>4, <1>5 DEF FarmCustody

\* Unstaking an NFT withdraws it as its farmer becomes unstaked.
LEMMA UnstakeNftKeepsStaking ==
    ASSUME StakingTypeOK, FarmCustody, now \in Nat, NEW m \in Droplets, NEW n \in Nfts,
           NEW sent \in LamportsSent, UnstakeNft(m, n, sent)
    PROVE  StakingTypeOK' /\ FarmCustody'
<1> DEFINE f == staking[m].staking_params
<1>1. f \in Farms
  BY DEF UnstakeNft, StakingTypeOK
<1>2. /\ \/ farmer[f][n].state = "Staked" /\ UNCHANGED nft_owner
         \/ /\ farmer[f][n].state = "PendingCooldown"
            /\ nft_owner' = [nft_owner EXCEPT ![n] = SOLVENT_AUTHORITY]
      /\ farmer' = [farmer EXCEPT ![f][n] = AfterUnstake(f, n)]
      /\ UNCHANGED <<created, staking, config>>
  BY DEF UnstakeNft, WithdrawDue, GemDestination, SolventVarsButOwner
<1> HIDE DEF f
<1>3. /\ AfterUnstake(f, n) \in [state : FarmerStates, cooldown_ends_ts : Nat]
      /\ farmer[f][n].state = "Staked" => AfterUnstake(f, n).state = "PendingCooldown"
      /\ farmer[f][n].state = "PendingCooldown" => AfterUnstake(f, n).state = "Unstaked"
  <2>1. /\ farmer[f][n] \in [state : FarmerStates, cooldown_ends_ts : Nat]
        /\ config[f].cooldown_period_sec \in Nat
    BY <1>1 DEF StakingTypeOK, FarmConfig
  <2>2. now + config[f].cooldown_period_sec \in Nat
    BY <2>1
  <2> QED
    BY <2>1, <2>2 DEF AfterUnstake, FarmerStates
<1>4. StakingTypeOK'
  BY <1>1, <1>2, <1>3 DEF StakingTypeOK
<1>5. ASSUME NEW g \in Farms, NEW k \in Nfts
      PROVE  nft_owner'[k] = g <=> farmer'[g][k].state \in {"Staked", "PendingCooldown"}
  <2>1. CASE g = f /\ k = n
    BY <1>1, <1>2, <1>3, <2>1, StakingAssumption
       DEF StakingTypeOK, FarmCustody, StakingAssumption
  <2>2. CASE k = n /\ g # f
    <3>1. farmer'[g][k] = farmer[g][k]
      BY <1>2, <2>2 DEF StakingTypeOK
    <3>2. nft_owner[n] = f
      BY <1>1, <1>2 DEF FarmCustody
    <3> QED
      BY <1>1, <1>2, <2>2, <3>1, <3>2, StakingAssumption
         DEF StakingTypeOK, FarmCustody, StakingAssumption
  <2>3. CASE k # n
    <3>1. farmer'[g][k] = farmer[g][k] /\ nft_owner'[k] = nft_owner[k]
      BY <1>2, <2>3 DEF StakingTypeOK
    <3> QED
      BY <3>1 DEF FarmCustody
  <2> QED
    BY <2>1, <2>2, <2>3
<1> QED
  BY <1>4, <1>5 DEF FarmCustody

\* What the managers of farms and the administrator set keeps both.
LEMMA SettingsKeepStaking ==
    ASSUME StakingTypeOK, FarmCustody,
           \/ \E f \in Farms, c \in FarmConfigs : UpdateFarm(f, c)
           \/ \E m \in Droplets, flag \in BOOLEAN : SetStakingEnabled(m, flag)
           \/ \E m \in Droplets, f \in Farms : UpdateStakingParams(m, f)
    PROVE  StakingTypeOK' /\ FarmCustody'
<1>1. /\ UNCHANGED <<created, nft_owner, farmer>>
  BY DEF UpdateFarm, SetStakingEnabled, UpdateStakingParams, vars
<1>2. config' \in [Farms -> FarmConfig]
  BY StakingAssumption
     DEF UpdateFarm, SetStakingEnabled, UpdateStakingParams, StakingTypeOK, StakingAssumption
<1>3. staking' \in [Droplets ->
          [is_staking_enabled : BOOLEAN, staking_params : Farms \cup {NoFarm}]]
  BY DEF UpdateFarm, SetStakingEnabled, UpdateStakingParams, StakingTypeOK
<1> QED
  BY <1>1, <1>2, <1>3 DEF StakingTypeOK, FarmCustody

\* The inductive invariant: the clock is a number, by which a cooldown ends.
StakingInv == StakingTypeOK /\ FarmCustody /\ now \in Nat

\* The clock stays a number.
LEMMA NowCounts ==
    ASSUME now \in Nat, StakingNext
    PROVE  now' \in Nat
<1>1. ASSUME NEW m \in Droplets, BucketStep(m) \/ LockerStep(m)
      PROVE  UNCHANGED now
  BY <1>1 DEF BucketStep, CreateBucket, UpdateCollectionInfo, DepositNft, RedeemNft,
     LockerStep, SetLockingEnabled, UpdateLockingParams, LockNft, UnlockNft, LiquidateLocker
<1>2. CASE SolventStep
  BY <1>1, <1>2 DEF SolventStep, Next, Tick, WalletStep, SplTransfer, SplBurn, NftTransfer
<1>3. CASE StakingStep
  BY <1>3 DEF StakingStep, UpdateFarm, SetStakingEnabled, UpdateStakingParams, StakeNft,
     UnstakeNft, vars, SolventVarsButOwner
<1> QED
  BY <1>2, <1>3 DEF StakingNext

\* Every step keeps the inductive invariant.
LEMMA StakingInvKept == StakingInv /\ [StakingNext]_<<vars, stakingVars>> => StakingInv'
<1> SUFFICES ASSUME StakingInv, [StakingNext]_<<vars, stakingVars>> PROVE StakingInv'
  OBVIOUS
<1>1. CASE SolventStep
  BY <1>1, SolventStepKeepsStaking, NowCounts DEF StakingInv, StakingNext
<1>2. CASE StakingStep
  <2>1. now' \in Nat
    BY <1>2, NowCounts DEF StakingInv, StakingNext
  <2> QED
    BY <1>2, <2>1, SettingsKeepStaking, StakeNftKeepsStaking, UnstakeNftKeepsStaking
       DEF StakingInv, StakingStep
<1>3. CASE UNCHANGED <<vars, stakingVars>>
  BY <1>3 DEF StakingInv, StakingTypeOK, FarmCustody, vars, stakingVars
<1> QED
  BY <1>1, <1>2, <1>3 DEF StakingNext

LEMMA StakingInvHolds == StakingSpec => []StakingInv
<1>1. StakingInit => StakingInv
  BY StakingInitTypes DEF StakingInv, StakingInit, Init
<1> QED
  BY <1>1, StakingInvKept, PTL DEF StakingSpec

\* In every reachable state the types are right: an NFT is a wallet's, the
\* authority's or in a farm.
THEOREM StakingTypeCorrect == StakingSpec => []StakingTypeOK
<1>1. StakingInv => StakingTypeOK
  BY DEF StakingInv
<1> QED
  BY <1>1, StakingInvHolds, PTL

\* In every reachable state an NFT is in a farm just while its farmer there
\* holds it.
THEOREM FarmCustodyHolds == StakingSpec => []FarmCustody
<1>1. StakingInv => FarmCustody
  BY DEF StakingInv
<1> QED
  BY <1>1, StakingInvHolds, PTL

\* Staking implements Solvent: buckets and lockers keep every promise proved of
\* Solvent, whatever is staked, unstaked and configured.
THEOREM StakingImplementsSolvent == StakingSpec => SolventImplemented
<1>1. StakingInit => S!Init
  <2> SUFFICES ASSUME StakingInit PROVE S!Init
    OBVIOUS
  <2>1. custodian = nft_owner
    BY StakingAssumption DEF StakingInit, Init, custodian, StakingAssumption
  <2> QED
    BY <2>1 DEF StakingInit, Init, S!Init, NewBucket, S!NewBucket, Holders, S!Holders
<1>2. StakingInv /\ [StakingNext]_<<vars, stakingVars>> => [S!Next]_S!vars
  <2>1. ASSUME StakingInv, SolventStep PROVE S!Next
    BY <2>1, NextImplemented DEF StakingInv, SolventStep
  <2>2. ASSUME StakingInv, StakingStep PROVE UNCHANGED S!vars
    BY <2>2, StakingStutters DEF StakingInv
  <2>3. ASSUME UNCHANGED <<vars, stakingVars>> PROVE UNCHANGED S!vars
    BY <2>3 DEF vars, S!vars, custodian
  <2> QED
    BY <2>1, <2>2, <2>3 DEF StakingNext
<1> QED
  BY <1>1, <1>2, StakingInvHolds, PTL DEF StakingSpec, SolventImplemented, S!Spec

-----------------------------------------------------------------------------
(* The invariants of Solvent, with farms as keepers of NFTs beside the     *)
(* authority.                                                              *)

Keepers == {SOLVENT_AUTHORITY} \cup Farms

LEMMA FarmsAreKeepers == IsKeepers(Keepers)
BY StakingAssumption, StateAssumption
   DEF Keepers, IsKeepers, StakingAssumption, StateAssumption

\* A step of staking leaves the accounts of buckets and lockers alone, and a
\* keeper's NFT with a keeper.
LEMMA StakingStepKeeps ==
    ASSUME StakingTypeOK, StakingStep
    PROVE  /\ UNCHANGED SolventVarsButOwner
           /\ \A n \in Nfts : nft_owner[n] \in Keepers => nft_owner'[n] \in Keepers
<1>1. ASSUME UNCHANGED vars
      PROVE  UNCHANGED SolventVarsButOwner /\ UNCHANGED nft_owner
  BY <1>1 DEF vars, SolventVarsButOwner
<1>2. ASSUME NEW m \in Droplets, NEW k \in Nfts, StakeNft(m, k)
      PROVE  /\ UNCHANGED SolventVarsButOwner
             /\ \A n \in Nfts : nft_owner[n] \in Keepers => nft_owner'[n] \in Keepers
  <2>1. staking[m].staking_params \in Farms
    BY <1>2 DEF StakeNft, StakingTypeOK
  <2> QED
    BY <1>2, <2>1 DEF StakeNft, StakingTypeOK, Keepers, SolventVarsButOwner
<1>3. ASSUME NEW m \in Droplets, NEW k \in Nfts, NEW sent \in LamportsSent,
             UnstakeNft(m, k, sent)
      PROVE  /\ UNCHANGED SolventVarsButOwner
             /\ \A n \in Nfts : nft_owner[n] \in Keepers => nft_owner'[n] \in Keepers
  BY <1>3 DEF UnstakeNft, StakingTypeOK, Keepers, GemDestination, SolventVarsButOwner
<1> QED
  BY <1>1, <1>2, <1>3 DEF StakingStep, UpdateFarm, SetStakingEnabled, UpdateStakingParams

\* The inductive invariant of the accounts, under steps of staking too.
AccountsInv ==
    /\ AccountsTypeOK
    /\ HeldBy(Keepers)
    /\ CountersInv
    /\ LoansInv
    /\ Solvency

LEMMA InitAccounts == StakingInit => AccountsInv
<1> SUFFICES ASSUME Init PROVE AccountsInv
  BY DEF StakingInit
<1>1. HeldBy(Keepers)
  BY DEF Init, HeldBy, Recorded, HasLocker
<1> QED
  BY <1>1, InitType, InitCounted, InitLoans, InitSolvent DEF AccountsInv

\* Steps of Solvent keep it by the lemmas about Solvent.
LEMMA NextAccounts ==
    ASSUME AccountsInv, [Next]_vars
    PROVE  AccountsInv'
<1>1. AccountsTypeOK /\ HeldBy(Keepers) /\ RecordsApart
  BY FarmsAreKeepers, HeldByApart DEF AccountsInv
<1>2. AccountsTypeOK' /\ HeldBy(Keepers)'
  BY <1>1, NextType, NextHeldBy, FarmsAreKeepers
<1> QED
  BY <1>1, <1>2, NextCounted, NextLoans, NextSolvent DEF AccountsInv

\* A step of staking keeps it because nothing it speaks of changes but where
\* NFTs are kept.
LEMMA StakingStepAccounts ==
    ASSUME StakingTypeOK, StakingTypeOK', AccountsInv, StakingStep
    PROVE  AccountsInv'
<1>1. /\ UNCHANGED <<created, bucket, deposit_state, locker_state, swap_state, balance, now>>
      /\ \A n \in Nfts : nft_owner[n] \in Keepers => nft_owner'[n] \in Keepers
  BY StakingStepKeeps DEF SolventVarsButOwner
<1>2. AccountsTypeOK'
  BY <1>1 DEF AccountsInv, AccountsTypeOK, StakingTypeOK
<1>3. HeldBy(Keepers)'
  BY <1>1, HeldByKept DEF AccountsInv
<1>4. CountersInv'
  BY <1>1, CountersKept DEF AccountsInv
<1>5. LoansInv'
  BY <1>1 DEF AccountsInv, LoansInv, HasLocker
<1>6. Solvency'
  BY <1>1 DEF AccountsInv, Solvency, Supply, Claims, Backing, HasLocker
<1> QED
  BY <1>2, <1>3, <1>4, <1>5, <1>6 DEF AccountsInv

LEMMA AccountsInvHolds == StakingSpec => []AccountsInv
<1>1. /\ StakingInv /\ StakingInv' /\ AccountsInv
      /\ [StakingNext]_<<vars, stakingVars>>
      => AccountsInv'
  <2> SUFFICES ASSUME StakingInv, StakingInv', AccountsInv,
                      [StakingNext]_<<vars, stakingVars>>
               PROVE  AccountsInv'
    OBVIOUS
  <2>1. CASE SolventStep \/ UNCHANGED <<vars, stakingVars>>
    BY <2>1, NextAccounts DEF SolventStep
  <2>2. CASE StakingStep
    BY <2>2, StakingStepAccounts DEF StakingInv
  <2> QED
    BY <2>1, <2>2 DEF StakingNext
<1> QED
  BY <1>1, InitAccounts, StakingInvHolds, PTL DEF StakingSpec

\* In every reachable state of the program with staking an NFT has at most one
\* record, and every NFT that has one is the authority's or in a farm, from
\* where it can only return to the authority.
THEOREM StakingCustodyHolds == StakingSpec => []S!Custody
<1>1. AccountsInv => S!Custody
  <2> SUFFICES ASSUME HeldBy(Keepers) PROVE S!Custody
    BY DEF AccountsInv
  <2>1. \A m \in Droplets, n \in Nfts : S!Recorded(m, n) <=> Recorded(m, n)
    BY DEF S!Recorded, Recorded, S!HasLocker, HasLocker
  <2>2. \A m \in Droplets, n \in Nfts : S!HasLocker(m, n) <=> HasLocker(m, n)
    BY DEF S!HasLocker, HasLocker
  <2>3. \A n \in Nfts : nft_owner[n] \in Keepers => custodian[n] = SOLVENT_AUTHORITY
    BY DEF custodian, Keepers
  <2> QED
    BY <2>1, <2>2, <2>3 DEF HeldBy, S!Custody
<1> QED
  BY <1>1, AccountsInvHolds, PTL

\* In every reachable state of the program with staking the counters that
\* price the loans are the numbers of records, staked NFTs included.
THEOREM StakingCountersMatchHolds == StakingSpec => []CountersMatch
<1>1. AccountsInv => CountersMatch
  BY DEF AccountsInv, CountersInv
<1> QED
  BY <1>1, AccountsInvHolds, PTL

\* In every reachable state of the program with staking droplets and pending
\* swaps are covered, staked NFTs counting like any others.
THEOREM StakingSolvencyHolds == StakingSpec => []Solvency
<1>1. AccountsInv => Solvency
  BY DEF AccountsInv
<1> QED
  BY <1>1, AccountsInvHolds, PTL

\* In every reachable state of the program with staking the supply of droplets
\* is bounded by the counters of the bucket.
THEOREM StakingSupplyBounded == StakingSpec => []SupplyBounded
<1>1. AccountsInv => SupplyBounded
  BY SupplyWithinCounters DEF AccountsInv, CountersInv
<1> QED
  BY <1>1, AccountsInvHolds, PTL

\* In every reachable state of the program with staking a depositor owes at
\* most the value of one NFT, and no locker is stuck by an overflow.
THEOREM StakingLoansHold == StakingSpec => [](RepaymentBounded /\ Settleable)
<1>1. AccountsInv => RepaymentBounded /\ Settleable
  BY SoundLoanSettles DEF AccountsInv, RepaymentBounded, Settleable
<1> QED
  BY <1>1, AccountsInvHolds, PTL

\* In every behaviour of the program with staking a locker ends by its
\* repayment or its liquidation only.
THEOREM StakingLockerSettledInOneWay == StakingSpec => LockerSettledInOneWay
<1>1. StakingInv /\ AccountsInv /\ [StakingNext]_<<vars, stakingVars>> =>
        [\A m \in Droplets, n \in Nfts :
             HasLocker(m, n) /\ locker_state'[m][n] # locker_state[m][n] =>
                 /\ locker_state'[m][n] = NoLocker
                 /\ Repaid(m, n) \/ Liquidated(m, n)]_vars
  BY LockerEnds, StakingStepKeeps
     DEF StakingNext, SolventStep, AccountsInv, StakingInv, SolventVarsButOwner
<1> QED
  BY <1>1, StakingInvHolds, AccountsInvHolds, PTL DEF StakingSpec, LockerSettledInOneWay

\* In every behaviour of the program with staking a deposit leaves its bucket
\* only against its value: being staked is no way out.
THEOREM StakingRedemptionPaid == StakingSpec => RedemptionPaid
<1>1. StakingInv /\ AccountsInv /\ [StakingNext]_<<vars, stakingVars>> =>
        [\A m \in Droplets, n \in Nfts :
             n \in deposit_state[m] /\ n \notin deposit_state'[m] =>
                 \/ /\ Supply(m)' = Supply(m) - NFT_VALUE
                    /\ swap_state' = swap_state
                 \/ /\ Supply(m)' = Supply(m)
                    /\ \E u \in Users :
                           /\ swap_state[m][u]
                           /\ swap_state' = [swap_state EXCEPT ![m][u] = FALSE]]_vars
  BY DepositEnds, RedeemNftPays, StakingStepKeeps
     DEF StakingNext, SolventStep, AccountsInv, StakingInv, SolventVarsButOwner
<1> QED
  BY <1>1, StakingInvHolds, AccountsInvHolds, PTL DEF StakingSpec, RedemptionPaid

\* Staking keeps the promise of the vaults: droplets and claims change by the
\* worth of the NFT deposited, redeemed, locked, repaid or liquidated, wherever
\* the NFTs behind them are, and staking itself issues nothing.
THEOREM StakingImplementsVaults == StakingSpec => VaultsImplemented
<1>1. StakingInit => V!Init
  BY InitImplements DEF StakingInit
<1>2. /\ StakingInv /\ AccountsInv /\ [StakingNext]_<<vars, stakingVars>>
      => [V!Next]_V!vars
  <2> SUFFICES ASSUME StakingInv, AccountsInv, [StakingNext]_<<vars, stakingVars>>
               PROVE  [V!Next]_V!vars
    OBVIOUS
  <2>1. CASE SolventStep \/ UNCHANGED <<vars, stakingVars>>
    <3>1. VaultInv /\ [Next]_vars
      BY <2>1, FarmsAreKeepers, HeldByApart DEF SolventStep, AccountsInv, VaultInv
    <3> QED
      BY <3>1, NextImplements
  <2>2. CASE StakingStep
    BY <2>2, StakingStepKeeps, NothingExchanged DEF StakingInv, SolventVarsButOwner
  <2> QED
    BY <2>1, <2>2 DEF StakingNext
<1> QED
  BY <1>1, <1>2, StakingInvHolds, AccountsInvHolds, PTL
     DEF StakingSpec, VaultsImplemented, V!Spec
=============================================================================
