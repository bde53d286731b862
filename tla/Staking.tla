------------------------------ MODULE Staking ------------------------------
(***************************************************************************)
(* The staking instructions, over buckets and lockers: NFTs held by the    *)
(* program's authority are put in the vaults of a gem_farm farm and taken  *)
(* back, by anybody and one at a time.                                     *)
(*                                                                         *)
(* stake_nft looks neither at the deposit nor at the locker of an NFT, so  *)
(* what the rest of the program promises about it has to hold wherever it  *)
(* is.  SolventImplemented says so: with the NFTs in the farms counted as  *)
(* held by the authority, staking is invisible to Solvent.                 *)
(***************************************************************************)
EXTENDS Solvent

CONSTANTS
    Farms,              \* a farm stands for the four addresses of StakingParams
    NoFarm,             \* staking_params = None
    FarmConfigs,        \* bound: the configurations farm managers choose from
    MIN_UNSTAKING_FEE,  \* smallest unstaking fee but 0 that validate_farm accepts
    UNSTAKING_LAMPORTS, \* what unstake_nft gives the farmer authority to pay it
    LamportsSent,       \* bound: what others may have sent there before the call
    FARMER_REUSABLE     \* whether init_farmer accepts a farmer that exists

FarmConfig ==
    [min_staking_period_sec : Nat, cooldown_period_sec : Nat, unstaking_fee_lamp : Nat]

ASSUME StakingAssumption ==
    /\ Farms \cap (Users \cup {SOLVENT_AUTHORITY}) = {}
    /\ NoFarm \notin Farms
    /\ FarmConfigs \subseteq FarmConfig
    /\ UNSTAKING_LAMPORTS \in Nat
    /\ LamportsSent \subseteq Nat
    /\ FARMER_REUSABLE \in BOOLEAN

VARIABLES
    staking,    \* the staking part of BucketStateV3 of each bucket
    config,     \* gem_farm: the configuration of each farm
    farmer      \* gem_farm: per farm and NFT, the farmer of its farmer authority

stakingVars == <<staking, config, farmer>>

NewStaking == [is_staking_enabled |-> FALSE, staking_params |-> NoFarm]

\* A farmer account that does not exist reads "Absent".
NewFarmer == [state |-> "Absent", cooldown_ends_ts |-> 0]

StakingInit ==
    /\ Init
    /\ staking = [m \in Droplets |-> NewStaking]
    /\ config \in [Farms -> FarmConfigs]
    /\ farmer = [f \in Farms |-> [n \in Nfts |-> NewFarmer]]

-----------------------------------------------------------------------------
(* gem_farm, as the instructions use it *)

\* init_farmer and flash_deposit of one NFT: the farmer becomes staked.
FarmerCanInit(f, n) == farmer[f][n].state = "Absent" \/ FARMER_REUSABLE

Deposited(f, n) == [farmer[f][n] EXCEPT !.state = "Staked"]

\* unstake: a staked farmer starts its cooldown, a cooled one is unstaked.
AfterUnstake(f, n) ==
    IF farmer[f][n].state = "Staked"
    THEN [state |-> "PendingCooldown",
          cooldown_ends_ts |-> now + config[f].cooldown_period_sec]
    ELSE [farmer[f][n] EXCEPT !.state = "Unstaked"]

\* The manager of a farm configures it.
UpdateFarm(f, c) ==
    /\ config' = [config EXCEPT ![f] = c]
    /\ UNCHANGED <<vars, staking, farmer>>

-----------------------------------------------------------------------------
(* The instructions *)

ValidFarm(f) ==
    /\ config[f].min_staking_period_sec = 0
    /\ config[f].cooldown_period_sec = 0
    /\ config[f].unstaking_fee_lamp = 0 \/ config[f].unstaking_fee_lamp >= MIN_UNSTAKING_FEE

SetStakingEnabled(m, flag) ==
    /\ m \in created
    /\ staking' = [staking EXCEPT ![m].is_staking_enabled = flag]
    /\ UNCHANGED <<vars, config, farmer>>

UpdateStakingParams(m, f) ==
    /\ m \in created
    /\ ValidFarm(f)
    /\ staking' = [staking EXCEPT ![m].staking_params = f]
    /\ UNCHANGED <<vars, config, farmer>>

SolventVarsButOwner ==
    <<created, bucket, deposit_state, locker_state, swap_state, balance, now>>

\* Anybody stakes any NFT of the program's account in the farm of a bucket.
StakeNft(m, n) ==
    LET f == staking[m].staking_params
    IN  /\ m \in created
        /\ staking[m].is_staking_enabled
        /\ f # NoFarm
        /\ ValidFarm(f)
        /\ nft_owner[n] = SOLVENT_AUTHORITY
        /\ FarmerCanInit(f, n)
        /\ nft_owner' = [nft_owner EXCEPT ![n] = f]
        /\ farmer' = [farmer EXCEPT ![f][n] = Deposited(f, n)]
        /\ UNCHANGED <<SolventVarsButOwner, staking, config>>

\* Mutant: withdraws while the farmer is still staked.
WithdrawDueAnytime(f, n) == farmer[f][n].state \in {"Staked", "PendingCooldown"}

WithdrawDue(f, n) ==
    farmer[f][n].state = "PendingCooldown" /\ now >= farmer[f][n].cooldown_ends_ts

\* Mutant: the NFT is withdrawn to where the rewards go.
WithdrawnToTreasury == SOLVENT_CORE_TREASURY

GemDestination == SOLVENT_AUTHORITY

\* Mutant: unstake_nft constrains the farm as stake_nft does.
FeeCoveredByValidFarm(f, sent) == ValidFarm(f)

\* unstake charges the farmer authority the fee of the moment.  unstake_nft and
\* stake_nft sweep what it has, so it can pay with what this call provides and
\* with what somebody sent it since.
FeeCovered(f, sent) == config[f].unstaking_fee_lamp <= UNSTAKING_LAMPORTS + sent

\* Anybody unstakes n from the current farm of m, in two calls: the first
\* starts the cooldown, the second ends it and withdraws the NFT.  A call
\* before the cooldown is over fails, and so does one that cannot pay the fee;
\* one for an NFT that is not in the farm finds no farmer or no gem box.
UnstakeNft(m, n, sent) ==
    LET f == staking[m].staking_params
    IN  /\ m \in created
        /\ f # NoFarm
        /\ FeeCovered(f, sent)
        /\ \/ /\ farmer[f][n].state = "Staked"
              /\ UNCHANGED nft_owner
           \/ /\ WithdrawDue(f, n)
              /\ nft_owner' = [nft_owner EXCEPT ![n] = GemDestination]
        /\ farmer' = [farmer EXCEPT ![f][n] = AfterUnstake(f, n)]
        /\ UNCHANGED <<SolventVarsButOwner, staking, config>>

-----------------------------------------------------------------------------
\* create_bucket writes the staking part of the new bucket too.
SolventStep ==
    /\ Next
    /\ staking' = [m \in Droplets |->
                      IF m \in created' \ created THEN NewStaking ELSE staking[m]]
    /\ UNCHANGED <<config, farmer>>

StakingStep ==
    \/ \E f \in Farms, c \in FarmConfigs : UpdateFarm(f, c)
    \/ \E m \in Droplets :
           \/ \E flag \in BOOLEAN : SetStakingEnabled(m, flag)
           \/ \E f \in Farms : UpdateStakingParams(m, f)
           \/ \E n \in Nfts : StakeNft(m, n)
           \/ \E n \in Nfts, sent \in LamportsSent : UnstakeNft(m, n, sent)

StakingNext == SolventStep \/ StakingStep

StakingSpec == StakingInit /\ [][StakingNext]_<<vars, stakingVars>>

\* The fee is one that a call of unstake_nft is sure to pay: a smaller one than
\* validate_farm allows may be refused, for it may leave the account it is paid
\* to with less than the rent minimum.
FeePayable(f) ==
    \/ config[f].unstaking_fee_lamp = 0
    \/ config[f].unstaking_fee_lamp \in MIN_UNSTAKING_FEE..UNSTAKING_LAMPORTS

\* Somebody calls unstake_nft for an NFT that is in a bucket's farm, as
\* redeemers and borrowers who want it out must, but sends the farmer authority
\* nothing of his own; and the clock advances.
StakingFairness ==
    /\ WF_<<vars, stakingVars>>(Tick /\ UNCHANGED stakingVars)
    /\ \A m \in Droplets, n \in Nfts :
           WF_<<vars, stakingVars>>(
               UnstakeNft(m, n, 0) /\ FeePayable(staking[m].staking_params))

FairStakingSpec == StakingSpec /\ StakingFairness

-----------------------------------------------------------------------------
(* What must hold *)

FarmerStates == {"Absent", "Unstaked", "Staked", "PendingCooldown"}

\* The variables have their types; an NFT may be in a farm now.
StakingTypeOK ==
    /\ created \subseteq Droplets
    /\ nft_owner \in [Nfts -> Users \cup {SOLVENT_AUTHORITY} \cup Farms]
    /\ staking \in [Droplets ->
           [is_staking_enabled : BOOLEAN, staking_params : Farms \cup {NoFarm}]]
    /\ config \in [Farms -> FarmConfig]
    /\ farmer \in [Farms -> [Nfts -> [state : FarmerStates, cooldown_ends_ts : Nat]]]

\* An NFT is in the vault of a farm exactly while its farmer there is staked
\* or cooling down: there is always a farmer by which it can be taken back,
\* and no farmer by which it could be taken back twice.
FarmCustody ==
    \A f \in Farms, n \in Nfts :
        nft_owner[n] = f <=> farmer[f][n].state \in {"Staked", "PendingCooldown"}

\* Where Solvent sees an NFT.
custodian ==
    [n \in Nfts |-> IF nft_owner[n] \in Farms THEN SOLVENT_AUTHORITY ELSE nft_owner[n]]

S == INSTANCE Solvent WITH nft_owner <- custodian

\* Buckets and lockers work as specified whatever is staked: staking an NFT
\* changes nothing they promise, and nobody gets it out of a farm but the
\* program's authority.
SolventImplemented == S!Spec

\* An NFT does not stay in the farm of a bucket, whatever cooldown its manager
\* sets after it was staked: a staked farmer starts its cooldown, and when that
\* cooldown is over (before the clock stops) the NFT comes out, unless the
\* bucket's farm keeps changing, is given up, or keeps asking for a fee that
\* unstake_nft does not pay.
BroughtBack ==
    \A m \in Droplets, f \in Farms, n \in Nfts :
        <>[](staking[m].staking_params = f /\ FeePayable(f)) =>
            /\ farmer[f][n].state = "Staked" ~> farmer[f][n].state # "Staked"
            /\ (farmer[f][n].state = "PendingCooldown"
                   /\ farmer[f][n].cooldown_ends_ts <= MAX_TIME) ~> nft_owner[n] # f
=============================================================================
