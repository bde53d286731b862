# Solvent Protocol in TLA+

A verification project for the Solvent program (`src/programs/solvent-protocol`,
a Solana program written with Anchor). The program turns NFTs of a collection
into fungible tokens, "droplets": a *bucket* takes an NFT and mints
`DROPLETS_PER_NFT` droplets, or takes the droplets back and gives out an NFT;
a *locker* lends droplets against an NFT for a limited time.

The project contains TLA+ modules translated from the Rust source, TLC
configurations that check them on small instances, and proofs, checked by
TLAPS, that the main invariants hold for every value of the constants.

1. [The system](#1-the-system)
2. [Modules and their code](#2-modules-and-their-code)
3. [What is checked](#3-what-is-checked)
4. [Disagreements between the code and its documents](#4-disagreements-between-the-code-and-its-documents)
5. [What is proved](#5-what-is-proved)
6. [Abstractions and what is not modelled](#6-abstractions-and-what-is-not-modelled)
7. [Plan](#7-plan)

## 1. The system

Paths are relative to `src/programs/solvent-protocol/src/`.

| Component | Code | State it keeps | Operations |
| --- | --- | --- | --- |
| Loan arithmetic, fees | `common.rs` (`calculate_loan`), `constants.rs` | none | `calculate_loan`; inline arithmetic in `unlock_nft`, `liquidate_locker`, `redeem_nft` |
| Buckets | `create_bucket`, `deposit_nft`, `redeem_nft`, `update_collection_info` | `BucketStateV3` per droplet mint, `DepositState` per bucket and NFT, `SwapState` per bucket and user | create, deposit (mint or open a swap), redeem (burn or spend a swap), change the collection |
| Lockers | `lock_nft`, `unlock_nft`, `liquidate_locker`, `update_locking_params`, `set_locking_enabled` | `LockerState` per bucket and NFT, locking parameters and counters in `BucketStateV3` | lock, unlock (repay), liquidate, set parameters, enable |
| Ledgers | the SPL token program, called by CPI | token accounts | mint, burn, transfer; wallets also transfer and burn on their own |
| Staking | `stake_nft`, `unstake_nft`, `update_staking_params`, `set_staking_enabled` | `is_staking_enabled` and `staking_params` of the bucket; in gem_farm, the farmer of each NFT and the configuration of each farm | stake, unstake (two calls around a cooldown), set the farm, enable |
| Migration | `start_migration`, `migrate_droplets`, `migrate_nft` | `MigrationState` per droplet mint | start; swap old droplets for new; the crank brings the NFTs |
| Collection verification | `common.rs` (`verify_collection`, `verify_proof`, `validate_collection_info`, `is_nft_banned`) | none | check metadata against a `CollectionInfo`, a Merkle whitelist, the royalty ban |
| Rent | `claim_balance` | SOL of the authority | send the SOL above the rent minimum to the treasury |
| Entry points | `lib.rs`, `errors.rs`, `instructions/mod.rs` | none | dispatch |

**How they interact.** An instruction is a transaction: the runtime runs it to
the end, on the accounts it names, and either commits all its writes or none.
Instructions never call one another; they interact through shared accounts.

- Buckets and lockers share the two counters `num_nfts_in_bucket` and
  `num_nfts_in_lockers` of `BucketStateV3`. A deposit, redemption or
  liquidation changes the price of the next loan.
- All buckets share the token account in which the program's authority holds
  an NFT. Two buckets whose collections overlap could each hold a record for
  the same NFT.
- Deposits and redemptions with `swap` communicate through the flag of the
  user's `SwapState` in that bucket.
- A liquidation turns a `LockerState` into a `DepositState` without moving the
  NFT; anyone may then redeem it.
- Every instruction shares the droplet ledger with the wallets, which move and
  burn droplets whenever they like.
- Staking takes an NFT out of the program's token account without looking at
  its deposit or locker, and the manager of a farm may reconfigure it while
  NFTs are in it.
- Migration mints droplets first and brings the NFTs behind them later, into
  the same records and counters that deposits and loans use.
- A `BucketStateV3` account is created with a fixed size; `create_bucket`,
  `update_collection_info` and `update_staking_params` each write part of it.

**What is hard about it.** There are no threads, messages or retries inside the
program. The difficulty is in the interleaving of instructions by different
users, over long sequences: an NFT goes through wallets, deposits and lockers
of several buckets; a repayment races a liquidation around the second of
expiry; parameters and counters change while loans run; every multiplication,
subtraction and division is checked and panics, which at the wrong place makes
an account impossible to settle. `PROJECT.json` lists these hazards with the
line where each one bites.

**What makes each component correct.**

- *Arithmetic*: the terms are the shares of duration and lockers, rounded against
  the borrower; principal and interest together are at most the value of an
  NFT; the terms stored in a locker never make a later operation overflow.
- *Buckets*: no NFT leaves unpaid; a swap is used once, in the bucket that
  granted it; nothing is minted that no NFT stands for.
- *Lockers*: a locker ends exactly once, repaid up to its expiry or liquidated
  after it; a borrower owes what was quoted.
- *Together*: droplets in circulation plus pending swaps are covered by NFTs
  deposited and debts; an NFT has one record at most, and the program has it.
- *As a whole*: the program is a set of vaults. What an instruction issues or
  takes back is the difference in worth of the one NFT it is about.
- *Staking*: it is invisible to buckets and lockers; a staked NFT can be
  brought back, once, and only to the program's account.
- *Migration*: new droplets are covered by the NFTs in the buckets together
  with what the crank holds, and buckets not under migration by their own; who
  migrates first takes nothing from who migrates later.
- *Verification*: a Merkle proof verifies members of the whitelist and nobody
  else; what metadata says without a signature counts for nothing.

## 2. Modules and their code

```
LoanMath   Totals   Ledger                  LoanMath       --- MCLoanMath
     \       |       /                      CollectionInfo --- Verification --- MCVerification
        SolventState
         /        \
     Buckets    Lockers
         \        /
          Solvent
       /     |      \
 Staking  Migration  SolventVaults ---implements---> Vaults
    |        |           |
MCStaking MCMigration MCSolvent
```

The proofs build on each other in the same way:

```
Amounts_proofs ------------- MCLoanMath_proofs
      |
Solvent_proofs               Verification_proofs
      |
Solvency_proofs
   |        \
Vaults_    Migration_
proofs     proofs
   |
Staking_proofs
```

`Staking` and `Migration` extend `Solvent` with the variables and steps of
their instructions; `Staking` also implements it, by `INSTANCE Solvent WITH`
another owner for staked NFTs. `Vaults` is an abstract specification of its own.

| Module | Models | Notes |
| --- | --- | --- |
| `LoanMath` | `calculate_loan`, the repayment interest (`unlock_nft.rs`), the split of a liquidation (`liquidate_locker.rs`), the fees (`redeem_nft.rs`) | exact results; an operator named `...Defined` says that no checked u64 operation fails, and is a conjunct of the guard of the instruction that would panic |
| `Totals` | the sum of a function's values | by counting, without recursion, so that it can be proved about |
| `Ledger` | the SPL token program as seen from the instructions (external) | debit before credit; `CanPay` is the token program's balance check |
| `SolventState` | the accounts of `state.rs`, the token accounts, the clock; conditions shared by instructions | a bucket is identified by its droplet mint |
| `Buckets` | `create_bucket`, `update_collection_info`, `deposit_nft`, `redeem_nft` | one action per instruction |
| `Lockers` | `set_locking_enabled`, `update_locking_params`, `lock_nft`, `unlock_nft`, `liquidate_locker` | one action per instruction |
| `Solvent` | all of the above with the clock and the wallets; the properties; `FairSpec` | `Next` has one disjunct per source of steps |
| `Vaults` | what the program promises: NFTs go in and out of a vault per droplet mint against exactly what they are worth | abstract; two variables, no users, ledgers, fees, flags or clock |
| `SolventVaults` | the records and the ledger of `Solvent` seen as `Vaults` | refinement mapping |
| `Staking` | `stake_nft`, `unstake_nft`, `update_staking_params`, `set_staking_enabled`; gem_farm as they use it (external) | over all steps of `Solvent`; `custodian` is the refinement mapping |
| `Migration` | `start_migration`, `migrate_droplets`, `migrate_nft`; the previous program and the crank (external) | over all steps of `Solvent` |
| `CollectionInfo` | `verify_collection`, `verify_proof`; merkletreejs as the tests use it (external) | operators; what `Solvent` takes as the set of NFTs of a collection. Recursion is in recursive functions, so that it can be proved about |
| `Verification` | nothing of its own: offers NFTs with all metadata and longer and longer proofs to a bucket | `MCVerification` gives the digests numbers for TLC |

State variables and their accounts:

| Variable | Account |
| --- | --- |
| `created`, `bucket[m]` | `BucketStateV3` of droplet mint `m`, once initialised (its fields `bump` and `droplet_mint` are the index) |
| `deposit_state[m]` | the NFTs `n` whose `DepositState` PDA of `(m, n)` exists |
| `locker_state[m][n]` | the `LockerState` PDA of `(m, n)`, or `NoLocker` |
| `swap_state[m][u]` | the flag of the `SwapState` PDA of `(m, u)`; an account not yet initialised reads FALSE |
| `balance[m][h]` | the amount in `h`'s token account of mint `m` |
| `nft_owner[n]` | the authority of the token account that holds NFT `n` |
| `now` | `Clock::unix_timestamp` |
| `staking[m]` | `is_staking_enabled` and `staking_params` of the bucket of `m`; a farm stands for the four addresses of `StakingParams` |
| `config[f]`, `farmer[f][n]` | in gem_farm, the `FarmConfig` of farm `f`, and the `Farmer` of the farmer authority of NFT `n` there |
| `migration_state` | the droplet mints whose `MigrationState` PDA exists |
| `old_balance[m][h]`, `old_bucket[m]` | the ledger of the old droplets that are exchanged for `m`, and the NFTs still in the previous program's bucket |

An action is a whole handler together with its `#[derive(Accounts)]`
constraints: `init` is "the account does not exist", an account without `init`
is "it exists", `close` deletes it, `constraint` and `require!` are conjuncts,
and so is every `checked_...().unwrap()` that may fail. `SOLVENT_AUTHORITY` is
the PDA that owns the program's token accounts. Signers, destinations and
arguments are chosen by `\E` in `BucketStep` and `LockerStep`. The settings
need the administrator's signature; since a setting may come at any time, the
actions let it come at any time.

Definitions whose comment starts with "Mutant:" are variants with a plausible
bug. They are not part of the specification: each is put in the place of the
definition it follows to see that the property it is meant for is not
satisfied by every program.

## 3. What is checked

The constants keep the relations between the real ones but are small: an NFT is
worth `5 * 2 = 10` lamports instead of `100 * 10^8`, a scaler is a number of
halves or thirds instead of hundredths, a swap costs a fifth of an NFT of which
the distributor gets half (instead of 0.5 % and 10 %), the liquidator's share is
a fifth as in the code, `U64_MAX` is 100000 and `U16_MAX` 1 or 2 so that both
limits are reached. The named assumptions of the modules (`ConstantsAssumption`,
`StateAssumption`, `BoundsAssumption`, `StakingAssumption`, ...) state what is
assumed of all of them, and TLC evaluates them on each run.

| Run | Instance | Properties | What it shows |
| --- | --- | --- | --- |
| `loan_arithmetic` (`MCLoanMath`) | all loans over 8 durations from 0 to beyond an overflow, 3 sizes for each counter, 4 scalers, followed up to 7 seconds; 3,780 states | `PrincipalIsReference`, `DebtBounded`, `RefusedOnlyByOverflow`, `InterestProportional` | the checked arithmetic computes the discount by the shares of duration and lockers, rounded up, and refuses only for want of a u64 |
| `buckets_and_swaps` (`MCSolvent_buckets`) | 1 bucket, 2 users, 4 NFTs of which one is banned, counter at most 2, wallets moving 2 or 10 lamports; 40,902 states | `TypeOK`, `Solvency`, `RedemptionPaid` | no order of deposits, swaps, redemptions and token transfers lets an NFT out unpaid or mints uncovered droplets |
| `lockers` (`MCSolvent_lockers`) | 1 bucket, 1 user, 3 NFTs, clock up to 3, counters at most 2, loans of 2 seconds, a valid scaler and one out of range beside the default; 92,354 states | `CountersMatch`, `Solvency`, `RepaymentBounded`, `LockerSettledInOneWay`, `VaultsImplemented` | overlapping loans stay covered and bounded and end in one of two ways, whatever happens around them, and the program implements `Vaults` |
| `overlapping_buckets` (`MCSolvent_overlap`) | 2 buckets whose collections share an NFT, 2 users, 2 seconds; 312,180 states | `Custody`, `RedemptionPaid` | an NFT is never recorded twice, and a swap of one bucket is worth nothing in the other |
| `lockers_settled` (`MCSolvent_fair`) | 1 bucket, 2 users, 2 NFTs, clock up to 3, loans of 0 and 1 second and one that overflows, two maximum durations, deposit counter at most 1; 384,764 states | `Settleable`, `LockersSettled` | no locker is stuck by its arithmetic; liveness: expired lockers are closed once nothing holds liquidation up for good |
| `staked_lockers` (`MCStaking_lockers`) | 1 user, 2 NFTs, 1 bucket, 1 farm that may be staked in or has a cooldown and a fee that `unstake_nft` alone does not pay, clock up to 2, loans of 1 second, farmers that can be used again; 236,930 states | `StakingTypeOK`, `FarmCustody`, `SolventImplemented` | an NFT is in a farm exactly while a farmer can take it back, and buckets and lockers work the same whatever is staked |
| `brought_back` (`MCStaking_fair`) | 1 NFT, 1 bucket, 2 farms, each with any of 4 configurations, clock up to 2, farmers that can not be used again; 41,824 states | `FarmCustody`, `BroughtBack` | the same while the bucket switches farms; liveness: unstaking completes |
| `migration` (`MCMigration`) | 2 buckets of one collection, 1 user, 2 NFTs, 2 seconds, loans of 0 and 1 second, wallets moving half an NFT; 561,100 states | `MigrationTypeOK`, `Custody`, `CountersMatch`, `MigrationSolvency`, `OthersSolvent`, `AllDropletsBacked` | droplets and NFTs may arrive in any order, in parts, among loans and swaps; a migration uncovers no other bucket, nor the old droplets not yet migrated |
| `verification` (`MCVerification`) | all whitelists of 5 mints with all proofs of up to 3 of the digests of mints and inner nodes; all metadata and collection infos over 2 symbols, padded or not, 2 creators, 2 collections and 2 mints with proofs of up to 1 digest; 265,126 states | `WhitelistExact`, `ClaimsNeedSignatures` | `verify_proof` is complete and sound against the trees the client builds, and unsigned claims count for nothing |
| `deposit_while_swap_pending` | 1 bucket, 2 NFTs | `NoDepositWhileSwapPending` | violated: see section 4 |
| `zero_duration_locker` | the same with one loan of 0 seconds | `RepayableWithinDuration` | violated: see section 4 |
| `interest_scaler_range` | the same with settings only | `ScalerInRange` | violated: see section 4 |

**The properties.** `Solvency` is the central one: for each bucket, the total
supply plus `NFT_VALUE` for every pending swap is at most `NFT_VALUE` for every
deposited NFT plus the principal of every locker. `RedemptionPaid` and
`LockerSettledInOneWay` say how the records behind it may end. `Custody`
relates the records of all buckets to the one holder of an NFT.
`CountersMatch` relates the counters that price the loans to the accounts they
count. `RepaymentBounded` and `Settleable` relate the terms fixed when an NFT
is locked to what repaying or liquidating will compute later. `TypeOK` says in
particular that the three token calls of a redemption, and the two of a
repayment, never take more than there is.

`VaultsImplemented` says more of a step than `Solvency` does of a state: of all
balances, claims and records, exactly one NFT's status in one vault and that
vault's issue may change, by the same amount; fees, interest and rewards only
move droplets. It also says what the one loss of the code is
(`DepositForfeiting`: the overwritten swap of section 4). Where `Solvency` is an
inequality a surplus could hide a later loss; a refinement leaves none.

`SolventImplemented` is the property of staking. `stake_nft` takes any NFT of
the program's account, whether it is deposited, locked or has no record, and
`redeem_nft` and `unlock_nft` then fail until it is back. With staked NFTs
counted as the authority's (`custodian`), all steps of `Staking` are steps of
`Solvent` or stuttering, so every property above holds of the program with
staking. `FarmCustody` is what makes that mapping sound: no farmer is left
without its NFT and no NFT without its farmer, although farmers are per farm
and buckets change farms.

`LockersSettled` and `BroughtBack` have the same form: if what the program does
not control is favourable from some time on, then what is waiting gets done.
Before that time locking may have been disabled, counters full, farms switched
and fees raised, in any order and as often as they like; so the properties say
that none of it leaves a locker or an NFT in a state it cannot leave.

`MigrationSolvency` replaces `Solvency` while buckets are being migrated: what
a bucket lacks is with the crank, as old droplets not yet redeemed or NFTs not
yet brought. It is a sum over all buckets, because an NFT fetched for one
bucket may be brought to another whose collection accepts it.
`AllDropletsBacked` looks from the other side, that of those who still hold old
droplets: together with all new droplets and claims these are covered by NFTs
alone, in the buckets, in the previous program or with the crank. A crank that
came by more old droplets than users gave up would keep `MigrationSolvency` and
break this.

`WhitelistExact` compares `verify_proof` with membership in the whitelist, with
a tree built the way the clients build it. `ClaimsNeedSignatures` compares the
verdict on an NFT's metadata with the verdict on the same metadata without
whatever is not signed.

**Why the bounds are enough.** Two users are a borrower or depositor and
somebody else, who may receive the droplets, redeem the NFT or liquidate.
In `buckets_and_swaps` two of the three NFTs that can be deposited fill the
bucket and the third is refused, or is what a swap gives or takes. In `lockers`
one NFT is in the bucket while two are locked, one after the other, so the
second loan is priced at other counters than the first and overlaps it, and is
repaid at half its interest or at all of it; two deposits are the limit, at
which the liquidation of a third NFT waits. Times 0 to 3 give a loan of 2
seconds its beginning, middle and last second, the first second after it, and
a loan that begins while it runs. There is one user, for what borrower and
liquidator may do differs only in who signs; `lockers_settled` and
`overlapping_buckets` have loans with two users. In
`lockers_settled` the duration and maximum duration 100000 make both products
of `calculate_loan` overflow, and without its checks would let a loan be taken
whose expiry is no u64. All of these limits are lifted by the proofs of
section 5; what TLC adds is that the guards can be met, since every action
fires, and that each property fails when the definition named in
`PROJECT.json` is replaced by its mutant.

In `staked_lockers` one NFT is in the bucket when the other is locked, for half
its value and with the scaler at 0 (interest moves no NFT); either is staked at any time, is liquidated in the farm, or comes out
to be repaid, redeemed or taken by a swap. A fee of 5 is one more than
`unstake_nft` provides there (`UNSTAKING_LAMPORTS`, 4), so that a call fails
unless somebody sent the farmer authority another (`LamportsSent`). With two
NFTs it has one farm; farmers are per farm and NFT, and `brought_back` has the
two farms, with every reason for which `validate_farm` refuses a configuration:
a cooldown, a minimum period, a fee below the minimum, and beside them a fee
that it accepts but `unstake_nft` does not pay. Farmers that can be used again
allow more than ones that cannot; there is a run for each. Several buckets with
farms in common are left to the proofs. In
`migration` one NFT can be in the old bucket while the other is already
redeemed from the new one, and half an NFT's worth of droplets can be migrated
on its own. Whitelists of one to five mints give trees of every shape up to
three levels, with promoted digests. The numbers that `MCBytes` gives the digests
(modulo `MODULUS`) scatter them, so that both orders of siblings occur on every
level; `BytesAssumption`, which TLC evaluates, says that they are distinct.

**Symmetry.** Users, NFTs, buckets or farms are interchangeable in the larger
runs of `Solvent`, `Staking` and `Migration`. These check only safety and
refinement of specifications without fairness, for which this is sound; the
liveness runs use none.

**Fairness.** `Spec` and `StakingSpec` have none: nothing in the program is
scheduled, every step is some user's decision. The liveness properties use
`FairSpec` and `FairStakingSpec`, which assume of the environment

- that the clock advances (up to `MAX_TIME`, where the model stops: the
  properties speak of lockers and cooldowns that end before);
- that somebody calls `liquidate_locker` for a locker that can be liquidated,
  weakly fair per bucket and NFT. The instruction is open to anybody and pays
  the signer a fifth of what the loan left unminted; where that is nothing, as
  after a loan of no time, a liquidator has to be public-spirited, or want to
  redeem the NFT;
- that somebody calls `unstake_nft` for an NFT in a bucket's farm, weakly fair
  per bucket and NFT, while the farm's fee is payable. It is open to anybody as
  well, and whoever wants to redeem or unlock the NFT has to. Nobody is assumed
  to send the farmer authority lamports first (`sent` is 0). `FeePayable`
  leaves out the fees below `MIN_UNSTAKING_FEE` but 0 too: why `validate_farm`
  rejects them is not in the repository, but 890880 lamports are the rent
  minimum of an empty account, and a smaller fee can be refused for that reason.

The administrator is assumed to do nothing in particular, nor are users or the
managers of farms. Hence the premises of the properties: `LockersSettled`
supposes that locking ends up enabled and the deposit counter below its limit;
`BroughtBack` that the bucket ends up with a farm, and the farm with a payable
fee. The manager may still change cooldown, minimum period and fee without end.

**Deadlock** is checked except in `MCLoanMath`, where a loan that has run its
time stops, and in `MCVerification`, where the longest proof has been tried.

## 4. Disagreements between the code and its documents

- **A deposit is accepted while a swap is pending.** The comment
  `deposit_nft.rs:16` says "Prevent deposits when there's a pending swap" and
  `errors.rs:65` "Cannot deposit additional NFT before completing the pending
  swap." The guard is `swap && swap_state.flag`, so a deposit with `swap = false`
  passes, and the `SwapState` is then overwritten with `flag: false`. The user
  has given an NFT for a swap and no longer has the swap. The protocol stays
  solvent: the user's loss is a surplus of the bucket.
- **A locker of duration 0 can only be liquidated.** `lock_nft` compares the
  duration with the maximum only; `unlock_nft` divides the interest by it and
  panics on 0. `src/README.md:30` says that within the duration users can pay
  back and claim the NFT, for "any duration up to a certain duration limit".
- **The interest scaler may be 0.** `src/README.md:76` gives the range (0,100].
  `update_locking_params` accepts 0, which is also the value `create_bucket`
  sets, and `set_locking_enabled` does not look at it. (No loan is taken with
  both parameters at their defaults, for the maximum duration is 0 as well; the
  scaler stays 0 if `update_locking_params` then sets only the duration.)

Three smaller ones have no run. `liquidate_locker` requires `is_locking_enabled`
although `src/README.md:14` says that failure to unlock in time results in
liquidation: after the administrator has disabled locking an expired locker
stays, still covered, until locking is enabled again (which is what
`LockersSettled` supposes). The comment `common.rs:102` speaks of royalties above 90 %,
while `constants.rs:12` and `CHANGELOG.md:11` say 9500 basis points.
`BucketStateV3::LEN` leaves out the byte of `bump`, which matters only to a
symbol of 32 bytes with 5 creators; metadata symbols have at most 10 bytes.

## 5. What is proved

All theorems hold for every finite set of users and NFTs, every set of buckets
(a finite one under migration) and farms, every collection, and all constants
that satisfy the assumptions. They state every invariant and action property of
section 3, and the two refinements; what is left to TLC is liveness.

The program by itself (`Spec`):

| Theorem | Module | Statement |
| --- | --- | --- |
| `TypeCorrect` | `Solvent_proofs` | `Spec => []TypeOK` |
| `CustodyHolds` | `Solvent_proofs` | `Spec => []Custody` |
| `CountersMatchHolds` | `Solvent_proofs` | `Spec => []CountersMatch` |
| `SolvencyHolds` | `Solvency_proofs` | `Spec => []Solvency` |
| `RepaymentBoundedHolds` | `Solvency_proofs` | `Spec => []RepaymentBounded` |
| `SettleableHolds` | `Solvency_proofs` | `Spec => []Settleable` |
| `SupplyBoundedHolds` | `Solvency_proofs` | `Spec => []SupplyBounded`: a supply is at most `2 * U16_MAX * NFT_VALUE` |
| `LockerSettledInOneWayHolds` | `Solvency_proofs` | `Spec => LockerSettledInOneWay` |
| `RedemptionPaidHolds` | `Solvency_proofs` | `Spec => RedemptionPaid` |
| `SolventImplementsVaults` | `Vaults_proofs` | `Spec => VaultsImplemented` |

With staking (`StakingSpec`), in `Staking_proofs`:

| Theorem | Statement |
| --- | --- |
| `StakingTypeCorrect` | `StakingSpec => []StakingTypeOK` |
| `FarmCustodyHolds` | `StakingSpec => []FarmCustody` |
| `StakingImplementsSolvent` | `StakingSpec => SolventImplemented` |
| `StakingImplementsVaults` | `StakingSpec => VaultsImplemented` |
| `StakingCustodyHolds` | `StakingSpec => []S!Custody`: `Custody` with `custodian` in the place of `nft_owner` |
| `StakingCountersMatchHolds`, `StakingSolvencyHolds`, `StakingSupplyBounded` | `StakingSpec => []CountersMatch`, `[]Solvency`, `[]SupplyBounded` |
| `StakingLoansHold` | `StakingSpec => [](RepaymentBounded /\ Settleable)` |
| `StakingLockerSettledInOneWay`, `StakingRedemptionPaid` | `StakingSpec => LockerSettledInOneWay`, `RedemptionPaid` |

During a migration (`MigrationSpec`), in `Migration_proofs`:

| Theorem | Statement |
| --- | --- |
| `MigrationTypeCorrect` | `MigrationSpec => []MigrationTypeOK` |
| `MigrationSolvencyHolds` | `MigrationSpec => []MigrationSolvency` |
| `OthersSolventHolds` | `MigrationSpec => []OthersSolvent` |
| `AllDropletsBackedHolds` | `MigrationSpec => []AllDropletsBacked` |
| `MigratedWorthTheNfts` | `MigrationSpec => []WorthTheNfts`: all droplets of both programs, claims included, are worth at most `Cardinality(Nfts) * NFT_VALUE` |
| `MigrationCustodyHolds`, `MigrationCountersMatchHolds` | `MigrationSpec => []Custody`, `[]CountersMatch` |
| `MigrationLoansHold` | `MigrationSpec => [](RepaymentBounded /\ Settleable)` |
| `MigrationLockerSettledInOneWay`, `MigrationRedemptionPaid` | `MigrationSpec => LockerSettledInOneWay`, `RedemptionPaid` |

The arithmetic and the verification of metadata:

| Theorem | Module | Statement |
| --- | --- | --- |
| `LoanBounded` | `Amounts_proofs` | principal and maximum interest of any loan are at most `NFT_VALUE` |
| `LiquidationSplit` | `Amounts_proofs` | a liquidation mints exactly what the loan did not, and cannot overflow |
| `PrincipalIsReferenceHolds`, `DebtBoundedHolds`, `RefusedOnlyByOverflowHolds`, `InterestProportionalHolds` | `MCLoanMath_proofs` | the four properties of `MCLoanMath`, for all durations, counters and scalers in range and any time elapsed |
| `WhitelistExactHolds` | `Verification_proofs` | `WhitelistExact`, for whitelists of any size, proofs of any length and digests in any order |
| `ClaimsNeedSignaturesHolds` | `Verification_proofs` | `ClaimsNeedSignatures`, for any metadata, collection infos and proofs |

**The assumptions.** `ConstantsAssumption`: the constants are natural numbers,
the percentages at most 100 %, an NFT is worth at least 2 lamports, and
`NFT_VALUE` times 100, and times 10000, fits in a u64. `StateAssumption`:
finitely many users and NFTs, collections are sets of NFTs, the program's
authority is no user, and the clock reads at most half of `U64_MAX`. The real
constants satisfy them: an NFT is worth 10^10 lamports and a clock in seconds
is nowhere near 2^63. `BoundsAssumption` only types the arguments of the
instructions. `StakingAssumption`: farms are neither users nor the authority,
and the configurations and lamports are natural numbers. Whether `init_farmer` accepts a
farmer that exists (`FARMER_REUSABLE`) is left open. `MigrationAssumption`: the
crank and the previous program are neither users, nor the authority, nor each
other, and there are finitely many buckets, since `MigrationSolvency` is a sum
over them. `GridAssumption`: the arguments of `MCLoanMath` are unsigned and the
scaler is one that `update_locking_params` accepts. `MintsAssumption`: there
are finitely many mints. `BytesAssumption`: the digests in the trees of the
whitelists are numbers, different ones for different digests, which is what
keccak is trusted for; their order is left open. `NoneAssumption`: no set of
creators is mistaken for the absence of one.

**The argument**, from the bottom:

1. `Amounts_proofs`. *Totals*: changing one value of a function changes its
   total by the difference (`TotalUpdate`), by counting units in finite sets;
   a total is monotone and bounded by the number of its terms (`TotalMonotone`,
   `TotalAtMost`). *Ledgers*: what a mint, a burn that the payer can afford and
   a transfer do to a ledger and its total. *Loans*: bounds on divisions, hence
   on the terms of a loan, the interest after any time, the liquidation split
   and the fees.
2. `Solvent_proofs`. *Types*: one lemma per instruction, and one for each
   instruction that moves droplets on what it does to the supply
   (`FeesPaidLedger`, `RepaymentLedger`, `LiquidationLedger`). `TypeOK` is
   inductive on its own. Its part `AccountsTypeOK` leaves out who may own an
   NFT, which staking and migration extend.
   *Custody*: `HeldBy(K)` says that an NFT has one record at most and that a
   recorded NFT is held by one of the keepers `K`. It is inductive for every set
   `K` of parties that are not users (`NextHeldBy`): an instruction that creates
   a record takes the NFT from a wallet, and `HeldBy` says that an NFT in a
   wallet has no record. `Custody` is `HeldBy({SOLVENT_AUTHORITY})`.
   *Counters*: `CountersMatch` is not inductive: `create_bucket` sets the
   counters to zero, so one has to know that the bucket has no records yet.
   `CountersInv` adds that (`EmptyUntilCreated`).
3. `Solvency_proofs`. `Solvency` is inductive given the types and that no NFT
   of a wallet has a record (`RecordsApart`, which follows from `HeldBy` for any
   keepers); without it a deposit or a loan of an NFT that already has a record
   would mint droplets without adding to the backing. Each instruction changes
   supply, claims and backing of one bucket by amounts that cancel
   (`NoLessCovered`). `RepaymentBounded` and `Settleable` are not inductive:
   they follow from `LoansInv`, which keeps what was true when the locker was
   created (principal plus interest at most `NFT_VALUE`, duration times
   `NFT_VALUE` within a u64, created no later than now) and that the scaler of
   every bucket is in range. `SupplyBounded` follows from `Solvency`,
   `CountersMatch` and `LoansInv`: every record backs at most `NFT_VALUE`, and
   there are at most `2 * U16_MAX` of them. The action properties are proved
   from the types by showing which instruction can change the record in
   question.
4. `Vaults_proofs`. The step simulation needs the types, `RecordsApart` and
   `LoansInv`: `RecordsApart` because a vault takes only an NFT that no vault
   has (`NoRecordFree`), `LoansInv` because a loan is for at most `NFT_VALUE`.
   Each instruction has a lemma that says which abstract action it is
   (`DepositNftIsDeposit` splits on the swap pending before and asked for now:
   a deposit for droplets, for a claim, or one that forfeits a claim). They
   rest on one fact about `Exchange` (`ExchangeOfOne`): updating one record and
   one issue is the abstract step. `Custody` would do for `RecordsApart` in the
   program by itself, but not with staking, where the lemmas are used again.
5. `Staking_proofs`. `StakingTypeOK /\ FarmCustody` is inductive. A step of
   `Solvent` moves no NFT that is in a farm, for every instruction that moves
   one asks that a user or the authority hold it (`NextMovesNft`);
   `UnstakeNft` keeps `FarmCustody` because farmers are per farm and NFT. The
   refinement then has one lemma per instruction. The guards of the abstract
   action follow because the NFT concerned is not in a farm
   (`CustodianOutside`), the new custodian because only that NFT moves
   (`CustodianMoves`); the steps of staking leave `custodian` and all other
   variables of `Solvent` as they are. Types are needed to know that the owners
   that are not farms are users or the authority.

   The guarantees of `Solvent` under staking follow from the refinement in
   principle; they are proved directly, from an invariant of the accounts
   (`AccountsInv`), in which the farms are keepers beside the authority. Steps
   of `Solvent` keep it by the lemmas of `Solvent_proofs` and `Solvency_proofs`,
   which hold for any keepers; a step of staking changes nothing it speaks of
   but the keeper of an NFT (`StakingStepKeeps`). The same invariant implies
   what the lemmas of `Vaults_proofs` ask for, so that the program with staking
   implements the vaults as well.
6. `Migration_proofs`. Types first, then `Custody`, which is not inductive
   here: a redemption in the previous program moves an NFT to the crank, and
   one has to know that the old bucket's NFTs are held by the previous program
   and so have no record (`CustodyInv`). Counters, loans and the action
   properties follow from what each step leaves alone. For `MigrationSolvency`
   each step has a lemma on the total of liabilities and assets over all
   buckets and on the worth of what the crank has fetched: a redemption by the
   crank turns old droplets into a fetched NFT (`CrankRedeems`), `MigrateDroplets`
   adds to both sides what the crank receives (`MigrateDropletsKeepsWorth`), and
   `MigrateNft` turns a fetched NFT into backing (`MigrateNftKeepsWorth`). Steps
   of `Solvent` leave no bucket less covered, so none of the sum
   (`TotalsNoWorse`). `OthersSolvent` is that of each bucket on its own.

   `AllDropletsBacked` is not inductive. It follows from `MigrationSolvency`
   and `OldBacked`: the old droplets are worth what the NFTs in the previous
   program are. That is inductive, for `MigrateDroplets` only moves old droplets
   and `MigrateNft` takes an NFT that has left. Adding the two, the crank's old
   droplets cancel (`CrankApart`, `BackedByNfts`). With `Custody` and `LoansInv`
   it gives `WorthTheNfts`: an NFT backs droplets in one bucket or is on the
   way, never both (`NftsCountedOnce`). That is a sum of sums, over buckets and
   over NFTs; `TotalOfTotals` maps its units one to one to units of the NFTs.
7. `MCLoanMath_proofs`. The steps only try more cases, so a type invariant is
   all that is inductive. The least number above a quotient is the division
   rounded up (`RoundedUp`), which gives the reference by uniqueness;
   `LoanAccepted` shows that every checked operation passes once the two
   products and their sum fit.
8. `Verification_proofs`. *Induction*: the library's theorems take an operator
   and cannot be used, but the well-foundedness of the natural numbers gives
   induction over sets of numbers (`NatSetInduction`, `IntervalInduction`): to
   prove a statement of all k is to show that the set of those k it holds for
   has all of them. In the same way the recursive functions are shown to be
   defined, with the values their equations say (`ComputedHashesDefined`,
   `MerkleLayersDefined`, `PositionsDefined`, `MerkleProofsDefined`).
   *Soundness*: the digests of a tree are leaves or hashes of two digests of
   the tree (`TreeClosed`), so if a proof ends in the tree, each step before it
   was in the tree, down to the leaf (`OnlyMembers`); it uses that digests are
   terms, not their order. *Completeness*: at each level what has been computed
   is the digest at the leaf's position (`MembersVerified`), for the parent is
   the hash with the sibling on either side, or the digest itself if promoted
   (`ParentHash`); the layers shrink to the root (`LayersShape`). *Leaves*: the
   sorted list has every member once (`LeavesSorted`), which needs the numbers
   of the digests to be distinct. *Metadata*: `VerifyV1` counts only a creator
   who signed, and `VerifyV2` only a verified collection, so taking the unsigned
   claims away takes nothing away that they used.

**What the proofs taught.** `RefusedOnlyByOverflow` once named only the
overflow of `Numerator + Denominator - 1`. That is false: with a numerator of 0
(a loan of duration 0) the sum fits when the product below the fraction is
`U64_MAX + 1`, and the checked multiplication still panics. No instance of
TLC's has that product; the proof failed at just that case. The property now
names the product.

The simulation of `Vaults` once rested on `Custody`. With staking that is false
as it stands, for a staked NFT is with its farm; `StakingImplementsVaults` is
what showed that the vaults need only `RecordsApart`.

**Only model-checked**: the liveness properties (`LockersSettled`,
`BroughtBack`), for liveness under fairness and ENABLED are out of the prover's
reach. The proofs do not show that keccak has no collisions
(`BytesAssumption`), nor anything of the external programs beyond how they are
modelled.

## 6. Abstractions and what is not modelled

- *Token accounts.* A holder has one account per mint. The program accepts any
  token account of the right mint as a destination; what matters is whose it is.
  Delegates and frozen accounts are left out. The token program's own overflow
  check on the supply is left out: a supply is at most
  `2 * U16_MAX * NFT_VALUE`, about 1.3 * 10^15 (`SupplyBoundedHolds`, and
  `StakingSupplyBounded` with staking). Under migration, where droplets come
  ahead of their NFTs, all supplies together are worth at most the NFTs that
  exist (`MigratedWorthTheNfts`).
- *An NFT sent straight to the program's account* by its owner is modelled
  (`NftTransfer` to `SOLVENT_AUTHORITY`): it has no record and stays there.
- *Collections.* In `Solvent`, a collection info is the set of NFTs it
  verifies, and `Banned` the set of NFTs whose royalties ban them; both are
  fixed, while on chain the metadata may change. `validate_collection_info` is
  the requirement that a collection info is a member of `Collections`.
  `CollectionInfo` models what decides on that set, for one NFT and one bucket;
  `Option::unwrap` on a missing proof or missing creators makes the instruction
  fail, which is the same as a false verdict.
- *keccak* has no collisions: a digest is the term it was made from, and its
  bytes are a number, `Bytes`, of which only `BytesAssumption` is assumed. A
  leaf hashes 32 bytes and an inner node 64, so the two never meet. The trees
  are those of
  `src/tests/utils.ts` (`getMerkleTree`, `getMerkleProof`).
- *gem_farm* is not in the repository. Modelled from its use: `init_farmer` and
  `flash_deposit` make a farmer staked; the first `unstake` starts the cooldown
  of the farm's configuration at that time, and the second, which `unstake_nft`
  makes only when the cooldown is over, unstakes; `withdraw_gem` gives the NFT
  to the account named. `unstake` asks for the minimum staking period of the
  moment of staking, which `validate_farm` requires to be 0, and charges the
  farmer authority the unstaking fee of the farm's configuration at that time,
  in both calls. A farmer whose gems are locked by the farm otherwise is left
  out. Whether a farmer can be
  initialised twice is `FARMER_REUSABLE`; the runs use both values.
- *Staking rewards* go to the farmer authority's accounts, and none is a droplet
  or an NFT of the program.
- *The previous program and the crank* are not in the repository either. An old
  droplet mint belongs to one new one, as the administrator sets up; an NFT is
  worth the same in both. The crank is the operator's: it redeems old droplets
  that it holds and signs `migrate_nft`, and does nothing else with either.
  Without that assumption `MigrationSolvency` is false: a crank that spent what
  it holds would leave droplets without cover. Old droplets sent to it directly
  only add to the cover.
- *SOL.* The only lamports modelled are those that pay the unstaking fee:
  `UNSTAKING_LAMPORTS` is the 0.1 SOL that `unstake_nft` gives the farmer
  authority, `sent` what others gave it since it was last swept. Its balance is
  no variable, for every successful call of `stake_nft` and `unstake_nft` sweeps
  it and anybody may send it anything before the next. The signers' own
  lamports, rent and `claim_balance` are left out.
- *Clock.* It advances by one second at a time, up to `MAX_TIME`, and never
  goes back. `unix_timestamp as u64` is the identity on the readings modelled.
- *Errors and events.* An instruction that fails changes nothing, so it is a
  step that is not taken. Error codes and events are left out.
- *Bumps and account discriminators* are left out; PDA addresses are the indices
  of the variables.
- *Not modelled*: `claim_balance`, which sends the authority's SOL above the
  rent minimum to the treasury and reads and writes nothing else; error codes
  and events; the TypeScript tests and the deployment script, which were read
  for intent.

## 7. Plan

Done: the buckets and lockers over the ledgers, with their theorems; the vaults
they implement; staking, which implements them; liveness of lockers and of
unstaking; migration, with its theorems; verification, with its theorems.

What is left, in this order:

1. Staking and migration in one specification. They share the NFTs' owners
   only: `migrate_nft` needs the crank to hold the NFT, `stake_nft` the
   authority. The invariants of the accounts hold for any keepers; what has to
   be proved anew is that a step of either keeps the invariant of the other.
2. A module of lamports for `claim_balance`, should the SOL of the authority come
   to matter.
