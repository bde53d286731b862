---------------------------- MODULE SolventState ----------------------------
(***************************************************************************)
(* The accounts the program keeps, and the token accounts it moves.        *)
(*                                                                         *)
(* A bucket is identified by its droplet mint m.  A Solana transaction is  *)
(* atomic: an instruction either commits all its writes or leaves no       *)
(* trace, so every instruction is one action and every error or panic is a *)
(* conjunct of its guard.                                                  *)
(***************************************************************************)
EXTENDS LoanMath, Totals, Ledger

CONSTANTS
    Users,              \* wallets that sign instructions
    Nfts,               \* NFT mints
    Droplets,           \* droplet mints, one per bucket
    Banned,             \* the NFTs whose metadata is_nft_banned rejects
    Collections,        \* valid collection infos, as the sets of NFTs they verify
    SOLVENT_AUTHORITY, SOLVENT_CORE_TREASURY, SOLVENT_LOCKERS_TREASURY,
    NoLocker,           \* a locker account that does not exist
    MAX_TIME            \* bound: the latest clock reading

Holders == Users \cup {SOLVENT_CORE_TREASURY, SOLVENT_LOCKERS_TREASURY}

Locker ==
    [depositor : Users, creation_timestamp : Nat, duration : Nat,
     principal_amount : Nat, max_interest_payable : Nat]

ASSUME StateAssumption ==
    /\ IsFiniteSet(Users)
    /\ IsFiniteSet(Nfts)
    /\ Collections \subseteq SUBSET Nfts
    /\ SOLVENT_AUTHORITY \notin Users
    /\ NoLocker \notin Locker
    /\ MAX_TIME \in Nat
    \* the clock reads seconds: it is far from the middle of the u64 range
    /\ 2 * MAX_TIME <= U64_MAX

VARIABLES
    created,        \* the droplet mints whose bucket exists
    bucket,         \* BucketStateV3 of each bucket
    deposit_state,  \* per bucket, the NFTs that have a DepositState
    locker_state,   \* per bucket and NFT, its LockerState or NoLocker
    swap_state,     \* per bucket and user, the flag of its SwapState
    balance,        \* per bucket, the ledger of its droplets
    nft_owner,      \* whose token account holds each NFT
    now             \* the clock

vars == <<created, bucket, deposit_state, locker_state, swap_state, balance,
          nft_owner, now>>

Bucket ==
    [collection_info : Collections, is_locking_enabled : BOOLEAN,
     max_locker_duration : Nat, interest_scaler : Nat,
     num_nfts_in_bucket : Nat, num_nfts_in_lockers : Nat]

NewBucket(collection_info) ==
    [collection_info |-> collection_info, is_locking_enabled |-> FALSE,
     max_locker_duration |-> 0, interest_scaler |-> 0,
     num_nfts_in_bucket |-> 0, num_nfts_in_lockers |-> 0]

\* No bucket exists; the wallets hold the NFTs.
Init ==
    /\ created = {}
    /\ \E c \in Collections : bucket = [m \in Droplets |-> NewBucket(c)]
    /\ deposit_state = [m \in Droplets |-> {}]
    /\ locker_state = [m \in Droplets |-> [n \in Nfts |-> NoLocker]]
    /\ swap_state = [m \in Droplets |-> [u \in Users |-> FALSE]]
    /\ balance = [m \in Droplets |-> [h \in Holders |-> 0]]
    /\ nft_owner \in [Nfts -> Users]
    /\ now = 0

-----------------------------------------------------------------------------
(* Conditions and updates that several instructions share *)

\* verify_collection and !is_nft_banned, the constraints on the NFT's metadata.
NftAccepted(m, n) == n \in bucket[m].collection_info /\ n \notin Banned

HasLocker(m, n) == locker_state[m][n] # NoLocker

\* Mutant: the account of the locker is not closed.
LockerLeftOpen(m, n) == UNCHANGED locker_state

CloseLocker(m, n) == locker_state' = [locker_state EXCEPT ![m][n] = NoLocker]

\* Mutant: one second early, while the depositor can still unlock.
ExpiredEarly(locker) ==
    /\ locker.creation_timestamp + locker.duration <= U64_MAX
    /\ now >= locker.creation_timestamp + locker.duration

Expired(locker) ==
    /\ locker.creation_timestamp + locker.duration <= U64_MAX
    /\ now > locker.creation_timestamp + locker.duration

Active(locker) ==
    /\ locker.creation_timestamp + locker.duration <= U64_MAX
    /\ now <= locker.creation_timestamp + locker.duration

-----------------------------------------------------------------------------
\* The accounts have their types; balances and counters never go below zero.
\* Whoever else may hold an NFT, no instruction here takes it from them.
AccountsTypeOK ==
    /\ created \subseteq Droplets
    /\ bucket \in [Droplets -> Bucket]
    /\ deposit_state \in [Droplets -> SUBSET Nfts]
    /\ locker_state \in [Droplets -> [Nfts -> Locker \cup {NoLocker}]]
    /\ swap_state \in [Droplets -> [Users -> BOOLEAN]]
    /\ balance \in [Droplets -> [Holders -> Nat]]
    /\ nft_owner = [n \in Nfts |-> nft_owner[n]]
    /\ now \in 0..MAX_TIME

\* Every variable has its type, and every NFT is a wallet's or the program's.
TypeOK ==
    /\ AccountsTypeOK
    /\ nft_owner \in [Nfts -> Users \cup {SOLVENT_AUTHORITY}]
=============================================================================
