----------------------------- MODULE Migration ------------------------------
(***************************************************************************)
(* The migration from the previous program: holders exchange its droplets  *)
(* for new ones one for one, and an operator, the migration crank, redeems *)
(* them from the old buckets and brings the NFTs.                          *)
(*                                                                         *)
(* Droplets come before the NFTs that back them, so a bucket under         *)
(* migration is not solvent on its own: what it lacks is with the crank,   *)
(* as old droplets or as NFTs (MigrationSolvency).                         *)
(***************************************************************************)
EXTENDS Solvent

\* The crank only redeems old droplets and signs migrate_nft: it migrates no
\* droplets of its own and gives away none of the NFTs it fetched.
CONSTANTS
    SOLVENT_MIGRATION_CRANK,
    OLD_PROGRAM             \* the authority of the previous program

OldHolders == Users \cup {SOLVENT_MIGRATION_CRANK}

ASSUME MigrationAssumption ==
    /\ SOLVENT_MIGRATION_CRANK \notin Users \cup {SOLVENT_AUTHORITY}
    /\ OLD_PROGRAM \notin Users \cup {SOLVENT_AUTHORITY, SOLVENT_MIGRATION_CRANK}
    /\ IsFiniteSet(Droplets)

VARIABLES
    migration_state,    \* the new droplet mints that have a MigrationState
    old_balance,        \* per new mint, the ledger of its old droplets
    old_bucket          \* per new mint, the NFTs in its old bucket

migrationVars == <<migration_state, old_balance, old_bucket>>

MigrationInit ==
    /\ Init
    /\ migration_state = {}
    /\ old_balance = [m \in Droplets |-> [h \in OldHolders |-> 0]]
    /\ old_bucket = [m \in Droplets |-> {}]

-----------------------------------------------------------------------------
(* The previous program, where an NFT has the same value in droplets *)

OldDeposit(m, n, u) ==
    /\ nft_owner[n] = u
    /\ nft_owner' = [nft_owner EXCEPT ![n] = OLD_PROGRAM]
    /\ old_bucket' = [old_bucket EXCEPT ![m] = @ \cup {n}]
    /\ old_balance' = [old_balance EXCEPT ![m] = MintTo(@, u, NFT_VALUE)]
    /\ UNCHANGED <<created, bucket, deposit_state, locker_state, swap_state,
                   balance, now, migration_state>>

OldRedeem(m, n, h) ==
    /\ n \in old_bucket[m]
    /\ CanPay(old_balance[m], h, NFT_VALUE)
    /\ nft_owner' = [nft_owner EXCEPT ![n] = h]
    /\ old_bucket' = [old_bucket EXCEPT ![m] = @ \ {n}]
    /\ old_balance' = [old_balance EXCEPT ![m] = Burn(@, h, NFT_VALUE)]
    /\ UNCHANGED <<created, bucket, deposit_state, locker_state, swap_state,
                   balance, now, migration_state>>

\* A wallet sends old droplets to another, or straight to the crank.
OldTransfer(m, from, to, amount) ==
    /\ CanPay(old_balance[m], from, amount)
    /\ old_balance' = [old_balance EXCEPT ![m] = Transfer(@, from, to, amount)]
    /\ UNCHANGED <<vars, migration_state, old_bucket>>

-----------------------------------------------------------------------------
(* The instructions *)

\* The mint of a bucket is the one whose authority the program is.
StartMigration(m) ==
    /\ m \in created \ migration_state
    /\ migration_state' = migration_state \cup {m}
    /\ UNCHANGED <<vars, old_balance, old_bucket>>

\* Mutant: the value of an NFT, whatever the account holds.
MigratesOneNft(m, u) == NFT_VALUE

\* All that the signer's account of old droplets holds.
DropletsToMigrate(m, u) == old_balance[m][u]

\* Mutant: the old droplets are not taken, and can be migrated again.
OldLeft(m, u) == old_balance[m]

\* Mutant: the crank gets old droplets, and the user keeps them.
OldCopied(m, u) ==
    MintTo(old_balance[m], SOLVENT_MIGRATION_CRANK, DropletsToMigrate(m, u))

OldTaken(m, u) ==
    Transfer(old_balance[m], u, SOLVENT_MIGRATION_CRANK, DropletsToMigrate(m, u))

\* Mutant: the migration of any bucket will do.
StartedAnywhere(m) == migration_state # {}

Started(m) == m \in migration_state

\* u gives its old droplets to the crank for as many new ones, going to dest.
MigrateDroplets(m, u, dest) ==
    /\ Started(m)
    /\ old_balance' = [old_balance EXCEPT ![m] = OldTaken(m, u)]
    /\ balance' = [balance EXCEPT ![m] = MintTo(@, dest, DropletsToMigrate(m, u))]
    /\ UNCHANGED <<created, bucket, deposit_state, locker_state, swap_state,
                   nft_owner, now, migration_state, old_bucket>>

\* Mutant: the NFT stays with the crank.
NftLeft(n) == nft_owner

NftTaken(n) == [nft_owner EXCEPT ![n] = SOLVENT_AUTHORITY]

\* Mutant: the NFT is not counted.
NftUncounted(b) == b

NftCounted(b) == [b EXCEPT !.num_nfts_in_bucket = @ + 1]

\* The crank deposits n for nothing.  Unlike deposit_nft, migrate_nft asks
\* neither for a migration of the bucket nor whether n is banned.
MigrateNft(m, n) ==
    /\ m \in created
    /\ n \notin deposit_state[m]
    /\ n \in bucket[m].collection_info
    /\ nft_owner[n] = SOLVENT_MIGRATION_CRANK
    /\ bucket[m].num_nfts_in_bucket + 1 <= U16_MAX
    /\ deposit_state' = [deposit_state EXCEPT ![m] = @ \cup {n}]
    /\ nft_owner' = NftTaken(n)
    /\ bucket' = [bucket EXCEPT ![m] = NftCounted(@)]
    /\ UNCHANGED <<created, locker_state, swap_state, balance, now, migrationVars>>

-----------------------------------------------------------------------------
OldStep(m) ==
    \/ \E n \in Nfts, u \in Users : OldDeposit(m, n, u)
    \/ \E n \in Nfts, h \in OldHolders : OldRedeem(m, n, h)
    \/ \E from \in Users, to \in OldHolders, amount \in TransferAmounts :
           OldTransfer(m, from, to, amount)

MigrationStep(m) ==
    \/ StartMigration(m)
    \/ \E u \in Users, dest \in Recipients : MigrateDroplets(m, u, dest)
    \/ \E n \in Nfts : MigrateNft(m, n)

MigrationNext ==
    \/ Next /\ UNCHANGED migrationVars
    \/ \E m \in Droplets : OldStep(m) \/ MigrationStep(m)

MigrationSpec == MigrationInit /\ [][MigrationNext]_<<vars, migrationVars>>

-----------------------------------------------------------------------------
(* What must hold *)

\* The variables have their types: no balance, old or new, is ever negative.
MigrationTypeOK ==
    /\ AccountsTypeOK
    /\ migration_state \subseteq created
    /\ old_balance \in [Droplets -> [OldHolders -> Nat]]
    /\ old_bucket \in [Droplets -> SUBSET Nfts]
    /\ nft_owner \in [Nfts -> Users \cup
           {SOLVENT_AUTHORITY, SOLVENT_MIGRATION_CRANK, OLD_PROGRAM}]

\* The droplets and claims of each bucket, and what the NFTs in it and the old
\* droplets taken for it are worth.
Liabilities == [m \in Droplets |-> Supply(m) + Total(Claims(m))]
Assets ==
    [m \in Droplets |-> Total(Backing(m)) + old_balance[m][SOLVENT_MIGRATION_CRANK]]

\* What the NFTs the crank has fetched and not yet brought are worth.
Fetched ==
    [n \in Nfts |-> IF nft_owner[n] = SOLVENT_MIGRATION_CRANK THEN NFT_VALUE ELSE 0]

\* All droplets and claims are covered by the NFTs in the buckets and by what
\* the crank holds to bring more, in whatever order droplets and NFTs arrive.
MigrationSolvency == Total(Liabilities) <= Total(Assets) + Total(Fetched)

\* A bucket that is not being migrated stays covered by its own NFTs alone.
OthersSolvent ==
    \A m \in Droplets \ migration_state : Supply(m) + Total(Claims(m)) <= Total(Backing(m))

\* The droplets of the previous program that are still with users.
Unmigrated == [m \in Droplets |-> Total([u \in Users |-> old_balance[m][u]])]

InBuckets == [m \in Droplets |-> Total(Backing(m))]

\* What the NFTs with the crank or in the previous program are worth.
OnTheWay ==
    [n \in Nfts |->
        IF nft_owner[n] \in {SOLVENT_MIGRATION_CRANK, OLD_PROGRAM} THEN NFT_VALUE ELSE 0]

\* Whoever migrates first takes nothing from those who migrate later or never:
\* all droplets, old and new, and the claims are covered by NFTs that one of
\* the two programs or the crank holds.
AllDropletsBacked ==
    Total(Liabilities) + Total(Unmigrated) <= Total(InBuckets) + Total(OnTheWay)
=============================================================================
