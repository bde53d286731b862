-------------------------- MODULE Migration_proofs --------------------------
(***************************************************************************)
(* The guarantees of the buckets and the lockers while a migration is      *)
(* under way, and the cover of the droplets it brings, for every value of  *)
(* the constants.                                                          *)
(***************************************************************************)
EXTENDS Migration, Solvency_proofs

-----------------------------------------------------------------------------
(* The old ledgers *)

\* The holders of old droplets are finitely many, and the crank is no user.
LEMMA OldHoldersFinite ==
    /\ IsFiniteSet(OldHolders)
    /\ Users \subseteq OldHolders /\ SOLVENT_MIGRATION_CRANK \in OldHolders
    /\ SOLVENT_MIGRATION_CRANK \notin Users
BY StateAssumption, MigrationAssumption, FS_AddElement
   DEF OldHolders, StateAssumption, MigrationAssumption

\* What a transfer between two holders does to the receiver.
LEMMA TransferReceived ==
    ASSUME NEW H, NEW l \in [H -> Nat], NEW from \in H, NEW to \in H, NEW x \in Nat,
           CanPay(l, from, x)
    PROVE  /\ Transfer(l, from, to, x) \in [H -> Nat]
           /\ to # from => Transfer(l, from, to, x)[to] = l[to] + x
           /\ \A h \in H \ {from, to} : Transfer(l, from, to, x)[h] = l[h]
BY DEF Transfer, Burn, MintTo, CanPay

-----------------------------------------------------------------------------
(* What each step does to the accounts; all else it leaves as it is *)

\* A deposit in the old program takes an NFT from a wallet and gives droplets
\* to the wallet.
LEMMA OldDepositEffect ==
    ASSUME MigrationTypeOK, NEW m \in Droplets, NEW n \in Nfts, NEW u \in Users,
           OldDeposit(m, n, u)
    PROVE  /\ old_balance' \in [Droplets -> [OldHolders -> Nat]]
           /\ old_bucket' \in [Droplets -> SUBSET Nfts]
           /\ \A b \in Droplets : old_balance'[b][SOLVENT_MIGRATION_CRANK] =
                                      old_balance[b][SOLVENT_MIGRATION_CRANK]
<1> DEFINE l == MintTo(old_balance[m], u, NFT_VALUE)
<1>1. old_balance[m] \in [OldHolders -> Nat] /\ u \in OldHolders
  BY OldHoldersFinite DEF MigrationTypeOK
<1>2. /\ l \in [OldHolders -> Nat]
      /\ l[SOLVENT_MIGRATION_CRANK] = old_balance[m][SOLVENT_MIGRATION_CRANK]
  BY <1>1, OldHoldersFinite, NftValueType DEF MintTo
<1>3. old_balance' = [old_balance EXCEPT ![m] = l]
  BY DEF OldDeposit
<1> HIDE DEF l
<1> QED
  BY <1>2, <1>3 DEF OldDeposit, MigrationTypeOK

\* A redemption from the old program gives an NFT to the holder that burns its
\* value.
LEMMA OldRedeemEffect ==
    ASSUME MigrationTypeOK, NEW m \in Droplets, NEW n \in Nfts, NEW h \in OldHolders,
           OldRedeem(m, n, h)
    PROVE  /\ old_balance' \in [Droplets -> [OldHolders -> Nat]]
           /\ old_bucket' \in [Droplets -> SUBSET Nfts]
           /\ old_balance'[m][h] = old_balance[m][h] - NFT_VALUE
           /\ \A b \in Droplets, k \in OldHolders : b # m \/ k # h =>
                  old_balance'[b][k] = old_balance[b][k]
<1> DEFINE l == Burn(old_balance[m], h, NFT_VALUE)
<1>1. old_balance[m] \in [OldHolders -> Nat] /\ old_balance[m][h] >= NFT_VALUE
  BY DEF MigrationTypeOK, OldRedeem, CanPay
<1>2. /\ l \in [OldHolders -> Nat] /\ l[h] = old_balance[m][h] - NFT_VALUE
      /\ \A k \in OldHolders \ {h} : l[k] = old_balance[m][k]
  BY <1>1, NftValueType DEF Burn
<1>3. old_balance' = [old_balance EXCEPT ![m] = l]
  BY DEF OldRedeem
<1> HIDE DEF l
<1> QED
  BY <1>2, <1>3 DEF OldRedeem, MigrationTypeOK

\* A transfer of old droplets takes none from the crank.
LEMMA OldTransferEffect ==
    ASSUME MigrationTypeOK, NEW m \in Droplets, NEW from \in Users, NEW to \in OldHolders,
           NEW amount \in TransferAmounts, OldTransfer(m, from, to, amount)
    PROVE  /\ old_balance' \in [Droplets -> [OldHolders -> Nat]]
           /\ \A b \in Droplets : old_balance'[b][SOLVENT_MIGRATION_CRANK] >=
                                      old_balance[b][SOLVENT_MIGRATION_CRANK]
<1> DEFINE l == Transfer(old_balance[m], from, to, amount)
<1>1. /\ old_balance[m] \in [OldHolders -> Nat] /\ from \in OldHolders /\ amount \in Nat
      /\ CanPay(old_balance[m], from, amount) /\ from # SOLVENT_MIGRATION_CRANK
  BY OldHoldersFinite, BoundsAssumption DEF MigrationTypeOK, OldTransfer, BoundsAssumption
<1>2. /\ l \in [OldHolders -> Nat]
      /\ l[SOLVENT_MIGRATION_CRANK] >= old_balance[m][SOLVENT_MIGRATION_CRANK]
  <2>1. CASE to = SOLVENT_MIGRATION_CRANK
    BY <1>1, <2>1, TransferReceived
  <2>2. CASE to # SOLVENT_MIGRATION_CRANK
    BY <1>1, <2>2, TransferReceived, OldHoldersFinite
  <2> QED
    BY <2>1, <2>2
<1>3. old_balance' = [old_balance EXCEPT ![m] = l]
  BY DEF OldTransfer
<1> HIDE DEF l
<1> QED
  BY <1>2, <1>3, OldHoldersFinite DEF MigrationTypeOK

\* Migrating droplets moves all that the user has to the crank, and mints as
\* many new ones.
LEMMA MigrateDropletsEffect ==
    ASSUME MigrationTypeOK, NEW m \in Droplets, NEW u \in Users, NEW dest \in Recipients,
           MigrateDroplets(m, u, dest)
    PROVE  /\ old_balance' \in [Droplets -> [OldHolders -> Nat]]
           /\ balance' \in [Droplets -> [Holders -> Nat]]
           /\ \A b \in Droplets \ {m} : /\ balance'[b] = balance[b]
                                        /\ old_balance'[b] = old_balance[b]
           /\ old_balance'[m][SOLVENT_MIGRATION_CRANK] =
                  old_balance[m][SOLVENT_MIGRATION_CRANK] + old_balance[m][u]
           /\ Supply(m)' = Supply(m) + old_balance[m][u]
<1> DEFINE x == old_balance[m][u]
           old == Transfer(old_balance[m], u, SOLVENT_MIGRATION_CRANK, x)
           new == MintTo(balance[m], dest, x)
<1>1. old_balance[m] \in [OldHolders -> Nat] /\ balance[m] \in [Holders -> Nat]
  BY DEF MigrationTypeOK, AccountsTypeOK
<1>2. /\ x \in Nat /\ CanPay(old_balance[m], u, x) /\ u \in OldHolders
      /\ SOLVENT_MIGRATION_CRANK # u
  BY <1>1, OldHoldersFinite DEF CanPay
<1>3. old_balance' = [old_balance EXCEPT ![m] = old] /\ balance' = [balance EXCEPT ![m] = new]
  BY DEF MigrateDroplets, OldTaken, DropletsToMigrate
<1> HIDE DEF x
<1>4. /\ old \in [OldHolders -> Nat]
      /\ old[SOLVENT_MIGRATION_CRANK] = old_balance[m][SOLVENT_MIGRATION_CRANK] + x
  BY <1>1, <1>2, OldHoldersFinite, TransferReceived
<1>5. new \in [Holders -> Nat] /\ Total(new) = Total(balance[m]) + x
  BY <1>1, <1>2, HoldersFinite, MintToLedger
<1> HIDE DEF old, new
<1>6. balance'[m] = new /\ old_balance'[m] = old
  BY <1>3 DEF MigrationTypeOK, AccountsTypeOK
<1> QED
  BY <1>3, <1>4, <1>5, <1>6 DEF MigrationTypeOK, AccountsTypeOK, Supply, x

\* Bringing an NFT makes a deposit of it, and counts it.
LEMMA MigrateNftEffect ==
    ASSUME AccountsTypeOK, NEW m \in Droplets, NEW n \in Nfts, MigrateNft(m, n)
    PROVE  /\ AccountsTypeOK'
           /\ bucket[m].num_nfts_in_bucket \in Nat
           /\ bucket' = [bucket EXCEPT ![m].num_nfts_in_bucket =
                                          bucket[m].num_nfts_in_bucket + 1]
           /\ nft_owner' = [nft_owner EXCEPT ![n] = SOLVENT_AUTHORITY]
<1> DEFINE i == bucket[m].num_nfts_in_bucket + 1
<1>1. bucket[m] \in Bucket /\ bucket[m].num_nfts_in_bucket \in Nat /\ i \in Nat
  BY DEF AccountsTypeOK, Bucket
<1>2. nft_owner' = [nft_owner EXCEPT ![n] = SOLVENT_AUTHORITY]
  BY DEF MigrateNft, NftTaken
<1>3. bucket' = [bucket EXCEPT ![m] = [bucket[m] EXCEPT !.num_nfts_in_bucket = i]]
  BY DEF MigrateNft, NftCounted, AccountsTypeOK
<1> HIDE DEF i
<1>4. bucket' \in [Droplets -> Bucket]
  <2>1. [bucket[m] EXCEPT !.num_nfts_in_bucket = i] \in Bucket
    BY <1>1, BucketUpdates
  <2> QED
    BY <1>3, <2>1 DEF AccountsTypeOK
<1>5. nft_owner' = [k \in Nfts |-> nft_owner'[k]]
  BY <1>2 DEF AccountsTypeOK
<1>6. AccountsTypeOK'
  BY <1>4, <1>5 DEF MigrateNft, AccountsTypeOK
<1>7. bucket' = [bucket EXCEPT ![m].num_nfts_in_bucket = i]
  BY <1>3
<1> QED
  BY <1>1, <1>2, <1>6, <1>7 DEF i

-----------------------------------------------------------------------------
(* The types *)

NftOwners == Users \cup {SOLVENT_AUTHORITY, SOLVENT_MIGRATION_CRANK, OLD_PROGRAM}

\* No bucket is ever removed.
LEMMA CreatedGrows == [Next]_vars => created \subseteq created'
<1> SUFFICES ASSUME [Next]_vars PROVE created \subseteq created'
  OBVIOUS
<1>1. ASSUME NEW m \in Droplets, BucketStep(m) \/ LockerStep(m)
      PROVE  created \subseteq created'
  BY <1>1 DEF BucketStep, CreateBucket, UpdateCollectionInfo, DepositNft, RedeemNft,
     LockerStep, SetLockingEnabled, UpdateLockingParams, LockNft, UnlockNft, LiquidateLocker
<1> QED
  BY <1>1 DEF Next, Tick, WalletStep, SplTransfer, SplBurn, NftTransfer, vars

\* A step of the buckets and lockers leaves the types as they are.
LEMMA SolventStepType ==
    ASSUME MigrationTypeOK, [Next]_vars, UNCHANGED migrationVars
    PROVE  MigrationTypeOK'
<1>1. AccountsTypeOK'
  BY NextType DEF MigrationTypeOK
<1>2. migration_state' \subseteq created'
  BY CreatedGrows DEF MigrationTypeOK, migrationVars
<1>3. nft_owner' \in [Nfts -> NftOwners]
  BY NextMovesNft DEF MigrationTypeOK, NftOwners, vars
<1> QED
  BY <1>1, <1>2, <1>3 DEF MigrationTypeOK, migrationVars, NftOwners

\* A step of the previous program leaves the types as they are.
LEMMA OldStepType ==
    ASSUME MigrationTypeOK, NEW m \in Droplets, OldStep(m)
    PROVE  MigrationTypeOK'
<1>1. ASSUME NEW n \in Nfts, NEW h \in NftOwners,
             nft_owner' = [nft_owner EXCEPT ![n] = h],
             UNCHANGED <<created, bucket, deposit_state, locker_state, swap_state,
                         balance, now, migration_state>>
      PROVE  /\ AccountsTypeOK' /\ migration_state' \subseteq created'
             /\ nft_owner' \in [Nfts -> NftOwners]
  <2>1. nft_owner' \in [Nfts -> NftOwners]
    BY <1>1 DEF MigrationTypeOK, NftOwners
  <2> QED
    BY <1>1, <2>1 DEF MigrationTypeOK, AccountsTypeOK
<1>2. ASSUME NEW n \in Nfts, NEW u \in Users, OldDeposit(m, n, u)
      PROVE  MigrationTypeOK'
  <2>1. /\ AccountsTypeOK' /\ migration_state' \subseteq created'
        /\ nft_owner' \in [Nfts -> NftOwners]
    BY <1>1, <1>2 DEF OldDeposit, NftOwners
  <2> QED
    BY <1>2, <2>1, OldDepositEffect DEF MigrationTypeOK, NftOwners
<1>3. ASSUME NEW n \in Nfts, NEW h \in OldHolders, OldRedeem(m, n, h)
      PROVE  MigrationTypeOK'
  <2>1. /\ AccountsTypeOK' /\ migration_state' \subseteq created'
        /\ nft_owner' \in [Nfts -> NftOwners]
    BY <1>1, <1>3 DEF OldRedeem, NftOwners, OldHolders
  <2> QED
    BY <1>3, <2>1, OldRedeemEffect DEF MigrationTypeOK, NftOwners
<1>4. ASSUME NEW from \in Users, NEW to \in OldHolders, NEW amount \in TransferAmounts,
             OldTransfer(m, from, to, amount)
      PROVE  MigrationTypeOK'
  <2>1. UNCHANGED <<vars, migration_state, old_bucket>>
    BY <1>4 DEF OldTransfer
  <2>2. AccountsTypeOK'
    BY <2>1 DEF MigrationTypeOK, AccountsTypeOK, vars
  <2> QED
    BY <1>4, <2>1, <2>2, OldTransferEffect DEF MigrationTypeOK, vars
<1> QED
  BY <1>2, <1>3, <1>4 DEF OldStep

\* An instruction of the migration leaves the types as they are.
LEMMA MigrationStepType ==
    ASSUME MigrationTypeOK, NEW m \in Droplets, MigrationStep(m)
    PROVE  MigrationTypeOK'
<1>1. CASE StartMigration(m)
  <2>1. UNCHANGED <<vars, old_balance, old_bucket>>
    BY <1>1 DEF StartMigration
  <2>2. AccountsTypeOK'
    BY <2>1 DEF MigrationTypeOK, AccountsTypeOK, vars
  <2> QED
    BY <1>1, <2>1, <2>2 DEF StartMigration, MigrationTypeOK, vars
<1>2. ASSUME NEW u \in Users, NEW dest \in Recipients, MigrateDroplets(m, u, dest)
      PROVE  MigrationTypeOK'
  <2>1. UNCHANGED <<created, bucket, deposit_state, locker_state, swap_state,
                    nft_owner, now, migration_state, old_bucket>>
    BY <1>2 DEF MigrateDroplets
  <2>2. AccountsTypeOK'
    BY <1>2, <2>1, MigrateDropletsEffect DEF MigrationTypeOK, AccountsTypeOK
  <2> QED
    BY <1>2, <2>1, <2>2, MigrateDropletsEffect DEF MigrationTypeOK
<1>3. ASSUME NEW n \in Nfts, MigrateNft(m, n)
      PROVE  MigrationTypeOK'
  <2>1. AccountsTypeOK' /\ nft_owner' = [nft_owner EXCEPT ![n] = SOLVENT_AUTHORITY]
    BY <1>3, MigrateNftEffect DEF MigrationTypeOK
  <2>2. UNCHANGED <<created, migrationVars>>
    BY <1>3 DEF MigrateNft
  <2> QED
    BY <2>1, <2>2 DEF MigrationTypeOK, migrationVars
<1> QED
  BY <1>1, <1>2, <1>3 DEF MigrationStep

\* Every step leaves the types as they are.
LEMMA MigrationNextType ==
    MigrationTypeOK /\ [MigrationNext]_<<vars, migrationVars>> => MigrationTypeOK'
<1> SUFFICES ASSUME MigrationTypeOK, [MigrationNext]_<<vars, migrationVars>>
             PROVE  MigrationTypeOK'
  OBVIOUS
<1>1. CASE [Next]_vars /\ UNCHANGED migrationVars
  BY <1>1, SolventStepType
<1> QED
  BY <1>1, OldStepType, MigrationStepType DEF MigrationNext

\* The initial state has the types.
LEMMA MigrationInitType == MigrationInit => MigrationTypeOK
<1> SUFFICES ASSUME MigrationInit PROVE MigrationTypeOK
  OBVIOUS
<1>1. AccountsTypeOK /\ nft_owner \in [Nfts -> Users]
  BY InitType DEF MigrationInit, Init
<1> QED
  BY <1>1 DEF MigrationInit, MigrationTypeOK

\* In every reachable state no balance, old or new, and no counter is below
\* zero, and only created buckets are migrated to.
THEOREM MigrationTypeCorrect == MigrationSpec => []MigrationTypeOK
<1>1. MigrationInit => MigrationTypeOK
  BY MigrationInitType
<1>2. MigrationTypeOK /\ [MigrationNext]_<<vars, migrationVars>> => MigrationTypeOK'
  BY MigrationNextType
<1> QED
  BY <1>1, <1>2, PTL DEF MigrationSpec

-----------------------------------------------------------------------------
(* Custody is not inductive when a redemption from the previous program may *)
(* move an NFT: one has to know that what it gives away is its own.         *)

OldCustody ==
    /\ \A m \in Droplets, n \in Nfts : n \in old_bucket[m] => nft_owner[n] = OLD_PROGRAM
    /\ \A m1, m2 \in Droplets, n \in Nfts :
           n \in old_bucket[m1] /\ n \in old_bucket[m2] => m1 = m2

CustodyInv == Custody /\ OldCustody

\* Neither the crank nor the previous program is a user or the authority.
LEMMA OldPartiesDistinct ==
    /\ SOLVENT_MIGRATION_CRANK \notin Users /\ OLD_PROGRAM \notin Users
    /\ SOLVENT_MIGRATION_CRANK # SOLVENT_AUTHORITY /\ OLD_PROGRAM # SOLVENT_AUTHORITY
    /\ SOLVENT_MIGRATION_CRANK # OLD_PROGRAM /\ SOLVENT_AUTHORITY \notin Users
BY StateAssumption, MigrationAssumption DEF StateAssumption, MigrationAssumption

\* An NFT that neither a wallet nor the program holds stays where it is, and
\* no NFT gets there, when a bucket, a locker or a wallet takes a step.
LEMMA NextLeavesOldParties ==
    ASSUME MigrationTypeOK, [Next]_vars, NEW n \in Nfts,
           NEW h \in {SOLVENT_MIGRATION_CRANK, OLD_PROGRAM}
    PROVE  nft_owner'[n] = h <=> nft_owner[n] = h
BY NextMovesNft, OldPartiesDistinct DEF MigrationTypeOK, vars

\* Every step keeps the custody of the program and of the previous one.
LEMMA MigrationNextCustody ==
    MigrationTypeOK /\ CustodyInv /\ [MigrationNext]_<<vars, migrationVars>> => CustodyInv'
<1> SUFFICES ASSUME MigrationTypeOK, Custody, OldCustody,
                    [MigrationNext]_<<vars, migrationVars>>
             PROVE  CustodyInv'
  BY DEF CustodyInv
<1>1. CASE [Next]_vars /\ UNCHANGED migrationVars
  <2>1. Custody'
    BY <1>1, NextCustody DEF MigrationTypeOK
  <2>2. OldCustody'
    BY <1>1, NextLeavesOldParties DEF OldCustody, migrationVars
  <2> QED
    BY <2>1, <2>2 DEF CustodyInv
<1>2. ASSUME NEW m \in Droplets, NEW n \in Nfts, NEW u \in Users, OldDeposit(m, n, u)
      PROVE  CustodyInv'
  <2>1. /\ nft_owner[n] = u
        /\ nft_owner' = [nft_owner EXCEPT ![n] = OLD_PROGRAM]
        /\ old_bucket' = [old_bucket EXCEPT ![m] = @ \cup {n}]
        /\ UNCHANGED <<deposit_state, locker_state>>
    BY <1>2 DEF OldDeposit
  <2>2. Custody'
    BY <2>1, OldPartiesDistinct, CustodyKept DEF MigrationTypeOK
  <2>3. \A b \in Droplets : n \notin old_bucket[b]
    BY <2>1, OldPartiesDistinct DEF OldCustody
  <2>4. \A b \in Droplets, k \in Nfts :
            k \in old_bucket'[b] <=> k \in old_bucket[b] \/ (b = m /\ k = n)
    BY <2>1 DEF MigrationTypeOK
  <2>5. \A k \in Nfts : nft_owner'[k] = IF k = n THEN OLD_PROGRAM ELSE nft_owner[k]
    BY <2>1 DEF MigrationTypeOK
  <2>6. OldCustody'
    BY <2>3, <2>4, <2>5 DEF OldCustody
  <2> QED
    BY <2>2, <2>6 DEF CustodyInv
<1>3. ASSUME NEW m \in Droplets, NEW n \in Nfts, NEW h \in OldHolders, OldRedeem(m, n, h)
      PROVE  CustodyInv'
  <2>1. /\ n \in old_bucket[m]
        /\ nft_owner' = [nft_owner EXCEPT ![n] = h]
        /\ old_bucket' = [old_bucket EXCEPT ![m] = @ \ {n}]
        /\ UNCHANGED <<deposit_state, locker_state>>
    BY <1>3 DEF OldRedeem
  <2>2. nft_owner[n] # SOLVENT_AUTHORITY
    BY <2>1, OldPartiesDistinct DEF OldCustody
  <2>3. Custody'
    BY <2>1, <2>2, CustodyKept DEF MigrationTypeOK
  <2>4. \A b \in Droplets, k \in Nfts :
            k \in old_bucket'[b] <=> k \in old_bucket[b] /\ k # n
    BY <2>1 DEF OldCustody, MigrationTypeOK
  <2>5. \A k \in Nfts \ {n} : nft_owner'[k] = nft_owner[k]
    BY <2>1 DEF MigrationTypeOK
  <2>6. OldCustody'
    BY <2>4, <2>5 DEF OldCustody
  <2> QED
    BY <2>3, <2>6 DEF CustodyInv
<1>4. ASSUME UNCHANGED <<nft_owner, deposit_state, locker_state, old_bucket>>
      PROVE  CustodyInv'
  BY <1>4, CustodyKept DEF CustodyInv, OldCustody
<1>5. ASSUME NEW m \in Droplets, NEW n \in Nfts, MigrateNft(m, n)
      PROVE  CustodyInv'
  <2>1. /\ nft_owner[n] = SOLVENT_MIGRATION_CRANK
        /\ nft_owner' = [nft_owner EXCEPT ![n] = SOLVENT_AUTHORITY]
        /\ deposit_state' = [deposit_state EXCEPT ![m] = @ \cup {n}]
        /\ UNCHANGED <<locker_state, old_bucket>>
    BY <1>5 DEF MigrateNft, NftTaken, migrationVars
  <2>2. \A b \in Droplets : ~Recorded(b, n)
    BY <2>1, OldPartiesDistinct DEF Custody
  <2>3. \A k \in Nfts \ {n} :
            /\ \A b \in Droplets : /\ k \in deposit_state'[b] <=> k \in deposit_state[b]
                                   /\ locker_state'[b][k] = locker_state[b][k]
            /\ nft_owner'[k] = nft_owner[k]
    BY <2>1 DEF MigrationTypeOK, AccountsTypeOK
  <2>4. /\ \A b \in Droplets \ {m} : ~Recorded(b, n)'
        /\ ~HasLocker(m, n)' /\ nft_owner'[n] = SOLVENT_AUTHORITY
    BY <2>1, <2>2 DEF Recorded, HasLocker, MigrationTypeOK, AccountsTypeOK
  <2>5. Custody'
    BY <2>3, <2>4, CustodyIsHeldBy, OneNftHeldBy DEF MigrationTypeOK, Recorded, HasLocker
  <2>6. OldCustody'
    BY <2>1, <2>3, OldPartiesDistinct DEF OldCustody
  <2> QED
    BY <2>5, <2>6 DEF CustodyInv
<1>6. ASSUME NEW m \in Droplets, OldStep(m) PROVE CustodyInv'
  BY <1>2, <1>3, <1>4, <1>6 DEF OldStep, OldTransfer, vars
<1>7. ASSUME NEW m \in Droplets, MigrationStep(m) PROVE CustodyInv'
  BY <1>4, <1>5, <1>7 DEF MigrationStep, StartMigration, MigrateDroplets, vars
<1> QED
  BY <1>1, <1>6, <1>7 DEF MigrationNext

\* In every reachable state both programs hold the NFTs they have records of.
LEMMA MigrationCustodyInv == MigrationSpec => []CustodyInv
<1>1. MigrationInit => CustodyInv
  BY DEF MigrationInit, Init, CustodyInv, Custody, Recorded, HasLocker, OldCustody
<1>2. MigrationTypeOK /\ CustodyInv /\ [MigrationNext]_<<vars, migrationVars>>
          => CustodyInv'
  BY MigrationNextCustody
<1> QED
  BY <1>1, <1>2, MigrationTypeCorrect, PTL DEF MigrationSpec

\* In every reachable state of a migration an NFT has at most one record, and
\* the program holds every NFT that has one.
THEOREM MigrationCustodyHolds == MigrationSpec => []Custody
<1>1. CustodyInv => Custody
  BY DEF CustodyInv
<1> QED
  BY <1>1, MigrationCustodyInv, PTL

-----------------------------------------------------------------------------
(* The counters and the loans *)

\* The previous program and the start of a migration leave the accounts of the
\* program alone; migrating droplets adds to a ledger.
LEMMA AccountsAlone ==
    ASSUME NEW m \in Droplets, OldStep(m) \/ MigrationStep(m)
    PROVE  \/ UNCHANGED <<created, bucket, deposit_state, locker_state, swap_state, now>>
           \/ \E n \in Nfts : MigrateNft(m, n)
BY DEF OldStep, OldDeposit, OldRedeem, OldTransfer, MigrationStep, StartMigration,
       MigrateDroplets, vars

\* Every step keeps the counts.
LEMMA MigrationNextCounted ==
    MigrationTypeOK /\ CountersInv /\ [MigrationNext]_<<vars, migrationVars>>
        => CountersInv'
<1> SUFFICES ASSUME MigrationTypeOK, CountersInv, [MigrationNext]_<<vars, migrationVars>>
             PROVE  CountersInv'
  OBVIOUS
<1>1. CASE [Next]_vars /\ UNCHANGED migrationVars
  BY <1>1, NextCounted DEF MigrationTypeOK
<1>2. CASE UNCHANGED <<created, bucket, deposit_state, locker_state, swap_state, now>>
  BY <1>2, CountersKept
<1>3. ASSUME NEW m \in Droplets, NEW n \in Nfts, MigrateNft(m, n)
      PROVE  CountersInv'
  <2> DEFINE D == deposit_state[m] \cup {n}
             i == bucket[m].num_nfts_in_bucket + 1
  <2>1. m \in created /\ n \notin deposit_state[m] /\ i <= U16_MAX
    BY <1>3 DEF MigrateNft
  <2>2. Cardinality(D) = Cardinality(deposit_state[m]) + 1
    BY <2>1, RecordsFinite, CountOneMore DEF MigrationTypeOK
  <2>3. i \in Nat /\ bucket' = [bucket EXCEPT ![m].num_nfts_in_bucket = i]
    BY <1>3, MigrateNftEffect DEF MigrationTypeOK
  <2>4. i = Cardinality(D) /\ D \in SUBSET Nfts
    BY <2>2 DEF CountersInv, CountersMatch, MigrationTypeOK, AccountsTypeOK
  <2>5. /\ deposit_state' = [deposit_state EXCEPT ![m] = D]
        /\ UNCHANGED <<created, locker_state>>
    BY <1>3 DEF MigrateNft, MigrationTypeOK, AccountsTypeOK
  <2> HIDE DEF D, i
  <2> QED
    BY <2>1, <2>3, <2>4, <2>5, DepositsCounted DEF MigrationTypeOK
<1> QED
  BY <1>1, <1>2, <1>3, AccountsAlone DEF MigrationNext

\* In every reachable state of a migration the counters that price the loans
\* are the numbers of records.
THEOREM MigrationCountersMatchHolds == MigrationSpec => []CountersMatch
<1>1. MigrationInit => CountersInv
  BY InitCounted DEF MigrationInit
<1>2. MigrationTypeOK /\ CountersInv /\ [MigrationNext]_<<vars, migrationVars>>
          => CountersInv'
  BY MigrationNextCounted
<1>3. CountersInv => CountersMatch
  BY DEF CountersInv
<1> QED
  BY <1>1, <1>2, <1>3, MigrationTypeCorrect, PTL DEF MigrationSpec

\* Every step keeps the loans sound.
LEMMA MigrationNextLoans ==
    MigrationTypeOK /\ LoansInv /\ [MigrationNext]_<<vars, migrationVars>> => LoansInv'
<1> SUFFICES ASSUME MigrationTypeOK, LoansInv, [MigrationNext]_<<vars, migrationVars>>
             PROVE  LoansInv'
  OBVIOUS
<1>1. AccountsTypeOK /\ AccountsTypeOK'
  BY MigrationNextType DEF MigrationTypeOK
<1>2. CASE [Next]_vars /\ UNCHANGED migrationVars
  BY <1>1, <1>2, NextLoans
<1>3. CASE UNCHANGED <<created, bucket, deposit_state, locker_state, swap_state, now>>
  BY <1>1, <1>3, LoansKept DEF LoansInv
<1>4. ASSUME NEW m \in Droplets, NEW n \in Nfts, MigrateNft(m, n)
      PROVE  LoansInv'
  <2> DEFINE i == bucket[m].num_nfts_in_bucket + 1
  <2>1. bucket' = [bucket EXCEPT ![m].num_nfts_in_bucket = i]
    BY <1>1, <1>4, MigrateNftEffect
  <2> HIDE DEF i
  <2>2. \A b \in Droplets : bucket'[b].interest_scaler = bucket[b].interest_scaler
    BY <1>1, <2>1 DEF AccountsTypeOK, Bucket
  <2>3. UNCHANGED <<locker_state, now>>
    BY <1>4 DEF MigrateNft
  <2> QED
    BY <1>1, <2>2, <2>3, LoansKept DEF LoansInv
<1> QED
  BY <1>2, <1>3, <1>4, AccountsAlone DEF MigrationNext

\* In every reachable state of a migration the loans are as they were quoted.
LEMMA MigrationLoansSound == MigrationSpec => []LoansInv
<1>1. MigrationInit => LoansInv
  BY InitLoans DEF MigrationInit
<1>2. MigrationTypeOK /\ LoansInv /\ [MigrationNext]_<<vars, migrationVars>> => LoansInv'
  BY MigrationNextLoans
<1> QED
  BY <1>1, <1>2, MigrationTypeCorrect, PTL DEF MigrationSpec

\* In every reachable state of a migration a depositor owes at most the value
\* of one NFT and the interest quoted, and no locker is stuck by an overflow.
THEOREM MigrationLoansHold == MigrationSpec => [](RepaymentBounded /\ Settleable)
<1>1. MigrationTypeOK /\ LoansInv => RepaymentBounded /\ Settleable
  BY SoundLoanSettles DEF RepaymentBounded, Settleable, MigrationTypeOK
<1> QED
  BY <1>1, MigrationLoansSound, MigrationTypeCorrect, PTL

-----------------------------------------------------------------------------
(* What a step may never do stays so: no step of a migration ends a locker  *)
(* or takes a deposit away.                                                 *)

LEMMA RecordsOnlyAdded ==
    ASSUME MigrationTypeOK, NEW m \in Droplets, OldStep(m) \/ MigrationStep(m)
    PROVE  /\ UNCHANGED <<locker_state, swap_state>>
           /\ \A b \in Droplets : deposit_state[b] \subseteq deposit_state'[b]
<1>1. ASSUME NEW n \in Nfts, MigrateNft(m, n)
      PROVE  /\ UNCHANGED <<locker_state, swap_state>>
             /\ \A b \in Droplets : deposit_state[b] \subseteq deposit_state'[b]
  BY <1>1 DEF MigrateNft, MigrationTypeOK, AccountsTypeOK
<1> QED
  BY <1>1, AccountsAlone

\* In every behaviour of a migration a locker ends by its repayment or its
\* liquidation only.
THEOREM MigrationLockerSettledInOneWay == MigrationSpec => LockerSettledInOneWay
<1>1. MigrationTypeOK /\ [MigrationNext]_<<vars, migrationVars>> =>
        [\A m \in Droplets, n \in Nfts :
             HasLocker(m, n) /\ locker_state'[m][n] # locker_state[m][n] =>
                 /\ locker_state'[m][n] = NoLocker
                 /\ Repaid(m, n) \/ Liquidated(m, n)]_vars
  BY LockerEnds, RecordsOnlyAdded DEF MigrationNext, MigrationTypeOK
<1> QED
  BY <1>1, MigrationTypeCorrect, PTL DEF MigrationSpec, LockerSettledInOneWay

\* In every behaviour of a migration a deposit leaves its bucket only against
\* its value in droplets, migrated ones included, or a swap.
THEOREM MigrationRedemptionPaid == MigrationSpec => RedemptionPaid
<1>1. MigrationTypeOK /\ [MigrationNext]_<<vars, migrationVars>> =>
        [\A m \in Droplets, n \in Nfts :
             n \in deposit_state[m] /\ n \notin deposit_state'[m] =>
                 \/ /\ Supply(m)' = Supply(m) - NFT_VALUE
                    /\ swap_state' = swap_state
                 \/ /\ Supply(m)' = Supply(m)
                    /\ \E u \in Users :
                           /\ swap_state[m][u]
                           /\ swap_state' = [swap_state EXCEPT ![m][u] = FALSE]]_vars
  BY DepositEnds, RedeemNftPays, RecordsOnlyAdded DEF MigrationNext, MigrationTypeOK
<1> QED
  BY <1>1, MigrationTypeCorrect, PTL DEF MigrationSpec, RedemptionPaid

-----------------------------------------------------------------------------
(* The cover of the buckets that are not under migration *)

\* The NFT brought had no record, so it backs what it is worth in addition.
LEMMA MigrateNftBacks ==
    ASSUME MigrationTypeOK, Custody, NEW m \in Droplets, NEW n \in Nfts, MigrateNft(m, n)
    PROVE  /\ Total(Backing(m)') = Total(Backing(m)) + NFT_VALUE
           /\ \A b \in Droplets \ {m} : Backing(b)' = Backing(b)
           /\ \A b \in Droplets : Supply(b)' = Supply(b) /\ Claims(b)' = Claims(b)
<1>1. /\ nft_owner[n] = SOLVENT_MIGRATION_CRANK
      /\ deposit_state' = [deposit_state EXCEPT ![m] = @ \cup {n}]
      /\ UNCHANGED <<locker_state, swap_state, balance>>
  BY DEF MigrateNft
<1>2. ~Recorded(m, n)
  BY <1>1, OldPartiesDistinct DEF Custody
<1>3. Backing(m)[n] = 0
  BY <1>2 DEF Backing, Recorded
<1>4. /\ n \in deposit_state'[m]
      /\ \A k \in Nfts \ {n} : /\ k \in deposit_state'[m] <=> k \in deposit_state[m]
                              /\ locker_state'[m][k] = locker_state[m][k]
  BY <1>1 DEF MigrationTypeOK, AccountsTypeOK
<1>5. Total(Backing(m)') = Total(Backing(m)) - Backing(m)[n] + NFT_VALUE
  BY <1>4, BackingUpdate, NftValueType DEF MigrationTypeOK
<1>6. Total(Backing(m)) \in Nat /\ NFT_VALUE \in Nat
  BY TotalsType, NftValueType DEF MigrationTypeOK
<1>7. \A b \in Droplets \ {m} : Backing(b)' = Backing(b)
  BY <1>1 DEF Backing, HasLocker, MigrationTypeOK, AccountsTypeOK
<1>8. \A b \in Droplets : Supply(b)' = Supply(b) /\ Claims(b)' = Claims(b)
  BY <1>1 DEF Supply, Claims
<1> QED
  BY <1>3, <1>5, <1>6, <1>7, <1>8

\* No step leaves a bucket less covered that is not under migration.
LEMMA OthersNoLessCovered ==
    ASSUME MigrationTypeOK, Custody, [MigrationNext]_<<vars, migrationVars>>,
           NEW b \in Droplets \ migration_state
    PROVE  NoLessCovered(b)
<1>1. AccountsTypeOK /\ AccountsTypeOK'
  BY MigrationNextType DEF MigrationTypeOK
<1>2. CASE [Next]_vars
  BY <1>1, <1>2, CustodyApart, NextCovered
<1>3. CASE /\ UNCHANGED <<deposit_state, locker_state, swap_state>>
           /\ balance'[b] = balance[b]
  <2>1. Supply(b)' <= Supply(b)
    BY <1>1, <1>3, TotalsType DEF Supply
  <2>2. UNCHANGED <<deposit_state[b], locker_state[b], Claims(b)>>
    BY <1>3 DEF Claims
  <2> QED
    BY <1>1, <2>1, <2>2, BucketNoLessCovered
<1>4. ASSUME NEW m \in Droplets, OldStep(m)
      PROVE  NoLessCovered(b)
  BY <1>3, <1>4 DEF OldStep, OldDeposit, OldRedeem, OldTransfer, vars
<1>5. ASSUME NEW m \in Droplets, NEW u \in Users, NEW dest \in Recipients,
             MigrateDroplets(m, u, dest)
      PROVE  NoLessCovered(b)
  <2>1. b # m
    BY <1>5 DEF MigrateDroplets, Started
  <2>2. balance'[b] = balance[b]
    BY <1>5, <2>1, MigrateDropletsEffect
  <2> QED
    BY <1>3, <1>5, <2>2 DEF MigrateDroplets
<1>6. ASSUME NEW m \in Droplets, NEW n \in Nfts, MigrateNft(m, n)
      PROVE  NoLessCovered(b)
  <2>1. /\ Supply(b)' = Supply(b) /\ Claims(b)' = Claims(b)
        /\ \/ Total(Backing(b)') = Total(Backing(b)) + NFT_VALUE
           \/ Total(Backing(b)') = Total(Backing(b))
    BY <1>6, MigrateNftBacks
  <2> QED
    BY <1>1, <2>1, TotalsType, NftValueType DEF NoLessCovered
<1>7. ASSUME NEW m \in Droplets, StartMigration(m)
      PROVE  NoLessCovered(b)
  BY <1>3, <1>7 DEF StartMigration, vars
<1> QED
  BY <1>2, <1>4, <1>5, <1>6, <1>7 DEF MigrationNext, MigrationStep

\* In every reachable state of a migration the other buckets are covered by
\* their own NFTs.
THEOREM OthersSolventHolds == MigrationSpec => []OthersSolvent
<1>1. MigrationInit => OthersSolvent
  BY InitSolvent DEF MigrationInit, Solvency, OthersSolvent
<1>2. MigrationTypeOK /\ Custody /\ OthersSolvent
          /\ [MigrationNext]_<<vars, migrationVars>> => OthersSolvent'
  <2> SUFFICES ASSUME MigrationTypeOK, Custody, OthersSolvent,
                      [MigrationNext]_<<vars, migrationVars>>,
                      NEW m \in Droplets, m \notin migration_state'
               PROVE  Supply(m)' + Total(Claims(m)') <= Total(Backing(m)')
    BY DEF OthersSolvent
  <2>1. m \notin migration_state
    BY DEF MigrationNext, OldStep, OldDeposit, OldRedeem, OldTransfer, MigrationStep,
           StartMigration, MigrateDroplets, MigrateNft, migrationVars
  <2>2. AccountsTypeOK /\ AccountsTypeOK'
    BY MigrationNextType DEF MigrationTypeOK
  <2> QED
    BY <2>1, <2>2, OthersNoLessCovered, StaysCovered DEF OthersSolvent
<1> QED
  BY <1>1, <1>2, MigrationTypeCorrect, MigrationCustodyHolds, PTL DEF MigrationSpec

-----------------------------------------------------------------------------
(* The cover of all buckets together with what the crank holds *)

\* The sums that MigrationSolvency compares are natural numbers.
LEMMA WorthType ==
    ASSUME MigrationTypeOK
    PROVE  /\ IsFiniteSet(Droplets) /\ IsFiniteSet(Nfts)
           /\ Liabilities \in [Droplets -> Nat] /\ Total(Liabilities) \in Nat
           /\ Assets \in [Droplets -> Nat] /\ Total(Assets) \in Nat
           /\ Fetched \in [Nfts -> Nat] /\ Total(Fetched) \in Nat
<1>1. IsFiniteSet(Droplets) /\ IsFiniteSet(Nfts)
  BY StateAssumption, MigrationAssumption DEF StateAssumption, MigrationAssumption
<1>2. Liabilities \in [Droplets -> Nat]
  BY TotalsType DEF Liabilities, MigrationTypeOK
<1>3. \A m \in Droplets : old_balance[m][SOLVENT_MIGRATION_CRANK] \in Nat
  BY OldHoldersFinite DEF MigrationTypeOK
<1>4. Assets \in [Droplets -> Nat]
  BY <1>3, TotalsType DEF Assets, MigrationTypeOK
<1>5. Fetched \in [Nfts -> Nat]
  BY NftValueType DEF Fetched
<1> QED
  BY <1>1, <1>2, <1>4, <1>5, TotalType

\* And after a step.
LEMMA NextWorthType ==
    ASSUME MigrationTypeOK'
    PROVE  /\ Liabilities' \in [Droplets -> Nat] /\ Total(Liabilities') \in Nat
           /\ Assets' \in [Droplets -> Nat] /\ Total(Assets') \in Nat
           /\ Fetched' \in [Nfts -> Nat] /\ Total(Fetched') \in Nat
<1>1. IsFiniteSet(Droplets) /\ IsFiniteSet(Nfts)
  BY StateAssumption, MigrationAssumption DEF StateAssumption, MigrationAssumption
<1>2. \A m \in Droplets : /\ Supply(m)' \in Nat /\ Total(Claims(m)') \in Nat
                          /\ Total(Backing(m)') \in Nat
  BY NextTotalsType DEF MigrationTypeOK
<1>3. Liabilities' \in [Droplets -> Nat]
  BY <1>2 DEF Liabilities
<1>4. \A m \in Droplets : old_balance'[m][SOLVENT_MIGRATION_CRANK] \in Nat
  BY OldHoldersFinite DEF MigrationTypeOK
<1>5. Assets' \in [Droplets -> Nat]
  BY <1>2, <1>4 DEF Assets
<1>6. Fetched' \in [Nfts -> Nat]
  BY NftValueType DEF Fetched
<1> QED
  BY <1>1, <1>3, <1>5, <1>6, TotalType

\* If in each bucket the liabilities grow by at most what the assets do, so do
\* the totals.
LEMMA TotalsNoWorse ==
    ASSUME MigrationTypeOK, MigrationTypeOK',
           \A m \in Droplets : Liabilities'[m] + Assets[m] <= Liabilities[m] + Assets'[m]
    PROVE  Total(Liabilities') + Total(Assets) <= Total(Liabilities) + Total(Assets')
<1> DEFINE before == [m \in Droplets |-> Liabilities[m] + Assets'[m]]
           after == [m \in Droplets |-> Liabilities'[m] + Assets[m]]
<1>1. /\ Liabilities \in [Droplets -> Nat] /\ Assets \in [Droplets -> Nat]
      /\ Liabilities' \in [Droplets -> Nat] /\ Assets' \in [Droplets -> Nat]
      /\ IsFiniteSet(Droplets)
  BY WorthType, NextWorthType
<1>2. /\ before \in [Droplets -> Nat] /\ after \in [Droplets -> Nat]
      /\ \A m \in Droplets : /\ before[m] = Liabilities[m] + Assets'[m]
                             /\ after[m] = Liabilities'[m] + Assets[m]
                             /\ after[m] <= before[m]
  BY <1>1
<1> HIDE DEF before, after
<1>3. Total(before) = Total(Liabilities) + Total(Assets')
  BY <1>1, <1>2, TotalSum
<1>4. Total(after) = Total(Liabilities') + Total(Assets)
  BY <1>1, <1>2, TotalSum
<1>5. Total(after) <= Total(before)
  BY <1>1, <1>2, TotalMonotone
<1> QED
  BY <1>3, <1>4, <1>5

\* A step that makes no bucket worse, and takes nothing from the crank.
LEMMA WorthKept ==
    ASSUME MigrationTypeOK, MigrationTypeOK', MigrationSolvency, Fetched' = Fetched,
           \A m \in Droplets : Liabilities'[m] + Assets[m] <= Liabilities[m] + Assets'[m]
    PROVE  MigrationSolvency'
<1>1. Total(Liabilities') + Total(Assets) <= Total(Liabilities) + Total(Assets')
  BY TotalsNoWorse
<1> QED
  BY <1>1, WorthType, NextWorthType DEF MigrationSolvency

\* The NFTs with the crank before and after the one NFT n changes hands.
LEMMA FetchedUpdate ==
    ASSUME MigrationTypeOK, NEW n \in Nfts, NEW h,
           nft_owner' = [nft_owner EXCEPT ![n] = h]
    PROVE  Total(Fetched') = Total(Fetched) - Fetched[n] +
               (IF h = SOLVENT_MIGRATION_CRANK THEN NFT_VALUE ELSE 0)
<1> DEFINE v == IF h = SOLVENT_MIGRATION_CRANK THEN NFT_VALUE ELSE 0
<1>1. v \in Nat
  BY NftValueType
<1>2. Fetched' = [Fetched EXCEPT ![n] = v]
  BY DEF Fetched, MigrationTypeOK
<1> HIDE DEF v
<1>3. Fetched \in [Nfts -> Nat] /\ IsFiniteSet(Nfts)
  BY WorthType
<1>4. Total([Fetched EXCEPT ![n] = v]) = Total(Fetched) - Fetched[n] + v
  BY <1>1, <1>3, TotalUpdate
<1> QED
  BY <1>2, <1>4 DEF v

\* A step of the previous program touches no liability, and only what the
\* crank has of the assets.
LEMMA OldStepWorth ==
    ASSUME MigrationTypeOK, UNCHANGED <<deposit_state, locker_state, swap_state, balance>>
    PROVE  /\ Liabilities' = Liabilities
           /\ \A m \in Droplets :
                  Assets'[m] = Total(Backing(m)) + old_balance'[m][SOLVENT_MIGRATION_CRANK]
<1>1. \A m \in Droplets : /\ Supply(m)' = Supply(m) /\ Claims(m)' = Claims(m)
                          /\ Backing(m)' = Backing(m)
  BY DEF Supply, Claims, Backing, HasLocker
<1> QED
  BY <1>1 DEF Liabilities, Assets

\* Such a step keeps the cover if no NFT gets to or from the crank and its old
\* droplets do not become fewer.
LEMMA OldStepKeepsWorth ==
    ASSUME MigrationTypeOK, MigrationTypeOK', MigrationSolvency,
           UNCHANGED <<deposit_state, locker_state, swap_state, balance>>,
           \A k \in Nfts : nft_owner'[k] = SOLVENT_MIGRATION_CRANK
                               <=> nft_owner[k] = SOLVENT_MIGRATION_CRANK,
           \A m \in Droplets : old_balance'[m][SOLVENT_MIGRATION_CRANK] >=
                                   old_balance[m][SOLVENT_MIGRATION_CRANK]
    PROVE  MigrationSolvency'
<1>1. Fetched' = Fetched
  BY DEF Fetched
<1>2. ASSUME NEW m \in Droplets
      PROVE  Liabilities'[m] + Assets[m] <= Liabilities[m] + Assets'[m]
  <2>1. /\ old_balance[m][SOLVENT_MIGRATION_CRANK] \in Nat
        /\ old_balance'[m][SOLVENT_MIGRATION_CRANK] \in Nat
    BY OldHoldersFinite DEF MigrationTypeOK
  <2>2. /\ Assets[m] = Total(Backing(m)) + old_balance[m][SOLVENT_MIGRATION_CRANK]
        /\ Total(Backing(m)) \in Nat
    BY TotalsType DEF Assets, MigrationTypeOK
  <2>3. Liabilities'[m] = Liabilities[m] /\ Liabilities[m] \in Nat
    BY OldStepWorth, WorthType
  <2>4. Assets'[m] = Total(Backing(m)) + old_balance'[m][SOLVENT_MIGRATION_CRANK]
    BY OldStepWorth
  <2> QED
    BY <2>1, <2>2, <2>3, <2>4
<1> QED
  BY <1>1, <1>2, WorthKept

\* The crank redeems from the previous program: old droplets become an NFT of
\* the same worth.
LEMMA CrankRedeems ==
    ASSUME MigrationTypeOK, MigrationTypeOK', OldCustody, MigrationSolvency,
           NEW m \in Droplets, NEW n \in Nfts, OldRedeem(m, n, SOLVENT_MIGRATION_CRANK)
    PROVE  MigrationSolvency'
<1> DEFINE v == Assets[m] - NFT_VALUE
<1>1. /\ nft_owner[n] = OLD_PROGRAM
      /\ nft_owner' = [nft_owner EXCEPT ![n] = SOLVENT_MIGRATION_CRANK]
      /\ UNCHANGED <<deposit_state, locker_state, swap_state, balance>>
      /\ old_balance[m][SOLVENT_MIGRATION_CRANK] >= NFT_VALUE
  BY DEF OldRedeem, OldCustody, CanPay
<1>2. Total(Fetched') = Total(Fetched) + NFT_VALUE
  <2>1. Fetched[n] = 0
    BY <1>1, OldPartiesDistinct DEF Fetched
  <2>2. Total(Fetched') = Total(Fetched) - Fetched[n] + NFT_VALUE
    BY <1>1, FetchedUpdate
  <2> QED
    BY <2>1, <2>2, WorthType, NftValueType
<1>3. /\ Assets[m] = Total(Backing(m)) + old_balance[m][SOLVENT_MIGRATION_CRANK]
      /\ Total(Backing(m)) \in Nat /\ old_balance[m][SOLVENT_MIGRATION_CRANK] \in Nat
  BY TotalsType, OldHoldersFinite DEF Assets, MigrationTypeOK
<1>4. v \in Nat
  BY <1>1, <1>3, NftValueType
<1>5. Assets' = [Assets EXCEPT ![m] = v]
  <2>1. Assets'[m] = v
    <3>1. old_balance'[m][SOLVENT_MIGRATION_CRANK] =
              old_balance[m][SOLVENT_MIGRATION_CRANK] - NFT_VALUE
      BY OldRedeemEffect, OldHoldersFinite
    <3>2. Assets'[m] = Total(Backing(m)) + old_balance'[m][SOLVENT_MIGRATION_CRANK]
      BY <1>1, OldStepWorth
    <3> QED
      BY <1>3, <3>1, <3>2, NftValueType
  <2>2. \A b \in Droplets \ {m} : Assets'[b] = Assets[b]
    <3>1. \A b \in Droplets \ {m} : old_balance'[b][SOLVENT_MIGRATION_CRANK] =
                                        old_balance[b][SOLVENT_MIGRATION_CRANK]
      BY OldRedeemEffect, OldHoldersFinite
    <3>2. \A b \in Droplets :
              Assets'[b] = Total(Backing(b)) + old_balance'[b][SOLVENT_MIGRATION_CRANK]
      BY <1>1, OldStepWorth
    <3> QED
      BY <3>1, <3>2 DEF Assets
  <2> HIDE DEF v
  <2> QED
    BY <2>1, <2>2, WorthType, NextWorthType
<1> HIDE DEF v
<1>6. Total(Assets') = Total(Assets) - Assets[m] + v
  BY <1>4, <1>5, WorthType, TotalUpdate
<1>7. Total(Assets') = Total(Assets) - NFT_VALUE
  BY <1>4, <1>6, WorthType, NftValueType DEF v
<1>8. Liabilities' = Liabilities
  BY <1>1, OldStepWorth
<1> QED
  BY <1>2, <1>7, <1>8, WorthType, NftValueType DEF MigrationSolvency

\* Every step of the previous program keeps the cover.
LEMMA OldStepSolvent ==
    ASSUME MigrationTypeOK, MigrationTypeOK', OldCustody, MigrationSolvency,
           NEW m \in Droplets, OldStep(m)
    PROVE  MigrationSolvency'
<1>1. UNCHANGED <<deposit_state, locker_state, swap_state, balance>>
  BY DEF OldStep, OldDeposit, OldRedeem, OldTransfer, vars
<1>2. \A b \in Droplets : old_balance[b][SOLVENT_MIGRATION_CRANK] \in Nat
  BY OldHoldersFinite DEF MigrationTypeOK
<1>3. ASSUME NEW n \in Nfts, NEW u \in Users, OldDeposit(m, n, u)
      PROVE  MigrationSolvency'
  <2>1. \A k \in Nfts : nft_owner'[k] = SOLVENT_MIGRATION_CRANK
                            <=> nft_owner[k] = SOLVENT_MIGRATION_CRANK
    BY <1>3, OldPartiesDistinct DEF OldDeposit, MigrationTypeOK
  <2> QED
    BY <1>1, <1>2, <1>3, <2>1, OldDepositEffect, OldStepKeepsWorth
<1>4. ASSUME NEW n \in Nfts, NEW u \in Users, OldRedeem(m, n, u)
      PROVE  MigrationSolvency'
  <2>1. \A k \in Nfts : nft_owner'[k] = SOLVENT_MIGRATION_CRANK
                            <=> nft_owner[k] = SOLVENT_MIGRATION_CRANK
    BY <1>4, OldPartiesDistinct DEF OldRedeem, OldCustody, MigrationTypeOK
  <2>2. \A b \in Droplets : old_balance'[b][SOLVENT_MIGRATION_CRANK] =
                                old_balance[b][SOLVENT_MIGRATION_CRANK]
    BY <1>4, OldHoldersFinite, OldRedeemEffect
  <2> QED
    BY <1>1, <1>2, <2>1, <2>2, OldStepKeepsWorth
<1>5. ASSUME NEW from \in Users, NEW to \in OldHolders, NEW amount \in TransferAmounts,
             OldTransfer(m, from, to, amount)
      PROVE  MigrationSolvency'
  <2>1. UNCHANGED nft_owner
    BY <1>5 DEF OldTransfer, vars
  <2> QED
    BY <1>1, <1>5, <2>1, OldTransferEffect, OldStepKeepsWorth
<1> QED
  BY <1>3, <1>4, <1>5, CrankRedeems DEF OldStep, OldHolders

\* A step of the buckets, the lockers or a wallet leaves no bucket less covered
\* and takes nothing from the crank.
LEMMA SolventStepKeepsWorth ==
    ASSUME MigrationTypeOK, MigrationTypeOK', Custody, MigrationSolvency,
           [Next]_vars, UNCHANGED migrationVars
    PROVE  MigrationSolvency'
<1>1. Fetched' = Fetched
  BY NextLeavesOldParties DEF Fetched
<1>2. ASSUME NEW m \in Droplets
      PROVE  Liabilities'[m] + Assets[m] <= Liabilities[m] + Assets'[m]
  <2>1. NoLessCovered(m)
    BY CustodyApart, NextCovered DEF MigrationTypeOK
  <2>2. /\ Liabilities[m] = Supply(m) + Total(Claims(m))
        /\ Liabilities'[m] = Supply(m)' + Total(Claims(m)')
        /\ Assets[m] = Total(Backing(m)) + old_balance[m][SOLVENT_MIGRATION_CRANK]
        /\ Assets'[m] = Total(Backing(m)') + old_balance[m][SOLVENT_MIGRATION_CRANK]
    BY DEF Liabilities, Assets, migrationVars
  <2>3. old_balance[m][SOLVENT_MIGRATION_CRANK] \in Nat
    BY OldHoldersFinite DEF MigrationTypeOK
  <2> QED
    BY <2>1, <2>2, <2>3, TotalsType, NextTotalsType DEF NoLessCovered, MigrationTypeOK
<1> QED
  BY <1>1, <1>2, WorthKept

\* The droplets minted are as many as the crank receives.
LEMMA MigrateDropletsKeepsWorth ==
    ASSUME MigrationTypeOK, MigrationTypeOK', MigrationSolvency, NEW m \in Droplets,
           NEW u \in Users, NEW dest \in Recipients, MigrateDroplets(m, u, dest)
    PROVE  MigrationSolvency'
<1>1. UNCHANGED <<deposit_state, locker_state, swap_state, nft_owner>>
  BY DEF MigrateDroplets
<1>2. Fetched' = Fetched
  BY <1>1 DEF Fetched
<1>3. ASSUME NEW b \in Droplets
      PROVE  Liabilities'[b] + Assets[b] <= Liabilities[b] + Assets'[b]
  <2> DEFINE x == IF b = m THEN old_balance[m][u] ELSE 0
  <2>1. /\ Supply(b)' = Supply(b) + x
        /\ old_balance'[b][SOLVENT_MIGRATION_CRANK] =
               old_balance[b][SOLVENT_MIGRATION_CRANK] + x
        /\ Supply(b) \in Nat /\ old_balance[b][SOLVENT_MIGRATION_CRANK] \in Nat
        /\ x \in Nat
    <3>1. /\ Supply(b) \in Nat /\ old_balance[b][SOLVENT_MIGRATION_CRANK] \in Nat
          /\ x \in Nat
      BY TotalsType, OldHoldersFinite DEF MigrationTypeOK
    <3>2. CASE b = m
      BY <3>1, <3>2, MigrateDropletsEffect
    <3>3. CASE b # m
      BY <3>1, <3>3, MigrateDropletsEffect DEF Supply
    <3> QED
      BY <3>1, <3>2, <3>3
  <2>2. Claims(b)' = Claims(b) /\ Backing(b)' = Backing(b)
    BY <1>1 DEF Claims, Backing, HasLocker
  <2>3. /\ Liabilities[b] = Supply(b) + Total(Claims(b))
        /\ Liabilities'[b] = Supply(b)' + Total(Claims(b))
        /\ Assets[b] = Total(Backing(b)) + old_balance[b][SOLVENT_MIGRATION_CRANK]
        /\ Assets'[b] = Total(Backing(b)) + old_balance'[b][SOLVENT_MIGRATION_CRANK]
    BY <2>2 DEF Liabilities, Assets
  <2> HIDE DEF x
  <2> QED
    BY <2>1, <2>3, TotalsType DEF MigrationTypeOK
<1> QED
  BY <1>2, <1>3, WorthKept

\* The NFT that the crank gives up backs droplets in the bucket instead.
LEMMA MigrateNftKeepsWorth ==
    ASSUME MigrationTypeOK, MigrationTypeOK', Custody, MigrationSolvency,
           NEW m \in Droplets, NEW n \in Nfts, MigrateNft(m, n)
    PROVE  MigrationSolvency'
<1> DEFINE v == Assets[m] + NFT_VALUE
<1>1. /\ nft_owner[n] = SOLVENT_MIGRATION_CRANK
      /\ nft_owner' = [nft_owner EXCEPT ![n] = SOLVENT_AUTHORITY]
      /\ UNCHANGED old_balance
  BY DEF MigrateNft, NftTaken, migrationVars
<1>2. Total(Fetched') = Total(Fetched) - NFT_VALUE
  <2>1. Fetched[n] = NFT_VALUE
    BY <1>1 DEF Fetched
  <2>2. Total(Fetched') = Total(Fetched) - Fetched[n] + 0
    BY <1>1, FetchedUpdate, OldPartiesDistinct
  <2> QED
    BY <2>1, <2>2, WorthType, NftValueType
<1>3. v \in Nat /\ Assets[m] \in Nat
  BY WorthType, NftValueType
<1>4. Assets' = [Assets EXCEPT ![m] = v]
  <2>1. Assets'[m] = v
    <3>1. /\ Assets[m] = Total(Backing(m)) + old_balance[m][SOLVENT_MIGRATION_CRANK]
          /\ Assets'[m] = Total(Backing(m)') + old_balance[m][SOLVENT_MIGRATION_CRANK]
      BY <1>1 DEF Assets
    <3>2. Total(Backing(m)') = Total(Backing(m)) + NFT_VALUE
      BY MigrateNftBacks
    <3>3. Total(Backing(m)) \in Nat /\ old_balance[m][SOLVENT_MIGRATION_CRANK] \in Nat
      BY TotalsType, OldHoldersFinite DEF MigrationTypeOK
    <3> QED
      BY <3>1, <3>2, <3>3, NftValueType
  <2>2. \A b \in Droplets \ {m} : Assets'[b] = Assets[b]
    <3>1. \A b \in Droplets \ {m} : Backing(b)' = Backing(b)
      BY MigrateNftBacks
    <3> QED
      BY <1>1, <3>1 DEF Assets
  <2> HIDE DEF v
  <2> QED
    BY <2>1, <2>2, WorthType, NextWorthType
<1> HIDE DEF v
<1>5. Total(Assets') = Total(Assets) - Assets[m] + v
  BY <1>3, <1>4, WorthType, TotalUpdate
<1>6. Total(Assets') = Total(Assets) + NFT_VALUE
  BY <1>3, <1>5, WorthType, NftValueType DEF v
<1>7. Liabilities' = Liabilities
  BY MigrateNftBacks DEF Liabilities
<1> QED
  BY <1>2, <1>6, <1>7, WorthType, NftValueType DEF MigrationSolvency

\* Every step keeps the cover.
LEMMA MigrationNextSolvent ==
    MigrationTypeOK /\ CustodyInv /\ MigrationSolvency
        /\ [MigrationNext]_<<vars, migrationVars>> => MigrationSolvency'
<1> SUFFICES ASSUME MigrationTypeOK, Custody, OldCustody, MigrationSolvency,
                    [MigrationNext]_<<vars, migrationVars>>
             PROVE  MigrationSolvency'
  BY DEF CustodyInv
<1>1. MigrationTypeOK'
  BY MigrationNextType
<1>2. CASE [Next]_vars /\ UNCHANGED migrationVars
  BY <1>1, <1>2, SolventStepKeepsWorth
<1>3. ASSUME NEW m \in Droplets, MigrationStep(m)
      PROVE  MigrationSolvency'
  <2>1. CASE StartMigration(m)
    <3>1. UNCHANGED <<vars, old_balance>>
      BY <2>1 DEF StartMigration
    <3>2. /\ \A b \in Droplets : /\ Supply(b)' = Supply(b) /\ Claims(b)' = Claims(b)
                                 /\ Backing(b)' = Backing(b)
          /\ Fetched' = Fetched
      BY <3>1 DEF vars, Supply, Claims, Backing, HasLocker, Fetched
    <3>3. Liabilities' = Liabilities /\ Assets' = Assets
      BY <3>1, <3>2 DEF Liabilities, Assets
    <3> QED
      BY <3>2, <3>3 DEF MigrationSolvency
  <2> QED
    BY <1>1, <1>3, <2>1, MigrateDropletsKeepsWorth, MigrateNftKeepsWorth DEF MigrationStep
<1> QED
  BY <1>1, <1>2, <1>3, OldStepSolvent DEF MigrationNext

\* In every reachable state all droplets and pending swaps, over all buckets,
\* are covered by the NFTs in the buckets, the debts of the lockers and what the
\* crank holds to bring more.
THEOREM MigrationSolvencyHolds == MigrationSpec => []MigrationSolvency
<1>1. MigrationInit => MigrationSolvency
  <2> SUFFICES ASSUME MigrationInit PROVE MigrationSolvency
    OBVIOUS
  <2>1. MigrationTypeOK
    BY MigrationInitType
  <2>2. ASSUME NEW m \in Droplets PROVE Liabilities[m] <= Assets[m]
    <3>1. Supply(m) + Total(Claims(m)) <= Total(Backing(m))
      BY InitSolvent DEF MigrationInit, Solvency
    <3>2. old_balance[m][SOLVENT_MIGRATION_CRANK] \in Nat
      BY <2>1, OldHoldersFinite DEF MigrationTypeOK
    <3>3. /\ Liabilities[m] = Supply(m) + Total(Claims(m))
          /\ Assets[m] = Total(Backing(m)) + old_balance[m][SOLVENT_MIGRATION_CRANK]
      BY DEF Liabilities, Assets
    <3> QED
      BY <2>1, <3>1, <3>2, <3>3, TotalsType DEF MigrationTypeOK
  <2>3. Total(Liabilities) <= Total(Assets)
    BY <2>1, <2>2, WorthType, TotalMonotone
  <2> QED
    BY <2>1, <2>3, WorthType DEF MigrationSolvency
<1>2. MigrationTypeOK /\ CustodyInv /\ MigrationSolvency
          /\ [MigrationNext]_<<vars, migrationVars>> => MigrationSolvency'
  BY MigrationNextSolvent
<1> QED
  BY <1>1, <1>2, MigrationTypeCorrect, MigrationCustodyInv, PTL DEF MigrationSpec

-----------------------------------------------------------------------------
(* The cover of all droplets by NFTs alone.  AllDropletsBacked follows from *)
(* MigrationSolvency and from what the previous program keeps to itself:    *)
(* its droplets are worth what the NFTs in its buckets are.                 *)

OldSupply == [m \in Droplets |-> Total(old_balance[m])]

InOldProgram == [n \in Nfts |-> IF nft_owner[n] = OLD_PROGRAM THEN NFT_VALUE ELSE 0]

OldBacked == Total(OldSupply) = Total(InOldProgram)

LEMMA OldSumsType ==
    ASSUME MigrationTypeOK
    PROVE  /\ IsFiniteSet(Droplets) /\ IsFiniteSet(Nfts)
           /\ OldSupply \in [Droplets -> Nat] /\ Total(OldSupply) \in Nat
           /\ InOldProgram \in [Nfts -> Nat] /\ Total(InOldProgram) \in Nat
<1>1. IsFiniteSet(Droplets) /\ IsFiniteSet(Nfts)
  BY StateAssumption, MigrationAssumption DEF StateAssumption, MigrationAssumption
<1>2. OldSupply \in [Droplets -> Nat]
  BY OldHoldersFinite, TotalType DEF OldSupply, MigrationTypeOK
<1>3. InOldProgram \in [Nfts -> Nat]
  BY NftValueType DEF InOldProgram
<1> QED
  BY <1>1, <1>2, <1>3, TotalType

\* One old ledger changes.
LEMMA OldSupplyUpdate ==
    ASSUME MigrationTypeOK, NEW m \in Droplets, NEW l \in [OldHolders -> Nat],
           old_balance' = [old_balance EXCEPT ![m] = l]
    PROVE  /\ Total(OldSupply') = Total(OldSupply) - Total(old_balance[m]) + Total(l)
           /\ Total(old_balance[m]) \in Nat /\ Total(l) \in Nat
<1>1. Total(l) \in Nat /\ OldSupply[m] = Total(old_balance[m]) /\ OldSupply[m] \in Nat
  BY OldHoldersFinite, OldSumsType, TotalType DEF OldSupply
<1> DEFINE v == Total(l)
<1>2. OldSupply' = [OldSupply EXCEPT ![m] = v]
  BY DEF OldSupply, MigrationTypeOK
<1> HIDE DEF v
<1>3. v \in Nat
  BY <1>1 DEF v
<1>4. Total([OldSupply EXCEPT ![m] = v]) = Total(OldSupply) - OldSupply[m] + v
  BY <1>3, OldSumsType, TotalUpdate
<1> QED
  BY <1>1, <1>2, <1>4 DEF v

\* One NFT changes hands.
LEMMA InOldProgramUpdate ==
    ASSUME MigrationTypeOK, NEW n \in Nfts, NEW h,
           nft_owner' = [nft_owner EXCEPT ![n] = h]
    PROVE  Total(InOldProgram') = Total(InOldProgram) - InOldProgram[n] +
               (IF h = OLD_PROGRAM THEN NFT_VALUE ELSE 0)
<1> DEFINE v == IF h = OLD_PROGRAM THEN NFT_VALUE ELSE 0
<1>1. v \in Nat
  BY NftValueType
<1>2. InOldProgram' = [InOldProgram EXCEPT ![n] = v]
  BY DEF InOldProgram, MigrationTypeOK
<1> HIDE DEF v
<1>3. Total([InOldProgram EXCEPT ![n] = v]) = Total(InOldProgram) - InOldProgram[n] + v
  BY <1>1, OldSumsType, TotalUpdate
<1> QED
  BY <1>2, <1>3 DEF v

\* The previous program issues an NFT's value for an NFT, and takes it back.
LEMMA OldStepBacked ==
    ASSUME MigrationTypeOK, OldCustody, OldBacked, NEW m \in Droplets, OldStep(m)
    PROVE  OldBacked'
<1>1. /\ old_balance = [b \in Droplets |-> old_balance[b]]
      /\ old_balance[m] \in [OldHolders -> Nat] /\ IsFiniteSet(OldHolders)
      /\ Total(OldSupply) \in Nat /\ Total(InOldProgram) \in Nat /\ NFT_VALUE \in Nat
  BY OldHoldersFinite, OldSumsType, NftValueType DEF MigrationTypeOK
<1>2. ASSUME NEW n \in Nfts, NEW u \in Users, OldDeposit(m, n, u)
      PROVE  OldBacked'
  <2> DEFINE l == MintTo(old_balance[m], u, NFT_VALUE)
  <2>1. l \in [OldHolders -> Nat] /\ Total(l) = Total(old_balance[m]) + NFT_VALUE
    BY <1>1, OldHoldersFinite, MintToLedger
  <2>2. /\ old_balance' = [old_balance EXCEPT ![m] = l]
        /\ nft_owner' = [nft_owner EXCEPT ![n] = OLD_PROGRAM]
        /\ nft_owner[n] = u
    BY <1>2 DEF OldDeposit
  <2> HIDE DEF l
  <2>3. Total(OldSupply') = Total(OldSupply) + NFT_VALUE
    BY <1>1, <2>1, <2>2, OldSupplyUpdate
  <2>4. InOldProgram[n] = 0
    BY <2>2, OldPartiesDistinct DEF InOldProgram
  <2>5. Total(InOldProgram') = Total(InOldProgram) - InOldProgram[n] + NFT_VALUE
    BY <2>2, InOldProgramUpdate
  <2> QED
    BY <1>1, <2>3, <2>4, <2>5 DEF OldBacked
<1>3. ASSUME NEW n \in Nfts, NEW h \in OldHolders, OldRedeem(m, n, h)
      PROVE  OldBacked'
  <2> DEFINE l == Burn(old_balance[m], h, NFT_VALUE)
  <2>1. l \in [OldHolders -> Nat] /\ Total(l) = Total(old_balance[m]) - NFT_VALUE
    BY <1>1, <1>3, BurnLedger DEF OldRedeem
  <2>2. /\ old_balance' = [old_balance EXCEPT ![m] = l]
        /\ nft_owner' = [nft_owner EXCEPT ![n] = h]
        /\ nft_owner[n] = OLD_PROGRAM
    BY <1>3 DEF OldRedeem, OldCustody
  <2> HIDE DEF l
  <2>3. Total(OldSupply') = Total(OldSupply) - NFT_VALUE
    BY <1>1, <2>1, <2>2, OldSupplyUpdate
  <2>4. InOldProgram[n] = NFT_VALUE /\ h # OLD_PROGRAM
    BY <2>2, OldPartiesDistinct DEF InOldProgram, OldHolders
  <2>5. Total(InOldProgram') = Total(InOldProgram) - InOldProgram[n] + 0
    BY <2>2, <2>4, InOldProgramUpdate
  <2> QED
    BY <1>1, <2>3, <2>4, <2>5 DEF OldBacked
<1>4. ASSUME NEW from \in Users, NEW to \in OldHolders, NEW amount \in TransferAmounts,
             OldTransfer(m, from, to, amount)
      PROVE  OldBacked'
  <2> DEFINE l == Transfer(old_balance[m], from, to, amount)
  <2>1. l \in [OldHolders -> Nat] /\ Total(l) = Total(old_balance[m])
    <3>1. from \in OldHolders /\ amount \in Nat /\ CanPay(old_balance[m], from, amount)
      BY <1>4, OldHoldersFinite, BoundsAssumption DEF OldTransfer, BoundsAssumption
    <3> QED
      BY <1>1, <3>1, TransferLedger
  <2>2. old_balance' = [old_balance EXCEPT ![m] = l] /\ UNCHANGED nft_owner
    BY <1>4 DEF OldTransfer, vars
  <2> HIDE DEF l
  <2>3. Total(OldSupply') = Total(OldSupply)
    BY <1>1, <2>1, <2>2, OldSupplyUpdate
  <2>4. InOldProgram' = InOldProgram
    BY <2>2 DEF InOldProgram
  <2> QED
    BY <2>3, <2>4 DEF OldBacked
<1> QED
  BY <1>2, <1>3, <1>4 DEF OldStep

\* Migrating droplets only moves old ones, and no other step touches them or
\* the NFTs in the previous program.
LEMMA OldBackedKept ==
    MigrationTypeOK /\ OldCustody /\ OldBacked
        /\ [MigrationNext]_<<vars, migrationVars>> => OldBacked'
<1> SUFFICES ASSUME MigrationTypeOK, OldCustody, OldBacked,
                    [MigrationNext]_<<vars, migrationVars>>
             PROVE  OldBacked'
  OBVIOUS
<1>1. CASE /\ UNCHANGED old_balance
           /\ \A n \in Nfts : nft_owner'[n] = OLD_PROGRAM <=> nft_owner[n] = OLD_PROGRAM
  BY <1>1 DEF OldBacked, OldSupply, InOldProgram
<1>2. CASE [Next]_vars /\ UNCHANGED migrationVars
  BY <1>1, <1>2, NextLeavesOldParties DEF migrationVars
<1>3. ASSUME NEW m \in Droplets, NEW u \in Users, NEW dest \in Recipients,
             MigrateDroplets(m, u, dest)
      PROVE  OldBacked'
  <2> DEFINE x == old_balance[m][u]
             l == Transfer(old_balance[m], u, SOLVENT_MIGRATION_CRANK, x)
  <2>1. l \in [OldHolders -> Nat] /\ Total(l) = Total(old_balance[m])
    <3>1. /\ old_balance[m] \in [OldHolders -> Nat] /\ IsFiniteSet(OldHolders)
          /\ u \in OldHolders /\ SOLVENT_MIGRATION_CRANK \in OldHolders
      BY OldHoldersFinite DEF MigrationTypeOK
    <3>2. x \in Nat /\ CanPay(old_balance[m], u, x)
      BY <3>1 DEF CanPay
    <3> HIDE DEF x
    <3> QED
      BY <3>1, <3>2, TransferLedger
  <2>2. old_balance' = [old_balance EXCEPT ![m] = l] /\ UNCHANGED nft_owner
    BY <1>3 DEF MigrateDroplets, OldTaken, DropletsToMigrate
  <2> HIDE DEF l, x
  <2>3. Total(OldSupply') = Total(OldSupply)
    <3>1. /\ Total(OldSupply') = Total(OldSupply) - Total(old_balance[m]) + Total(l)
          /\ Total(old_balance[m]) \in Nat /\ Total(l) \in Nat
      BY <2>1, <2>2, OldSupplyUpdate
    <3> QED
      BY <2>1, <3>1, OldSumsType
  <2>4. InOldProgram' = InOldProgram
    BY <2>2 DEF InOldProgram
  <2> QED
    BY <2>3, <2>4 DEF OldBacked
<1>4. ASSUME NEW m \in Droplets, NEW n \in Nfts, MigrateNft(m, n)
      PROVE  OldBacked'
  BY <1>1, <1>4, OldPartiesDistinct
     DEF MigrateNft, NftTaken, migrationVars, MigrationTypeOK
<1>5. ASSUME NEW m \in Droplets, StartMigration(m)
      PROVE  OldBacked'
  BY <1>1, <1>5 DEF StartMigration, vars
<1> QED
  BY <1>2, <1>3, <1>4, <1>5, OldStepBacked DEF MigrationNext, MigrationStep

\* Old droplets are with users or with the crank.
LEMMA CrankApart ==
    ASSUME NEW f \in [OldHolders -> Nat]
    PROVE  Total(f) = Total([u \in Users |-> f[u]]) + f[SOLVENT_MIGRATION_CRANK]
<1> DEFINE g == [u \in Users |-> f[u]]
<1>1. /\ OldHolders \ {SOLVENT_MIGRATION_CRANK} = Users
      /\ SOLVENT_MIGRATION_CRANK \in OldHolders /\ IsFiniteSet(OldHolders)
  BY OldHoldersFinite DEF OldHolders
<1>2. Total(f) = Cardinality(Units(f, OldHolders \ {SOLVENT_MIGRATION_CRANK}))
                     + f[SOLVENT_MIGRATION_CRANK]
  BY <1>1, TotalSplit
<1>3. Units(f, Users) = Units(g, Users)
  BY <1>1 DEF Units, UnitsOf
<1>4. Total(g) = Cardinality(Units(g, Users))
  BY DEF Total
<1> QED
  BY <1>1, <1>2, <1>3, <1>4

\* What is unmigrated, in buckets and on the way has a worth.
LEMMA BackedSumsType ==
    ASSUME MigrationTypeOK
    PROVE  /\ Unmigrated \in [Droplets -> Nat] /\ Total(Unmigrated) \in Nat
           /\ InBuckets \in [Droplets -> Nat] /\ Total(InBuckets) \in Nat
           /\ OnTheWay \in [Nfts -> Nat] /\ Total(OnTheWay) \in Nat
<1>1. \A m \in Droplets : /\ old_balance[m] \in [OldHolders -> Nat]
                          /\ Total(Backing(m)) \in Nat
  BY TotalsType DEF MigrationTypeOK
<1>2. ASSUME NEW m \in Droplets PROVE Total([u \in Users |-> old_balance[m][u]]) \in Nat
  <2>1. [u \in Users |-> old_balance[m][u]] \in [Users -> Nat] /\ IsFiniteSet(Users)
    BY <1>1, OldHoldersFinite, StateAssumption DEF StateAssumption
  <2> QED
    BY <2>1, TotalType
<1>3. /\ Unmigrated \in [Droplets -> Nat]
      /\ InBuckets \in [Droplets -> Nat]
      /\ OnTheWay \in [Nfts -> Nat]
  BY <1>1, <1>2, NftValueType DEF Unmigrated, InBuckets, OnTheWay
<1> QED
  BY <1>3, OldSumsType, TotalType

\* What the crank holds against old droplets, and what the previous program
\* holds against the users' old droplets, are NFTs.
LEMMA BackedByNfts ==
    ASSUME MigrationTypeOK, MigrationSolvency, OldBacked
    PROVE  AllDropletsBacked
<1> DEFINE crank == [m \in Droplets |-> old_balance[m][SOLVENT_MIGRATION_CRANK]]
<1>1. /\ IsFiniteSet(Droplets) /\ IsFiniteSet(Nfts)
      /\ crank \in [Droplets -> Nat]
      /\ Unmigrated \in [Droplets -> Nat]
      /\ InBuckets \in [Droplets -> Nat]
      /\ OnTheWay \in [Nfts -> Nat]
  BY OldHoldersFinite, OldSumsType, BackedSumsType DEF MigrationTypeOK
<1>2. \A m \in Droplets : OldSupply[m] = Unmigrated[m] + crank[m]
  BY CrankApart DEF OldSupply, Unmigrated, MigrationTypeOK
<1>3. \A m \in Droplets : Assets[m] = InBuckets[m] + crank[m]
  BY DEF Assets, InBuckets
<1>4. \A n \in Nfts : OnTheWay[n] = Fetched[n] + InOldProgram[n]
  BY OldPartiesDistinct, NftValueType DEF OnTheWay, Fetched, InOldProgram
<1> HIDE DEF crank
<1>5. Total(OldSupply) = Total(Unmigrated) + Total(crank)
  BY <1>1, <1>2, OldSumsType, TotalSum
<1>6. Total(Assets) = Total(InBuckets) + Total(crank)
  BY <1>1, <1>3, WorthType, TotalSum
<1>7. Total(OnTheWay) = Total(Fetched) + Total(InOldProgram)
  <2>1. /\ Fetched \in [Nfts -> Nat] /\ InOldProgram \in [Nfts -> Nat]
        /\ OnTheWay \in [Nfts -> Nat] /\ IsFiniteSet(Nfts)
    BY <1>1, WorthType, OldSumsType
  <2> QED
    BY <2>1, <1>4, TotalSum
<1>8. /\ Total(crank) \in Nat /\ Total(Unmigrated) \in Nat /\ Total(InBuckets) \in Nat
      /\ Total(OnTheWay) \in Nat
  BY <1>1, TotalType
<1>9. /\ Total(Liabilities) <= Total(Assets) + Total(Fetched)
      /\ Total(OldSupply) = Total(InOldProgram)
  BY DEF MigrationSolvency, OldBacked
<1>10. /\ Total(Liabilities) \in Nat /\ Total(Assets) \in Nat /\ Total(Fetched) \in Nat
       /\ Total(OldSupply) \in Nat /\ Total(InOldProgram) \in Nat
  BY WorthType, OldSumsType
<1>11. Total(Liabilities) + Total(Unmigrated) <= Total(InBuckets) + Total(OnTheWay)
  BY <1>5, <1>6, <1>7, <1>8, <1>9, <1>10
<1> QED
  BY <1>11 DEF AllDropletsBacked

\* In every reachable state of a migration all droplets and claims are covered
\* by NFTs, those of old holders that have not migrated included: the order in
\* which droplets and NFTs come takes nothing from anybody.
THEOREM AllDropletsBackedHolds == MigrationSpec => []AllDropletsBacked
<1>1. MigrationInit => OldBacked
  <2> SUFFICES ASSUME MigrationInit PROVE OldBacked
    OBVIOUS
  <2>1. MigrationTypeOK
    BY MigrationInitType
  <2>2. \A m \in Droplets : OldSupply[m] = 0
    BY TotalZero DEF MigrationInit, OldSupply
  <2>3. \A n \in Nfts : InOldProgram[n] = 0
    BY OldPartiesDistinct DEF MigrationInit, Init, InOldProgram
  <2>4. Total(OldSupply) = 0 /\ Total(InOldProgram) = 0
    BY <2>1, <2>2, <2>3, OldSumsType, TotalZero
  <2> QED
    BY <2>4 DEF OldBacked
<1>2. MigrationTypeOK /\ CustodyInv /\ OldBacked
          /\ [MigrationNext]_<<vars, migrationVars>> => OldBacked'
  BY OldBackedKept DEF CustodyInv
<1>3. MigrationTypeOK /\ MigrationSolvency /\ OldBacked => AllDropletsBacked
  BY BackedByNfts
<1> QED
  BY <1>1, <1>2, <1>3, MigrationTypeCorrect, MigrationCustodyInv, MigrationSolvencyHolds, PTL
     DEF MigrationSpec

-----------------------------------------------------------------------------
(* No NFT is counted twice: all the droplets there are, of both programs and *)
(* of all buckets, are worth at most the NFTs there are.  It bounds the      *)
(* supply under migration, which the counters of a bucket do not, and the    *)
(* token program refuses to mint beyond a u64, as the model does not.        *)

WorthTheNfts ==
    Total(Liabilities) + Total(Unmigrated) <= Cardinality(Nfts) * NFT_VALUE

\* An NFT backs droplets in one bucket, or is on the way, but never both.
LEMMA NftsCountedOnce ==
    ASSUME MigrationTypeOK, Custody, LoansInv, AllDropletsBacked
    PROVE  WorthTheNfts
<1> DEFINE share == [m \in Droplets |-> Backing(m)]
           brought == [n \in Nfts |-> IF OnTheWay[n] = 0 THEN NFT_VALUE ELSE 0]
           all == [n \in Nfts |-> NFT_VALUE]
<1>1. /\ IsFiniteSet(Droplets) /\ IsFiniteSet(Nfts) /\ NFT_VALUE \in Nat
      /\ NFT_VALUE # 0
  BY OldSumsType, NftValueType
<1>2. /\ \A m \in Droplets : Backing(m) \in [Nfts -> Nat]
      /\ \A m \in Droplets, n \in Nfts : /\ Backing(m)[n] <= NFT_VALUE
                                         /\ ~Recorded(m, n) => Backing(m)[n] = 0
  BY BackingOfNft DEF MigrationTypeOK
<1>3. /\ share \in [Droplets -> [Nfts -> Nat]]
      /\ \A m \in Droplets : share[m] = Backing(m)
  BY <1>2
<1>4. /\ OnTheWay \in [Nfts -> Nat] /\ brought \in [Nfts -> Nat] /\ all \in [Nfts -> Nat]
      /\ \A n \in Nfts : all[n] = NFT_VALUE /\ all[n] = brought[n] + OnTheWay[n]
  BY <1>1 DEF OnTheWay
<1>5. \A m \in Droplets, n \in Nfts : share[m][n] <= brought[n]
  <2>1. SUFFICES ASSUME NEW m \in Droplets, NEW n \in Nfts
                 PROVE  Backing(m)[n] <= brought[n]
    BY <1>3
  <2>2. CASE Recorded(m, n)
    <3>1. OnTheWay[n] = 0
      BY <2>2, OldPartiesDistinct DEF Custody, OnTheWay
    <3> QED
      BY <1>2, <3>1
  <2>3. CASE ~Recorded(m, n)
    BY <1>1, <1>2, <2>3
  <2> QED
    BY <2>2, <2>3
<1>6. \A m1, m2 \in Droplets, n \in Nfts : share[m1][n] # 0 /\ share[m2][n] # 0 => m1 = m2
  BY <1>2, <1>3 DEF Custody
<1>7. /\ InBuckets \in [Droplets -> Nat]
      /\ \A m \in Droplets : InBuckets[m] = Total(share[m])
  BY <1>3, BackedSumsType DEF InBuckets
<1> HIDE DEF share, brought, all
<1>8. Total(InBuckets) <= Total(brought)
  BY <1>1, <1>3, <1>4, <1>5, <1>6, <1>7, TotalOfTotals
<1>9. Total(all) = Total(brought) + Total(OnTheWay)
  BY <1>1, <1>4, TotalSum
<1>10. Total(all) <= Cardinality(Nfts) * NFT_VALUE
  <2>1. Nfts \in SUBSET Nfts /\ \A n \in Nfts : all[n] <= NFT_VALUE
    BY <1>1, <1>4
  <2> QED
    BY <1>1, <1>4, <2>1, TotalAtMost
<1>11. /\ Total(brought) \in Nat /\ Total(OnTheWay) \in Nat /\ Total(InBuckets) \in Nat
       /\ Total(Liabilities) \in Nat /\ Total(Unmigrated) \in Nat
       /\ Cardinality(Nfts) * NFT_VALUE \in Nat
  BY <1>1, <1>4, BackedSumsType, WorthType, TotalType, FS_CardinalityType
<1>12. Total(Liabilities) + Total(Unmigrated) <= Total(InBuckets) + Total(OnTheWay)
  BY DEF AllDropletsBacked
<1>13. Total(Liabilities) + Total(Unmigrated) <= Cardinality(Nfts) * NFT_VALUE
  <2> DEFINE bound == Cardinality(Nfts) * NFT_VALUE
  <2>1. bound \in Nat /\ Total(all) <= bound
    BY <1>10, <1>11
  <2> HIDE DEF bound
  <2>2. Total(Liabilities) + Total(Unmigrated) <= bound
    BY <1>8, <1>9, <1>11, <1>12, <2>1
  <2> QED
    BY <2>2 DEF bound
<1> QED
  BY <1>13 DEF WorthTheNfts

\* In every reachable state of a migration all droplets together, old and new,
\* are worth at most the NFTs that exist: minting ahead of the NFTs, taking old
\* droplets and lending never make one NFT stand for droplets twice.
THEOREM MigratedWorthTheNfts == MigrationSpec => []WorthTheNfts
<1>1. MigrationTypeOK /\ Custody /\ LoansInv /\ AllDropletsBacked => WorthTheNfts
  BY NftsCountedOnce
<1> QED
  BY <1>1, MigrationTypeCorrect, MigrationCustodyHolds, MigrationLoansSound,
     AllDropletsBackedHolds, PTL
=============================================================================
