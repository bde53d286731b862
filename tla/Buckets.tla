------------------------------ MODULE Buckets -------------------------------
(***************************************************************************)
(* The bucket instructions: create a bucket, deposit an NFT for droplets   *)
(* or for the right to swap, and redeem an NFT.                            *)
(***************************************************************************)
EXTENDS SolventState

CreateBucket(m, c) ==
    /\ m \notin created
    /\ created' = created \cup {m}
    /\ bucket' = [bucket EXCEPT ![m] = NewBucket(c)]
    /\ UNCHANGED <<deposit_state, locker_state, swap_state, balance, nft_owner, now>>

UpdateCollectionInfo(m, c) ==
    /\ m \in created
    /\ bucket' = [bucket EXCEPT ![m].collection_info = c]
    /\ UNCHANGED <<created, deposit_state, locker_state, swap_state, balance,
                   nft_owner, now>>

-----------------------------------------------------------------------------
\* Mutant: a deposit that opens a swap mints droplets as well.
MintedAlways(m, swap, dest) == MintTo(balance[m], dest, NFT_VALUE)

\* A deposit either mints droplets or, with swap, opens a swap.
MintedByDeposit(m, swap, dest) ==
    IF swap THEN balance[m] ELSE MintTo(balance[m], dest, NFT_VALUE)

\* u deposits n, the droplets going to dest.  A pending swap stops the
\* deposit only if it asks for a swap too; otherwise the flag is overwritten.
DepositNft(m, n, u, swap, dest) ==
    /\ m \in created
    /\ ~(swap /\ swap_state[m][u])
    /\ n \notin deposit_state[m]
    /\ NftAccepted(m, n)
    /\ nft_owner[n] = u
    /\ bucket[m].num_nfts_in_bucket + 1 <= U16_MAX
    /\ deposit_state' = [deposit_state EXCEPT ![m] = @ \cup {n}]
    /\ swap_state' = [swap_state EXCEPT ![m][u] = swap]
    /\ nft_owner' = [nft_owner EXCEPT ![n] = SOLVENT_AUTHORITY]
    /\ balance' = [balance EXCEPT ![m] = MintedByDeposit(m, swap, dest)]
    /\ bucket' = [bucket EXCEPT ![m].num_nfts_in_bucket = @ + 1]
    /\ UNCHANGED <<created, locker_state, now>>

-----------------------------------------------------------------------------
BurnedByRedemption(m, u, swap) ==
    IF swap THEN balance[m] ELSE Burn(balance[m], u, NFT_VALUE)

FeePaidToDistributor(m, u, swap, distributor) ==
    Transfer(BurnedByRedemption(m, u, swap), u, distributor, DistributorFee(swap))

FeesPaid(m, u, swap, distributor) ==
    Transfer(FeePaidToDistributor(m, u, swap, distributor),
             u, SOLVENT_CORE_TREASURY, TreasuryFee(swap))

\* Mutant: only the amount burned is checked, not the fees.
BurnAffordable(m, u, swap, distributor) ==
    swap \/ CanPay(balance[m], u, NFT_VALUE)

\* Each of the three calls to the token program finds the amount it moves.
RedemptionAffordable(m, u, swap, distributor) ==
    /\ swap \/ CanPay(balance[m], u, NFT_VALUE)
    /\ CanPay(BurnedByRedemption(m, u, swap), u, DistributorFee(swap))
    /\ CanPay(FeePaidToDistributor(m, u, swap, distributor), u, TreasuryFee(swap))

\* Mutant: a swap leaves the flag set, to be used again.
SwapNotSpent(m, u, swap) == swap_state

\* A swap spends the flag; a redemption leaves it as it is.
SwapSpent(m, u, swap) ==
    IF swap THEN [swap_state EXCEPT ![m][u] = FALSE] ELSE swap_state

\* Mutant: the swap state is not kept per bucket.
SwapAllowedAnywhere(m, u) == \E other \in Droplets : swap_state[other][u]

SwapAllowed(m, u) == swap_state[m][u]

\* u takes n out of the bucket, into the account of to.
RedeemNft(m, n, u, swap, distributor, to) ==
    /\ m \in created
    /\ n \in deposit_state[m]
    /\ swap => SwapAllowed(m, u)
    /\ RedemptionAffordable(m, u, swap, distributor)
    /\ nft_owner[n] = SOLVENT_AUTHORITY
    /\ bucket[m].num_nfts_in_bucket >= 1
    /\ deposit_state' = [deposit_state EXCEPT ![m] = @ \ {n}]
    /\ swap_state' = SwapSpent(m, u, swap)
    /\ balance' = [balance EXCEPT ![m] = FeesPaid(m, u, swap, distributor)]
    /\ nft_owner' = [nft_owner EXCEPT ![n] = to]
    /\ bucket' = [bucket EXCEPT ![m].num_nfts_in_bucket = @ - 1]
    /\ UNCHANGED <<created, locker_state, now>>
=============================================================================
