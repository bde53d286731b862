------------------------------ MODULE Solvent -------------------------------
(***************************************************************************)
(* The buckets and lockers of the program together, over one set of NFTs   *)
(* and one clock, with the token transfers that wallets make on their own. *)
(***************************************************************************)
EXTENDS Buckets, Lockers

\* Bounds on the arguments of the instructions.
CONSTANTS
    Recipients,       \* owners of the token accounts passed as destinations
    LockDurations,    \* durations asked of lock_nft
    MaxDurations,     \* values of max_locker_duration
    Scalers,          \* values of interest_scaler
    TransferAmounts   \* amounts that wallets transfer or burn on their own

ASSUME BoundsAssumption ==
    /\ Recipients \subseteq Holders
    /\ LockDurations \subseteq Nat
    /\ MaxDurations \subseteq Nat
    /\ Scalers \subseteq Nat
    /\ TransferAmounts \subseteq Nat

-----------------------------------------------------------------------------
(* Steps that are not instructions of the program *)

Tick ==
    /\ now < MAX_TIME
    /\ now' = now + 1
    /\ UNCHANGED <<created, bucket, deposit_state, locker_state, swap_state,
                   balance, nft_owner>>

\* A wallet sends droplets to another.
SplTransfer(m, from, to, amount) ==
    /\ m \in created
    /\ CanPay(balance[m], from, amount)
    /\ balance' = [balance EXCEPT ![m] = Transfer(@, from, to, amount)]
    /\ UNCHANGED <<created, bucket, deposit_state, locker_state, swap_state,
                   nft_owner, now>>

\* A wallet burns droplets of its own.
SplBurn(m, from, amount) ==
    /\ m \in created
    /\ CanPay(balance[m], from, amount)
    /\ balance' = [balance EXCEPT ![m] = Burn(@, from, amount)]
    /\ UNCHANGED <<created, bucket, deposit_state, locker_state, swap_state,
                   nft_owner, now>>

\* A wallet sends an NFT to another, or straight to the program's account.
NftTransfer(n, to) ==
    /\ nft_owner[n] \in Users
    /\ nft_owner' = [nft_owner EXCEPT ![n] = to]
    /\ UNCHANGED <<created, bucket, deposit_state, locker_state, swap_state,
                   balance, now>>

-----------------------------------------------------------------------------
BucketStep(m) ==
    \/ \E c \in Collections : CreateBucket(m, c) \/ UpdateCollectionInfo(m, c)
    \/ \E n \in Nfts, u \in Users, swap \in BOOLEAN, dest \in Recipients :
           DepositNft(m, n, u, swap, dest)
    \/ \E n \in Nfts, u \in Users, swap \in BOOLEAN, distributor \in Recipients,
          to \in Users :
           RedeemNft(m, n, u, swap, distributor, to)

LockerStep(m) ==
    \/ \E flag \in BOOLEAN : SetLockingEnabled(m, flag)
    \/ \E supplied \in SUBSET {"scaler", "duration"}, s \in Scalers, d \in MaxDurations :
           UpdateLockingParams(m, supplied, s, d)
    \/ \E n \in Nfts, u \in Users, d \in LockDurations, dest \in Recipients :
           LockNft(m, n, u, d, dest)
    \/ \E n \in Nfts, u \in Users, to \in Users : UnlockNft(m, n, u, to)
    \/ \E n \in Nfts, dest \in Recipients : LiquidateLocker(m, n, dest)

WalletStep ==
    \/ \E m \in Droplets, from \in Holders, amount \in TransferAmounts :
           \/ \E to \in Holders : SplTransfer(m, from, to, amount)
           \/ SplBurn(m, from, amount)
    \/ \E n \in Nfts, to \in Users \cup {SOLVENT_AUTHORITY} : NftTransfer(n, to)

Next ==
    \/ Tick
    \/ WalletStep
    \/ \E m \in Droplets : BucketStep(m) \/ LockerStep(m)

Spec == Init /\ [][Next]_vars

\* The clock advances, and somebody calls liquidate_locker for a locker that
\* can be liquidated: anybody may, and is paid a share of the interest.
Fairness ==
    /\ WF_vars(Tick)
    /\ \A m \in Droplets, n \in Nfts :
           WF_vars(\E dest \in Recipients : LiquidateLocker(m, n, dest))

FairSpec == Spec /\ Fairness

-----------------------------------------------------------------------------
(* What must hold of the program *)

Recorded(m, n) == n \in deposit_state[m] \/ HasLocker(m, n)

\* An NFT has at most one record, as a deposit or as a locker, over all the
\* buckets, and the program's account holds every NFT that has one: no NFT is
\* promised to two parties and every promise can be honoured.
Custody ==
    /\ \A m \in Droplets, n \in Nfts :
           /\ Recorded(m, n) => nft_owner[n] = SOLVENT_AUTHORITY
           /\ ~(n \in deposit_state[m] /\ HasLocker(m, n))
    /\ \A m1, m2 \in Droplets, n \in Nfts :
           Recorded(m1, n) /\ Recorded(m2, n) => m1 = m2

LockedNfts(m) == {n \in Nfts : HasLocker(m, n)}

\* The counters that price the loans are the numbers of DepositState and
\* LockerState accounts of the bucket, and fit in a u16.
CountersMatch ==
    \A m \in Droplets :
        /\ bucket[m].num_nfts_in_bucket = Cardinality(deposit_state[m])
        /\ bucket[m].num_nfts_in_lockers = Cardinality(LockedNfts(m))
        /\ bucket[m].num_nfts_in_bucket <= U16_MAX
        /\ bucket[m].num_nfts_in_lockers <= U16_MAX

Supply(m) == Total(balance[m])

\* The droplets the pending swaps stand for.
Claims(m) == [u \in Users |-> IF swap_state[m][u] THEN NFT_VALUE ELSE 0]

\* The droplets the NFTs of the bucket stand for.
Backing(m) ==
    [n \in Nfts |-> IF n \in deposit_state[m] THEN NFT_VALUE
                    ELSE IF HasLocker(m, n) THEN locker_state[m][n].principal_amount
                    ELSE 0]

\* The protocol is solvent: droplets in circulation and pending swaps are
\* covered by the NFTs deposited and the debts of the lockers.
Solvency == \A m \in Droplets : Supply(m) + Total(Claims(m)) <= Total(Backing(m))

Expiry(locker) == locker.creation_timestamp + locker.duration

\* A depositor never owes more than the value of one NFT, nor, until the
\* locker expires, more interest than the maximum quoted by lock_nft.
RepaymentBounded ==
    \A m \in Droplets, n \in Nfts :
        HasLocker(m, n) =>
            LET locker == locker_state[m][n]
            IN  /\ locker.principal_amount + locker.max_interest_payable <= NFT_VALUE
                /\ now <= Expiry(locker) /\ locker.duration > 0
                       => InterestDue(locker) <= locker.max_interest_payable

\* No locker is stuck by its arithmetic: its expiry is a u64, no operation of
\* unlock_nft overflows until then (if the duration is not 0), and none of
\* liquidate_locker does after it.
Settleable ==
    \A m \in Droplets, n \in Nfts :
        HasLocker(m, n) =>
            LET locker == locker_state[m][n]
            IN  /\ Expiry(locker) <= U64_MAX
                /\ now <= Expiry(locker) /\ locker.duration > 0
                       => InterestDueDefined(locker)
                /\ LiquidationDefined(locker.principal_amount)

-----------------------------------------------------------------------------
\* The locker of n in bucket m is repaid: in time, the principal is burned
\* and a wallet gets the NFT.
Repaid(m, n) ==
    /\ now <= Expiry(locker_state[m][n])
    /\ Supply(m)' = Supply(m) - locker_state[m][n].principal_amount
    /\ nft_owner'[n] \in Users

\* The locker is liquidated: after expiry, the NFT becomes a deposit and its
\* unminted value is minted.
Liquidated(m, n) ==
    /\ now > Expiry(locker_state[m][n])
    /\ Supply(m)' = Supply(m) + NFT_VALUE - locker_state[m][n].principal_amount
    /\ n \in deposit_state'[m]

\* A locker never changes but by being closed, and is closed only by a
\* repayment up to its expiry or by a liquidation after it.
LockerSettledInOneWay ==
    [][\A m \in Droplets, n \in Nfts :
           HasLocker(m, n) /\ locker_state'[m][n] # locker_state[m][n] =>
               /\ locker_state'[m][n] = NoLocker
               /\ Repaid(m, n) \/ Liquidated(m, n)]_vars

\* A deposited NFT leaves the bucket only against its value: either NFT_VALUE
\* droplets are burned, or one pending swap of this bucket is spent and
\* nothing is burned.
RedemptionPaid ==
    [][\A m \in Droplets, n \in Nfts :
           n \in deposit_state[m] /\ n \notin deposit_state'[m] =>
               \/ /\ Supply(m)' = Supply(m) - NFT_VALUE
                  /\ swap_state' = swap_state
               \/ /\ Supply(m)' = Supply(m)
                  /\ \E u \in Users :
                         /\ swap_state[m][u]
                         /\ swap_state' = [swap_state EXCEPT ![m][u] = FALSE]]_vars

\* A locker that expires before the clock stops does not stay: liquidation may
\* be held up by locking being disabled, whatever happens meanwhile, or by the
\* counter of the deposits being at its limit, but once neither is so for good
\* the locker is closed.
LockersSettled ==
    \A m \in Droplets, n \in Nfts :
        <>[](bucket[m].is_locking_enabled /\ bucket[m].num_nfts_in_bucket < U16_MAX) =>
            (HasLocker(m, n) /\ Expiry(locker_state[m][n]) < MAX_TIME ~> ~HasLocker(m, n))

-----------------------------------------------------------------------------
(* What the documents say and the program does not do *)

\* "Prevent deposits when there's a pending swap" (deposit_nft.rs:16): the
\* wallet that holds the NFT it deposits has no swap pending in that bucket.
NoDepositWhileSwapPending ==
    [][\A m \in Droplets, n \in Nfts :
           n \notin deposit_state[m] /\ n \in deposit_state'[m]
               /\ nft_owner[n] \in Users => ~swap_state[m][nft_owner[n]]]_vars

\* "Within that duration, the users can pay back the debt and interest and can
\* claim their NFT back" (README.md:30): until its expiry, no locker has an
\* interest that unlock_nft fails to compute.
RepayableWithinDuration ==
    \A m \in Droplets, n \in Nfts :
        HasLocker(m, n) /\ now <= Expiry(locker_state[m][n])
            => InterestDueDefined(locker_state[m][n])

\* interest_scaler: "Range: (0,100]" (README.md:76), wherever it is used.
ScalerInRange ==
    \A m \in Droplets :
        bucket[m].is_locking_enabled
            => bucket[m].interest_scaler \in 1..MAX_INTEREST_SCALER
=============================================================================
