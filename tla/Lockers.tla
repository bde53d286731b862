------------------------------ MODULE Lockers -------------------------------
(***************************************************************************)
(* The locker instructions: borrow droplets against an NFT for a limited   *)
(* time, pay the loan back with interest, or liquidate it once expired;    *)
(* and the administrator's locking parameters.                             *)
(***************************************************************************)
EXTENDS SolventState

SetLockingEnabled(m, flag) ==
    /\ m \in created
    /\ bucket' = [bucket EXCEPT ![m].is_locking_enabled = flag]
    /\ UNCHANGED <<created, deposit_state, locker_state, swap_state, balance,
                   nft_owner, now>>

\* Mutant: any u8 is accepted.
ScalerAny(interest_scaler) == interest_scaler >= 0

ScalerValid(interest_scaler) == interest_scaler <= MAX_INTEREST_SCALER

\* UpdateLockingParams takes two optional arguments; the four ways to supply
\* them are the supplied subset of {"scaler", "duration"}.
UpdateLockingParams(m, supplied, interest_scaler, max_locker_duration) ==
    /\ m \in created
    /\ "scaler" \in supplied => ScalerValid(interest_scaler)
    /\ bucket' = [bucket EXCEPT
           ![m].interest_scaler =
               IF "scaler" \in supplied THEN interest_scaler ELSE @,
           ![m].max_locker_duration =
               IF "duration" \in supplied THEN max_locker_duration ELSE @]
    /\ UNCHANGED <<created, deposit_state, locker_state, swap_state, balance,
                   nft_owner, now>>

-----------------------------------------------------------------------------
\* The loan terms are quoted after num_nfts_in_lockers has been incremented.
LoanArgs(m, duration) ==
    [max_locker_duration |-> bucket[m].max_locker_duration,
     num_nfts_in_bucket  |-> bucket[m].num_nfts_in_bucket,
     num_nfts_in_lockers |-> bucket[m].num_nfts_in_lockers + 1,
     interest_scaler     |-> bucket[m].interest_scaler,
     locker_duration     |-> duration]

NewLocker(m, u, duration) ==
    LET loan == CalculateLoan(LoanArgs(m, duration))
    IN  [depositor            |-> u,
         creation_timestamp   |-> now,
         duration             |-> duration,
         principal_amount     |-> loan.principal_amount,
         max_interest_payable |-> loan.max_interest_payable]

DurationAllowed(m, duration) == duration <= bucket[m].max_locker_duration

\* u locks n for duration seconds, the principal going to dest.
LockNft(m, n, u, duration, dest) ==
    /\ m \in created
    /\ bucket[m].is_locking_enabled
    /\ ~HasLocker(m, n)
    /\ NftAccepted(m, n)
    /\ bucket[m].num_nfts_in_bucket > 0
    /\ DurationAllowed(m, duration)
    /\ bucket[m].num_nfts_in_lockers + 1 <= U16_MAX
    /\ LoanDefined(LoanArgs(m, duration))
    /\ nft_owner[n] = u
    /\ nft_owner' = [nft_owner EXCEPT ![n] = SOLVENT_AUTHORITY]
    /\ locker_state' = [locker_state EXCEPT ![m][n] = NewLocker(m, u, duration)]
    /\ balance' = [balance EXCEPT
           ![m] = MintTo(@, dest, NewLocker(m, u, duration).principal_amount)]
    /\ bucket' = [bucket EXCEPT ![m].num_nfts_in_lockers = @ + 1]
    /\ UNCHANGED <<created, deposit_state, swap_state, now>>

-----------------------------------------------------------------------------
\* The interest due now, proportional to the time the loan has run.
InterestDue(locker) ==
    Interest(locker.max_interest_payable, locker.duration,
             now - locker.creation_timestamp)

InterestDueDefined(locker) ==
    InterestDefined(locker.max_interest_payable, locker.duration,
                    now - locker.creation_timestamp)

\* The depositor u repays the loan and n goes to the account of to.  Locking
\* need not be enabled.
UnlockNft(m, n, u, to) ==
    LET locker == locker_state[m][n]
    IN  /\ m \in created
        /\ HasLocker(m, n)
        /\ locker.depositor = u
        /\ Active(locker)
        /\ InterestDueDefined(locker)
        /\ CanPay(balance[m], u, locker.principal_amount + InterestDue(locker))
        /\ nft_owner[n] = SOLVENT_AUTHORITY
        /\ bucket[m].num_nfts_in_lockers >= 1
        /\ balance' = [balance EXCEPT
               ![m] = Transfer(Burn(@, u, locker.principal_amount),
                               u, SOLVENT_LOCKERS_TREASURY, InterestDue(locker))]
        /\ nft_owner' = [nft_owner EXCEPT ![n] = to]
        /\ CloseLocker(m, n)
        /\ bucket' = [bucket EXCEPT ![m].num_nfts_in_lockers = @ - 1]
        /\ UNCHANGED <<created, deposit_state, swap_state, now>>

-----------------------------------------------------------------------------
\* Mutant: the NFT leaves the lockers but is not counted in the bucket.
LiquidatedUncounted(b) == [b EXCEPT !.num_nfts_in_lockers = @ - 1]

LiquidatedCounters(b) ==
    [b EXCEPT !.num_nfts_in_lockers = @ - 1, !.num_nfts_in_bucket = @ + 1]

\* Anyone, here u with its droplet account dest, turns an expired locker into
\* a deposit.  The NFT does not move.
LiquidateLocker(m, n, dest) ==
    LET locker == locker_state[m][n]
    IN  /\ m \in created
        /\ bucket[m].is_locking_enabled
        /\ HasLocker(m, n)
        /\ n \notin deposit_state[m]
        /\ Expired(locker)
        /\ LiquidationDefined(locker.principal_amount)
        /\ bucket[m].num_nfts_in_lockers >= 1
        /\ bucket[m].num_nfts_in_bucket + 1 <= U16_MAX
        /\ balance' = [balance EXCEPT
               ![m] = MintTo(MintTo(@, SOLVENT_LOCKERS_TREASURY,
                                    ToStoreInVault(locker.principal_amount)),
                             dest, LiquidationReward(locker.principal_amount))]
        /\ deposit_state' = [deposit_state EXCEPT ![m] = @ \cup {n}]
        /\ CloseLocker(m, n)
        /\ bucket' = [bucket EXCEPT ![m] = LiquidatedCounters(@)]
        /\ UNCHANGED <<created, swap_state, nft_owner, now>>
=============================================================================
