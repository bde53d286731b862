--------------------------- MODULE SolventVaults ----------------------------
(***************************************************************************)
(* The program as vaults: the records of an NFT are what the vault has it  *)
(* as, and droplets in circulation and pending swaps are what it issued.   *)
(***************************************************************************)
EXTENDS Solvent

Status(m, n) ==
    IF n \in deposit_state[m] THEN [kind |-> "Deposit", worth |-> NFT_VALUE]
    ELSE IF HasLocker(m, n)
         THEN [kind |-> "Loan", worth |-> locker_state[m][n].principal_amount]
         ELSE [kind |-> "Nothing", worth |-> 0]

holding == [m \in Droplets |-> [n \in Nfts |-> Status(m, n)]]

issued == [m \in Droplets |-> Supply(m) + Total(Claims(m))]

V == INSTANCE Vaults

\* The program keeps the promise: whatever instruction runs, and whatever
\* wallets do in between, droplets and claims change by exactly what the one
\* NFT concerned gains or loses in worth, no NFT backs two buckets, a loan is
\* for no more than a deposit would bring, and fees, interest and rewards move
\* droplets without making any.
VaultsImplemented == V!Spec
=============================================================================
