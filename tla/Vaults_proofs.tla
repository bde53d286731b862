---------------------------- MODULE Vaults_proofs ---------------------------
(***************************************************************************)
(* The program implements Vaults, for every value of the constants: every  *)
(* instruction exchanges the status of one NFT for its worth in droplets   *)
(* and claims, or changes nothing a holder of droplets could tell.         *)
(***************************************************************************)
EXTENDS SolventVaults, Solvency_proofs

\* The invariants of Solvent that the steps are mapped under.
VaultInv == AccountsTypeOK /\ RecordsApart /\ LoansInv

\* What a vault has issued is a natural number.
LEMMA IssuedType ==
    ASSUME AccountsTypeOK, NEW m \in Droplets
    PROVE  issued[m] \in Nat /\ issued[m] = Supply(m) + Total(Claims(m))
BY TotalsType DEF issued

\* An NFT without a record is free.
LEMMA NoRecordFree ==
    ASSUME NEW n \in Nfts, \A b \in Droplets : ~Recorded(b, n)
    PROVE  V!Free(n)
BY DEF V!Free, V!Nothing, holding, Status, Recorded, HasLocker

\* Two tables that differ in one place.
LEMMA UpdateOfOne ==
    ASSUME NEW D, NEW N, NEW f, NEW g, NEW m \in D, NEW n \in N,
           f = [b \in D |-> [k \in N |-> f[b][k]]],
           g = [b \in D |-> [k \in N |-> g[b][k]]],
           \A b \in D, k \in N : b # m \/ k # n => g[b][k] = f[b][k]
    PROVE  g = [f EXCEPT ![m][n] = g[m][n]]
<1> DEFINE h == [f EXCEPT ![m][n] = g[m][n]]
<1>1. DOMAIN h = D /\ DOMAIN g = D /\ h = [b \in D |-> h[b]]
  OBVIOUS
<1>2. \A b \in D : h[b] = g[b]
  OBVIOUS
<1> QED
  BY <1>1, <1>2

\* A step that changes the record of one NFT changes its status alone.
LEMMA HoldingUpdate ==
    ASSUME NEW m \in Droplets, NEW n \in Nfts, NEW new,
           \A b \in Droplets, k \in Nfts : b # m \/ k # n =>
               /\ k \in deposit_state'[b] <=> k \in deposit_state[b]
               /\ locker_state'[b][k] = locker_state[b][k],
           new = Status(m, n)'
    PROVE  holding' = [holding EXCEPT ![m][n] = new]
<1>1. \A b \in Droplets, k \in Nfts : b # m \/ k # n => Status(b, k)' = Status(b, k)
  BY DEF Status, HasLocker
<1>2. /\ holding = [b \in Droplets |-> [k \in Nfts |-> holding[b][k]]]
      /\ holding' = [b \in Droplets |-> [k \in Nfts |-> holding'[b][k]]]
  BY DEF holding
<1>3. \A b \in Droplets, k \in Nfts : b # m \/ k # n => holding'[b][k] = holding[b][k]
  BY <1>1 DEF holding
<1>4. new = holding'[m][n]
  BY DEF holding
<1> QED
  BY <1>2, <1>3, <1>4, UpdateOfOne

\* A step that changes the droplets and claims of one bucket changes what has
\* been issued there alone.
LEMMA IssuedUpdate ==
    ASSUME AccountsTypeOK, NEW m \in Droplets, NEW delta \in Int,
           \A b \in Droplets \ {m} : balance'[b] = balance[b] /\ Claims(b)' = Claims(b),
           Supply(m)' + Total(Claims(m)') = Supply(m) + Total(Claims(m)) + delta
    PROVE  issued' = [issued EXCEPT ![m] = issued[m] + delta]
<1>1. \A b \in Droplets \ {m} : Supply(b)' = Supply(b)
  BY DEF Supply
<1> QED
  BY <1>1 DEF issued

\* A step that changes a status and what has been issued by the difference is
\* an exchange.
LEMMA ExchangeOfOne ==
    ASSUME AccountsTypeOK, NEW m \in Droplets, NEW n \in Nfts, NEW new, NEW delta \in Int,
           holding' = [holding EXCEPT ![m][n] = new],
           issued' = [issued EXCEPT ![m] = issued[m] + delta],
           new.worth \in Int, holding[m][n].worth \in Int,
           delta = new.worth - holding[m][n].worth
    PROVE  V!Exchange(m, n, new)
<1>1. issued[m] + delta = issued[m] + new.worth - holding[m][n].worth
  BY IssuedType
<1> QED
  BY <1>1 DEF V!Exchange

\* A deposit, which may give up a pending swap.
LEMMA DepositNftIsDeposit ==
    ASSUME AccountsTypeOK, RecordsApart, NEW m \in Droplets, NEW n \in Nfts,
           NEW u \in Users, NEW swap \in BOOLEAN, NEW dest \in Recipients,
           DepositNft(m, n, u, swap, dest)
    PROVE  V!Deposit(m, n) \/ V!DepositForfeiting(m, n)
<1>1. \A b \in Droplets : ~Recorded(b, n)
  BY WalletHasNoRecord DEF DepositNft
<1>2. V!Free(n) /\ holding[m][n] = V!Nothing
  BY <1>1, NoRecordFree DEF V!Free
<1>3. holding' = [holding EXCEPT ![m][n] = V!Deposited]
  <2>1. /\ \A b \in Droplets, k \in Nfts : b # m \/ k # n =>
               /\ k \in deposit_state'[b] <=> k \in deposit_state[b]
               /\ locker_state'[b][k] = locker_state[b][k]
        /\ n \in deposit_state'[m]
    BY DEF DepositNft, AccountsTypeOK
  <2>2. Status(m, n)' = V!Deposited
    BY <2>1 DEF Status, V!Deposited
  <2> QED
    BY <2>1, <2>2, HoldingUpdate
<1>4. /\ Total(Claims(m)') =
             Total(Claims(m)) - Claims(m)[u] + (IF swap THEN NFT_VALUE ELSE 0)
      /\ \A b \in Droplets \ {m} : Claims(b)' = Claims(b)
  BY ClaimsUpdate DEF DepositNft
<1>5. Claims(m)[u] \in {0, NFT_VALUE} /\ (swap => Claims(m)[u] = 0)
  BY DEF Claims, DepositNft
<1>6. Supply(m)' = Supply(m) + (IF swap THEN 0 ELSE NFT_VALUE)
  <2>1. balance'[m] = MintedByDeposit(m, swap, dest)
    BY DEF DepositNft, AccountsTypeOK
  <2>2. balance[m] \in [Holders -> Nat] /\ Total(balance[m]) \in Nat
    BY TotalsType DEF AccountsTypeOK, Supply
  <2> QED
    BY <2>1, <2>2, HoldersFinite, MintToLedger, NftValueType DEF MintedByDeposit, Supply
<1>7. \A b \in Droplets \ {m} : balance'[b] = balance[b]
  BY DEF DepositNft, AccountsTypeOK
<1> DEFINE delta == NFT_VALUE - Claims(m)[u]
<1>8. delta \in Int /\ Supply(m)' + Total(Claims(m)') = Supply(m) + Total(Claims(m)) + delta
  BY <1>4, <1>5, <1>6, TotalsType, NftValueType
<1>9. delta \in {0, NFT_VALUE}
  BY <1>5, NftValueType
<1> HIDE DEF delta
<1>10. issued' = [issued EXCEPT ![m] = issued[m] + delta]
  BY <1>4, <1>7, <1>8, IssuedUpdate
<1>11. CASE delta = 0
  <2>1. issued[m] + delta = issued[m]
    BY <1>11, IssuedType
  <2>2. issued = [b \in Droplets |-> issued[b]]
    BY DEF issued
  <2>3. issued' = issued
    BY <1>10, <2>1, <2>2
  <2> QED
    BY <1>2, <1>3, <2>3 DEF V!DepositForfeiting
<1>12. CASE delta = NFT_VALUE
  <2>1. /\ delta = V!Deposited.worth - holding[m][n].worth
        /\ V!Deposited.worth \in Int /\ holding[m][n].worth \in Int
    BY <1>2, <1>12, NftValueType DEF V!Nothing, V!Deposited
  <2> QED
    BY <1>2, <1>3, <1>8, <1>10, <2>1, ExchangeOfOne DEF V!Deposit
<1> QED
  BY <1>9, <1>11, <1>12

\* A redemption, for droplets or for a swap.
LEMMA RedeemNftIsRedeem ==
    ASSUME AccountsTypeOK, RecordsApart, NEW m \in Droplets, NEW n \in Nfts,
           NEW u \in Users, NEW swap \in BOOLEAN, NEW distributor \in Recipients,
           NEW to \in Users, RedeemNft(m, n, u, swap, distributor, to)
    PROVE  V!Redeem(m, n)
<1>1. n \in deposit_state[m] /\ ~HasLocker(m, n)
  BY DEF RedeemNft, RecordsApart
<1>2. holding[m][n] = V!Deposited
  BY <1>1 DEF holding, Status, HasLocker, V!Deposited
<1>3. holding' = [holding EXCEPT ![m][n] = V!Nothing]
  <2>1. /\ \A b \in Droplets, k \in Nfts : b # m \/ k # n =>
               /\ k \in deposit_state'[b] <=> k \in deposit_state[b]
               /\ locker_state'[b][k] = locker_state[b][k]
        /\ n \notin deposit_state'[m] /\ ~HasLocker(m, n)'
    BY <1>1 DEF RedeemNft, AccountsTypeOK, HasLocker
  <2>2. Status(m, n)' = V!Nothing
    BY <2>1 DEF Status, V!Nothing
  <2> QED
    BY <2>1, <2>2, HoldingUpdate
<1>4. /\ Total(Claims(m)') = Total(Claims(m)) - (IF swap THEN NFT_VALUE ELSE 0)
      /\ \A b \in Droplets \ {m} : Claims(b)' = Claims(b)
  BY ClaimsSpent
<1>5. Supply(m)' = Supply(m) - (IF swap THEN 0 ELSE NFT_VALUE)
  <2>1. balance'[m] = FeesPaid(m, u, swap, distributor)
    BY DEF RedeemNft, AccountsTypeOK
  <2> QED
    BY <2>1, FeesPaidLedger, TotalsType, NftValueType DEF RedeemNft, Supply
<1>6. \A b \in Droplets \ {m} : balance'[b] = balance[b]
  BY DEF RedeemNft, AccountsTypeOK
<1>7. Supply(m)' + Total(Claims(m)') = Supply(m) + Total(Claims(m)) + (0 - NFT_VALUE)
  BY <1>4, <1>5, TotalsType, NftValueType
<1>8. 0 - NFT_VALUE \in Int
  BY NftValueType
<1>9. issued' = [issued EXCEPT ![m] = issued[m] + (0 - NFT_VALUE)]
  BY <1>4, <1>6, <1>7, <1>8, IssuedUpdate
<1>10. /\ 0 - NFT_VALUE = V!Nothing.worth - holding[m][n].worth
       /\ V!Nothing.worth \in Int /\ holding[m][n].worth \in Int
  BY <1>2, NftValueType DEF V!Nothing, V!Deposited
<1> QED
  BY <1>2, <1>3, <1>8, <1>9, <1>10, ExchangeOfOne DEF V!Redeem

\* A loan, of no more than the value of an NFT.
LEMMA LockNftIsBorrow ==
    ASSUME AccountsTypeOK, RecordsApart, LoansInv, NEW m \in Droplets, NEW n \in Nfts,
           NEW u \in Users, NEW d \in LockDurations, NEW dest \in Recipients,
           LockNft(m, n, u, d, dest)
    PROVE  V!Borrow(m, n)
<1> DEFINE locker == NewLocker(m, u, d)
           p == locker.principal_amount
<1>1. \A b \in Droplets : ~Recorded(b, n)
  BY WalletHasNoRecord DEF LockNft
<1>2. V!Free(n) /\ holding[m][n] = V!Nothing
  BY <1>1, NoRecordFree DEF V!Free
<1>3. locker \in Locker /\ locker # NoLocker
  BY NewLockerType, BoundsAssumption, StateAssumption
     DEF LockNft, BoundsAssumption, StateAssumption
<1>4. SoundLoan(locker)
  BY NewLoanSound, BoundsAssumption DEF LockNft, BoundsAssumption
<1>5. locker_state' = [locker_state EXCEPT ![m][n] = locker]
  BY DEF LockNft
<1>6. balance' = [balance EXCEPT ![m] = MintTo(balance[m], dest, p)]
  BY DEF LockNft
<1> HIDE DEF locker
<1>7. p \in 0..NFT_VALUE
  BY <1>3, <1>4, NftValueType DEF SoundLoan, Locker
<1>8. holding' = [holding EXCEPT ![m][n] = V!Lent(p)]
  <2>1. /\ \A b \in Droplets, k \in Nfts : b # m \/ k # n =>
               /\ k \in deposit_state'[b] <=> k \in deposit_state[b]
               /\ locker_state'[b][k] = locker_state[b][k]
        /\ n \notin deposit_state'[m] /\ locker_state'[m][n] = locker
    BY <1>1, <1>5 DEF LockNft, AccountsTypeOK, Recorded
  <2>2. Status(m, n)' = V!Lent(p)
    BY <1>3, <2>1 DEF Status, HasLocker, V!Lent
  <2> QED
    BY <2>1, <2>2, HoldingUpdate
<1> HIDE DEF p
<1>9. \A b \in Droplets : Claims(b)' = Claims(b)
  BY DEF LockNft, Claims
<1>10. Supply(m)' = Supply(m) + p
  <2>1. p \in Nat
    BY <1>7, NftValueType
  <2>2. balance'[m] = MintTo(balance[m], dest, p)
    BY <1>6 DEF AccountsTypeOK
  <2>3. balance[m] \in [Holders -> Nat]
    BY DEF AccountsTypeOK
  <2>4. dest \in Holders /\ IsFiniteSet(Holders)
    BY HoldersFinite
  <2> QED
    BY <2>1, <2>2, <2>3, <2>4, MintToLedger DEF Supply
<1>11. Supply(m)' + Total(Claims(m)') = Supply(m) + Total(Claims(m)) + p
  BY <1>7, <1>9, <1>10, TotalsType
<1>12. issued' = [issued EXCEPT ![m] = issued[m] + p]
  BY <1>6, <1>7, <1>9, <1>11, IssuedUpdate
<1>13. /\ p = V!Lent(p).worth - holding[m][n].worth
       /\ V!Lent(p).worth \in Int /\ holding[m][n].worth \in Int
  BY <1>2, <1>7 DEF V!Nothing, V!Lent
<1>14. V!Exchange(m, n, V!Lent(p))
  <2> DEFINE new == V!Lent(p)
  <2>1. /\ p \in Int /\ holding' = [holding EXCEPT ![m][n] = new]
        /\ new.worth \in Int /\ holding[m][n].worth \in Int
        /\ p = new.worth - holding[m][n].worth
    BY <1>7, <1>8, <1>13, NftValueType
  <2> HIDE DEF new
  <2>2. V!Exchange(m, n, new)
    BY <1>12, <2>1, ExchangeOfOne
  <2> QED
    BY <2>2 DEF new
<1>15. holding'[m][n] = V!Lent(p)
  <2>1. \A b \in Droplets : holding[b] = [k \in Nfts |-> Status(b, k)]
    BY DEF holding
  <2>2. DOMAIN holding = Droplets /\ n \in DOMAIN holding[m]
    BY <2>1 DEF holding
  <2> QED
    BY <1>8, <2>2
<1>16. V!Lent(p) \in V!Loans
  BY <1>7 DEF V!Loans
<1> QED
  BY <1>2, <1>14, <1>15, <1>16 DEF V!Borrow

\* A repayment.
LEMMA UnlockNftIsRepay ==
    ASSUME AccountsTypeOK, RecordsApart, NEW m \in Droplets, NEW n \in Nfts, NEW u \in Users,
           NEW to \in Users, UnlockNft(m, n, u, to)
    PROVE  V!Repay(m, n)
<1> DEFINE p == locker_state[m][n].principal_amount
<1>1. n \notin deposit_state[m] /\ HasLocker(m, n)
  BY DEF UnlockNft, RecordsApart
<1>2. holding[m][n] = V!Lent(p)
  BY <1>1 DEF holding, Status, HasLocker, V!Lent
<1>3. p \in Nat
  BY <1>1 DEF AccountsTypeOK, HasLocker, Locker
<1>4. holding' = [holding EXCEPT ![m][n] = V!Nothing]
  <2>1. /\ \A b \in Droplets, k \in Nfts : b # m \/ k # n =>
               /\ k \in deposit_state'[b] <=> k \in deposit_state[b]
               /\ locker_state'[b][k] = locker_state[b][k]
        /\ n \notin deposit_state'[m] /\ ~HasLocker(m, n)'
    BY <1>1 DEF UnlockNft, CloseLocker, AccountsTypeOK, HasLocker
  <2>2. Status(m, n)' = V!Nothing
    BY <2>1 DEF Status, V!Nothing
  <2> QED
    BY <2>1, <2>2, HoldingUpdate
<1>5. \A b \in Droplets : Claims(b)' = Claims(b)
  BY DEF UnlockNft, Claims
<1>6. Supply(m)' = Supply(m) - p /\ \A b \in Droplets \ {m} : balance'[b] = balance[b]
  BY RepaymentLedger DEF AccountsTypeOK
<1> HIDE DEF p
<1>7. /\ 0 - p \in Int
      /\ Supply(m)' + Total(Claims(m)') = Supply(m) + Total(Claims(m)) + (0 - p)
  BY <1>3, <1>5, <1>6, TotalsType
<1>8. issued' = [issued EXCEPT ![m] = issued[m] + (0 - p)]
  BY <1>5, <1>6, <1>7, IssuedUpdate
<1>9. /\ 0 - p = V!Nothing.worth - holding[m][n].worth
      /\ V!Nothing.worth \in Int /\ holding[m][n].worth \in Int
      /\ holding[m][n].kind = "Loan"
  BY <1>2, <1>3 DEF V!Nothing, V!Lent
<1> QED
  BY <1>4, <1>7, <1>8, <1>9, ExchangeOfOne DEF V!Repay

\* A liquidation.
LEMMA LiquidateLockerIsLiquidate ==
    ASSUME AccountsTypeOK, RecordsApart, NEW m \in Droplets, NEW n \in Nfts, NEW dest \in Recipients,
           LiquidateLocker(m, n, dest)
    PROVE  V!Liquidate(m, n)
<1> DEFINE p == locker_state[m][n].principal_amount
<1>1. n \notin deposit_state[m] /\ HasLocker(m, n)
  BY DEF LiquidateLocker
<1>2. holding[m][n] = V!Lent(p)
  BY <1>1 DEF holding, Status, HasLocker, V!Lent
<1>3. p \in Nat
  BY <1>1 DEF AccountsTypeOK, HasLocker, Locker
<1>4. holding' = [holding EXCEPT ![m][n] = V!Deposited]
  <2>1. /\ \A b \in Droplets, k \in Nfts : b # m \/ k # n =>
               /\ k \in deposit_state'[b] <=> k \in deposit_state[b]
               /\ locker_state'[b][k] = locker_state[b][k]
        /\ n \in deposit_state'[m]
    BY DEF LiquidateLocker, CloseLocker, AccountsTypeOK
  <2>2. Status(m, n)' = V!Deposited
    BY <2>1 DEF Status, V!Deposited
  <2> QED
    BY <2>1, <2>2, HoldingUpdate
<1>5. \A b \in Droplets : Claims(b)' = Claims(b)
  BY DEF LiquidateLocker, Claims
<1>6. /\ Supply(m)' = Supply(m) + NFT_VALUE - p
      /\ \A b \in Droplets \ {m} : balance'[b] = balance[b]
  BY LiquidationLedger DEF AccountsTypeOK
<1> HIDE DEF p
<1>7. /\ NFT_VALUE - p \in Int
      /\ Supply(m)' + Total(Claims(m)') = Supply(m) + Total(Claims(m)) + (NFT_VALUE - p)
  BY <1>3, <1>5, <1>6, TotalsType, NftValueType
<1>8. issued' = [issued EXCEPT ![m] = issued[m] + (NFT_VALUE - p)]
  BY <1>5, <1>6, <1>7, IssuedUpdate
<1>9. /\ NFT_VALUE - p = V!Deposited.worth - holding[m][n].worth
      /\ V!Deposited.worth \in Int /\ holding[m][n].worth \in Int
      /\ holding[m][n].kind = "Loan"
  BY <1>2, <1>3, NftValueType DEF V!Deposited, V!Lent
<1> QED
  BY <1>4, <1>7, <1>8, <1>9, ExchangeOfOne DEF V!Liquidate

\* A step that touches no record, swap or balance is no step of the vaults.
LEMMA NothingExchanged ==
    ASSUME UNCHANGED <<deposit_state, locker_state, swap_state, balance>>
    PROVE  UNCHANGED V!vars
BY DEF V!vars, holding, issued, Status, HasLocker, Supply, Claims

\* What wallets do is to burn some droplets, or nothing.
LEMMA WalletStepIsBurn ==
    ASSUME AccountsTypeOK, WalletStep
    PROVE  V!Next \/ UNCHANGED V!vars
<1>1. UNCHANGED <<deposit_state, locker_state, swap_state>>
  BY DEF WalletStep, SplTransfer, SplBurn, NftTransfer
<1>2. UNCHANGED holding /\ \A b \in Droplets : Claims(b)' = Claims(b)
  BY <1>1 DEF holding, Status, HasLocker, Claims
<1>3. CASE \E n \in Nfts, to \in Users \cup {SOLVENT_AUTHORITY} : NftTransfer(n, to)
  BY <1>1, <1>3, NothingExchanged DEF NftTransfer
<1>4. ASSUME NEW m \in Droplets, \A b \in Droplets \ {m} : balance'[b] = balance[b]
      PROVE  V!Next \/ UNCHANGED V!vars
  <2> DEFINE amount == Supply(m) - Supply(m)'
  <2>1. AccountsTypeOK' /\ Supply(m)' <= Supply(m)
    BY WalletStepType
  <2>2. Supply(m)' \in Nat
    BY <2>1, HoldersFinite, TotalType DEF AccountsTypeOK, Supply
  <2>3. Supply(m) \in Nat /\ Total(Claims(m)) \in Nat
    BY TotalsType
  <2>4. amount \in Nat /\ 0 - amount \in Int /\ amount <= Supply(m) + Total(Claims(m))
    BY <2>1, <2>2, <2>3
  <2>5. Supply(m)' + Total(Claims(m)') = Supply(m) + Total(Claims(m)) + (0 - amount)
    BY <1>2, <2>2, <2>3
  <2> HIDE DEF amount
  <2>6. issued' = [issued EXCEPT ![m] = issued[m] + (0 - amount)]
    BY <1>2, <1>4, <2>4, <2>5, IssuedUpdate
  <2>7. issued[m] + (0 - amount) = issued[m] - amount
    BY <2>4, IssuedType
  <2>8. CASE amount = 0
    <3>1. issued[m] + (0 - amount) = issued[m]
      BY <2>8, IssuedType
    <3>2. issued = [b \in Droplets |-> issued[b]]
      BY DEF issued
    <3> QED
      BY <1>2, <2>6, <3>1, <3>2 DEF V!vars
  <2>9. CASE amount # 0
    <3>1. amount \in 1..issued[m]
      BY <2>4, <2>9, IssuedType
    <3>2. DOMAIN issued = Droplets /\ issued[m] \in Nat
      BY IssuedType DEF issued
    <3>3. issued'[m] = issued[m] - amount
      BY <2>6, <2>7, <3>2
    <3>4. issued'[m] \in 0..(issued[m] - 1)
      BY <2>4, <3>1, <3>2, <3>3
    <3>5. V!Burn(m)
      BY <1>2, <2>6, <2>7, <3>3, <3>4 DEF V!Burn
    <3> QED
      BY <3>5 DEF V!Next
  <2> QED
    BY <2>8, <2>9
<1>5. ASSUME NEW m \in Droplets, NEW from \in Holders, NEW amount \in TransferAmounts,
             \/ \E to \in Holders : SplTransfer(m, from, to, amount)
             \/ SplBurn(m, from, amount)
      PROVE  V!Next \/ UNCHANGED V!vars
  <2>1. \A b \in Droplets \ {m} : balance'[b] = balance[b]
    BY <1>5 DEF SplTransfer, SplBurn, AccountsTypeOK
  <2> QED
    BY <1>4, <2>1
<1> QED
  BY <1>3, <1>5 DEF WalletStep

-----------------------------------------------------------------------------
\* The program starts with nothing issued and nothing held.
LEMMA InitImplements == Init => V!Init
<1> SUFFICES ASSUME Init PROVE V!Init
  OBVIOUS
<1>1. holding = [m \in Droplets |-> [n \in Nfts |-> V!Nothing]]
  BY DEF Init, holding, Status, HasLocker, V!Nothing
<1>2. ASSUME NEW m \in Droplets PROVE Supply(m) + Total(Claims(m)) = 0
  <2>1. Supply(m) = 0
    BY TotalZero DEF Init, Supply
  <2>2. Claims(m) \in [Users -> Nat] /\ \A u \in Users : Claims(m)[u] = 0
    BY DEF Init, Claims
  <2> QED
    BY <2>1, <2>2, TotalZero
<1> QED
  BY <1>1, <1>2 DEF V!Init, issued

\* Every step of the program is one of the vaults, or invisible to them.
LEMMA NextImplements == VaultInv /\ [Next]_vars => [V!Next]_V!vars
<1> SUFFICES ASSUME AccountsTypeOK, RecordsApart, LoansInv, [Next]_vars
             PROVE  V!Next \/ UNCHANGED V!vars
  BY DEF VaultInv
<1>1. CASE Tick \/ UNCHANGED vars
  BY <1>1, NothingExchanged DEF Tick, vars
<1>2. CASE WalletStep
  BY <1>2, WalletStepIsBurn
<1>3. ASSUME NEW m \in Droplets, BucketStep(m)
      PROVE  V!Next \/ UNCHANGED V!vars
  <2>1. CASE \E c \in Collections : CreateBucket(m, c) \/ UpdateCollectionInfo(m, c)
    BY <2>1, NothingExchanged DEF CreateBucket, UpdateCollectionInfo
  <2>2. ASSUME NEW n \in Nfts, NEW u \in Users, NEW swap \in BOOLEAN,
               NEW dest \in Recipients, DepositNft(m, n, u, swap, dest)
        PROVE  V!Next
    BY <2>2, DepositNftIsDeposit DEF V!Next
  <2>3. ASSUME NEW n \in Nfts, NEW u \in Users, NEW swap \in BOOLEAN,
               NEW distributor \in Recipients, NEW to \in Users,
               RedeemNft(m, n, u, swap, distributor, to)
        PROVE  V!Next
    BY <2>3, RedeemNftIsRedeem DEF V!Next
  <2> QED
    BY <1>3, <2>1, <2>2, <2>3 DEF BucketStep
<1>4. ASSUME NEW m \in Droplets, LockerStep(m)
      PROVE  V!Next \/ UNCHANGED V!vars
  <2>1. CASE \/ \E flag \in BOOLEAN : SetLockingEnabled(m, flag)
             \/ \E supplied \in SUBSET {"scaler", "duration"}, s \in Scalers,
                   d \in MaxDurations : UpdateLockingParams(m, supplied, s, d)
    BY <2>1, NothingExchanged DEF SetLockingEnabled, UpdateLockingParams
  <2>2. ASSUME NEW n \in Nfts, NEW u \in Users, NEW d \in LockDurations,
               NEW dest \in Recipients, LockNft(m, n, u, d, dest)
        PROVE  V!Next
    BY <2>2, LockNftIsBorrow DEF V!Next
  <2>3. ASSUME NEW n \in Nfts, NEW u \in Users, NEW to \in Users, UnlockNft(m, n, u, to)
        PROVE  V!Next
    BY <2>3, UnlockNftIsRepay DEF V!Next
  <2>4. ASSUME NEW n \in Nfts, NEW dest \in Recipients, LiquidateLocker(m, n, dest)
        PROVE  V!Next
    BY <2>4, LiquidateLockerIsLiquidate DEF V!Next
  <2> QED
    BY <1>4, <2>1, <2>2, <2>3, <2>4 DEF LockerStep
<1> QED
  BY <1>1, <1>2, <1>3, <1>4 DEF Next

\* The program keeps the promise that Vaults states.
THEOREM SolventImplementsVaults == Spec => VaultsImplemented
<1>1. Init => V!Init
  BY InitImplements
<1>2. VaultInv /\ [Next]_vars => [V!Next]_V!vars
  BY NextImplements
<1>3. AccountsTypeOK /\ Custody /\ LoansInv => VaultInv
  BY CustodyApart DEF VaultInv
<1>4. Spec => []VaultInv
  BY <1>3, AccountsTypeCorrect, CustodyHolds, LoansSound, PTL
<1> QED
  BY <1>1, <1>2, <1>4, PTL DEF Spec, VaultsImplemented, V!Spec
=============================================================================
