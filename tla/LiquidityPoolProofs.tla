------------------------ MODULE LiquidityPoolProofs -------------------------
(***************************************************************************)
(* Theorems about the pool contract for any accounts, invoices, amounts    *)
(* and supply.                                                             *)
(***************************************************************************)
EXTENDS LiquidityPool, TotalsProofs

\* Integer division rounds down: the only arithmetic fact the pricing needs.
LEMMA DivRoundsDown ==
    ASSUME NEW a \in Nat, NEW n \in Nat, n > 0
    PROVE  (a \div n) \in Nat /\ (a \div n) * n <= a
  OBVIOUS

\* A product of natural numbers is a natural number, as Z3 needs to be told.
LEMMA ProductNat ==
    ASSUME NEW a \in Nat, NEW b \in Nat
    PROVE  a * b \in Nat
  OBVIOUS

\* A token balance moved between two holders.
Moved(b, from, to, x) == [[b EXCEPT ![from] = @ - x] EXCEPT ![to] = @ + x]

\* Moving tokens between two holders (the transfer helpers) keeps every balance natural.
LEMMA MovedType ==
    ASSUME NEW b \in [Address -> Nat], NEW from \in Address, NEW to \in Address,
           NEW x \in Int, 0 <= x, x <= b[from]
    PROVE  /\ Moved(b, from, to, x) \in [Address -> Nat]
           /\ from # to => /\ Moved(b, from, to, x)[from] = b[from] - x
                           /\ Moved(b, from, to, x)[to] = b[to] + x
           /\ \A a \in Address \ {from, to} : Moved(b, from, to, x)[a] = b[a]
  BY DEF Moved

\* The prices are natural numbers wherever the contract computes them.
LEMMA PricesAreNat ==
    ASSUME TypeOK, NEW x \in Nat
    PROVE  /\ cash \in Nat /\ get_nav \in Nat
           /\ total_shares = 0 \/ get_nav > 0 => shares_to_mint(x) \in Nat
           /\ total_shares > 0 => brlt_to_return(x) \in Nat
  <1>1. cash \in Nat /\ get_nav \in Nat /\ total_shares \in Nat
    BY DEF TypeOK, Brlt!TokenTypeOK, cash, get_nav, Address
  <1>2. ASSUME total_shares = 0 \/ get_nav > 0
        PROVE  shares_to_mint(x) \in Nat
    <2>1. CASE total_shares = 0
      BY <2>1 DEF shares_to_mint
    <2>2. CASE total_shares # 0
      <3>1. x * total_shares \in Nat
        BY <1>1, ProductNat
      <3>2. get_nav > 0
        BY <1>2, <2>2
      <3> QED
        BY <1>1, <2>2, <3>1, <3>2, DivRoundsDown DEF shares_to_mint
    <2> QED
      BY <2>1, <2>2
  <1>3. ASSUME total_shares > 0
        PROVE  brlt_to_return(x) \in Nat
    <2>1. x * get_nav \in Nat
      BY <1>1, ProductNat
    <2> QED
      BY <1>1, <1>3, <2>1, DivRoundsDown DEF brlt_to_return
  <1> QED
    BY <1>1, <1>2, <1>3

\* What each of the two entry points that price shares does to the books.
LEMMA DepositEffect ==
    ASSUME TypeOK, NEW a \in Account, NEW x \in Amounts, deposit(a, x)
    PROVE  /\ x \in Nat /\ shares_to_mint(x) \in Nat
           /\ brlt' \in [Address -> Nat] /\ share' \in [Address -> Nat]
           /\ cash' = cash + x
           /\ total_shares' = total_shares + shares_to_mint(x)
           /\ shareSupply' = shareSupply + shares_to_mint(x)
           /\ brltSupply' = brltSupply
           /\ UNCHANGED <<brltAdmin, shareAdmin>>
  <1>1. a \in Address /\ Pool \in Address /\ a # Pool
    BY AddressAssumption DEF Address
  <1>2. x \in Nat
    BY AmountAssumption DEF deposit
  <1>3. shares_to_mint(x) \in Nat
    BY <1>2, PricesAreNat DEF deposit
  <1>4. brlt' = Moved(brlt, a, Pool, x) /\ x <= brlt[a]
    BY DEF deposit, Brlt!transfer, Moved
  <1>5. brlt' \in [Address -> Nat] /\ brlt'[Pool] = brlt[Pool] + x
    BY <1>1, <1>2, <1>4, MovedType DEF TypeOK, Brlt!TokenTypeOK
  <1>6. share' = [share EXCEPT ![a] = @ + shares_to_mint(x)]
    BY DEF deposit, Share!mint
  <1>7. share' \in [Address -> Nat]
    BY <1>1, <1>3, <1>6 DEF TypeOK, Share!TokenTypeOK
  <1>8. /\ total_shares' = total_shares + shares_to_mint(x)
        /\ shareSupply' = shareSupply + shares_to_mint(x)
        /\ brltSupply' = brltSupply
        /\ UNCHANGED <<brltAdmin, shareAdmin>>
    BY DEF deposit, Share!mint, Brlt!transfer
  <1> QED
    BY <1>2, <1>3, <1>5, <1>7, <1>8 DEF cash

\* What withdraw does to the books: the same shares leave the holder and total_shares.
LEMMA WithdrawEffect ==
    ASSUME TypeOK, NEW a \in Account, NEW x \in Amounts, withdraw(a, x)
    PROVE  /\ x \in Nat /\ x > 0 /\ x <= total_shares /\ brlt_to_return(x) \in Nat
           /\ brlt' \in [Address -> Nat] /\ share' \in [Address -> Nat]
           /\ cash' = cash - brlt_to_return(x)
           /\ total_shares' = total_shares - x
           /\ shareSupply' = shareSupply - x
           /\ brltSupply' = brltSupply
           /\ UNCHANGED <<brltAdmin, shareAdmin>>
  <1>1. a \in Address /\ Pool \in Address /\ a # Pool
    BY AddressAssumption DEF Address
  <1>2. x \in Nat /\ x > 0 /\ x <= total_shares /\ total_shares > 0
    BY AmountAssumption DEF withdraw, TypeOK
  <1>3. brlt_to_return(x) \in Nat
    BY <1>2, PricesAreNat
  <1>4. brlt' = Moved(brlt, Pool, a, brlt_to_return(x)) /\ brlt_to_return(x) <= brlt[Pool]
    BY DEF withdraw, Brlt!transfer, Moved
  <1>5. brlt' \in [Address -> Nat] /\ brlt'[Pool] = brlt[Pool] - brlt_to_return(x)
    BY <1>1, <1>3, <1>4, MovedType DEF TypeOK, Brlt!TokenTypeOK
  <1>6. share' = [share EXCEPT ![a] = @ - x] /\ x <= share[a]
    BY DEF withdraw, Share!burn
  <1>7. share' \in [Address -> Nat]
    BY <1>1, <1>2, <1>6 DEF TypeOK, Share!TokenTypeOK
  <1>8. /\ total_shares' = total_shares - x
        /\ shareSupply' = shareSupply - x
        /\ brltSupply' = brltSupply
        /\ UNCHANGED <<brltAdmin, shareAdmin>>
    BY DEF withdraw, Share!burn, Brlt!transfer
  <1> QED
    BY <1>2, <1>3, <1>5, <1>7, <1>8 DEF cash

\* Purchases and BRLT transfers by an account: what they do to the balances.
LEMMA BuyEffect ==
    ASSUME TypeOK, NEW c \in Staff, NEW s \in Address, NEW i \in Invoice,
           NEW f \in Amounts, NEW x \in Amounts, buy_tokenized_invoice(c, s, i, f, x)
    PROVE  /\ x \in Nat
           /\ brlt' \in [Address -> Nat] /\ disbursed' \in [Invoice -> Nat]
           /\ cash' \in Nat /\ cash' >= cash - x
           /\ total_principal' = total_principal + x
  <1>1. s \in Address /\ Pool \in Address
    BY DEF Address
  <1>2. x \in Nat
    BY AmountAssumption DEF buy_tokenized_invoice
  <1>3. brlt' = Moved(brlt, Pool, s, x) /\ x <= brlt[Pool]
    BY DEF buy_tokenized_invoice, Brlt!transfer, Moved
  <1>4. brlt' \in [Address -> Nat] /\ brlt'[Pool] >= brlt[Pool] - x
    <2>1. brlt \in [Address -> Nat]
      BY DEF TypeOK, Brlt!TokenTypeOK
    <2>2. CASE s = Pool
      BY <1>1, <1>2, <1>3, <2>1, <2>2 DEF Moved
    <2>3. CASE s # Pool
      BY <1>1, <1>2, <1>3, <2>1, <2>3, MovedType
    <2> QED
      BY <2>2, <2>3
  <1>5. disbursed' \in [Invoice -> Nat]
    BY <1>2 DEF buy_tokenized_invoice, TypeOK
  <1>6. total_principal' = total_principal + x
    BY DEF buy_tokenized_invoice, principal_after_purchase
  <1> QED
    BY <1>1, <1>2, <1>4, <1>5, <1>6 DEF cash

\* A BRLT transfer debits its sender and can only add to the pool's cash.
LEMMA BrltTransferEffect ==
    ASSUME TypeOK, NEW a \in Account, NEW to \in Address, NEW x \in Amounts,
           BrltTransfer(a, to, x)
    PROVE  brlt' \in [Address -> Nat] /\ cash' \in Nat /\ cash' >= cash
  <1>1. a \in Address /\ Pool \in Address /\ a # Pool
    BY AddressAssumption DEF Address
  <1>2. x \in Int /\ brlt' = Moved(brlt, a, to, x) /\ 0 <= x /\ x <= brlt[a]
    BY AmountAssumption DEF BrltTransfer, Brlt!transfer, Moved
  <1>3. brlt' \in [Address -> Nat]
    BY <1>1, <1>2, MovedType DEF TypeOK, Brlt!TokenTypeOK
  <1>4. CASE to = Pool
    BY <1>1, <1>2, <1>3, <1>4, MovedType DEF TypeOK, Brlt!TokenTypeOK, cash
  <1>5. CASE to # Pool
    <2>1. Moved(brlt, a, to, x)[Pool] = brlt[Pool]
      BY <1>1, <1>2, <1>5, MovedType DEF TypeOK, Brlt!TokenTypeOK
    <2> QED
      BY <1>1, <1>2, <1>3, <2>1 DEF cash, TypeOK, Brlt!TokenTypeOK
  <1> QED
    BY <1>3, <1>4, <1>5

----------------------------------------------------------------------------
\* The undeployed pool and tokens are well typed.
LEMMA TypeInit == Init => TypeOK
  <1> SUFFICES ASSUME Init
               PROVE  TypeOK
    OBVIOUS
  <1>1. initialized \in BOOLEAN /\ paused \in BOOLEAN
    BY Zenon DEF Init
  <1>2. operator \in Staff /\ processed \subseteq Invoice
    BY AddressAssumption DEF Init
  <1>3. total_principal \in Nat /\ total_shares \in Nat /\ disbursed \in [Invoice -> Nat]
    BY DEF Init
  <1>4. /\ brltAdmin \in {NoAdmin, Admin} /\ Brlt!TokenTypeOK
        /\ shareAdmin \in {NoAdmin, Pool} /\ Share!TokenTypeOK
    BY DEF Init, Brlt!TokenInit, Share!TokenInit, Brlt!TokenTypeOK, Share!TokenTypeOK
  <1> QED
    BY <1>1, <1>2, <1>3, <1>4 DEF TypeOK

\* Every entry point keeps the books well typed, none of them negative.
LEMMA TypeNext == TypeOK /\ [Next]_vars => TypeOK'
  <1> SUFFICES ASSUME TypeOK, [Next]_vars
               PROVE  TypeOK'
    OBVIOUS
  <1> USE DEF TypeOK
  <1>1. CASE DeployTokens
    BY <1>1 DEF DeployTokens, poolUnchanged, poolState, brltToken, shareToken,
                Brlt!initialize, Share!initialize, Brlt!TokenTypeOK, Share!TokenTypeOK
  <1>2. ASSUME NEW op \in Staff, initialize(op)
        PROVE  TypeOK'
    BY <1>2 DEF initialize, brltToken, shareToken, Brlt!TokenTypeOK, Share!TokenTypeOK
  <1>3. ASSUME NEW a \in Account, NEW x \in Amounts, deposit(a, x)
        PROVE  TypeOK'
    <2>1. /\ brlt' \in [Address -> Nat] /\ share' \in [Address -> Nat]
          /\ total_shares' \in Nat /\ shareSupply' \in Int /\ brltSupply' \in Int
          /\ UNCHANGED <<brltAdmin, shareAdmin>>
      BY <1>3, DepositEffect DEF Brlt!TokenTypeOK, Share!TokenTypeOK
    <2> QED
      BY <1>3, <2>1 DEF deposit, Brlt!TokenTypeOK, Share!TokenTypeOK
  <1>4. ASSUME NEW a \in Account, NEW x \in Amounts, withdraw(a, x)
        PROVE  TypeOK'
    <2>1. /\ brlt' \in [Address -> Nat] /\ share' \in [Address -> Nat]
          /\ total_shares' \in Nat /\ shareSupply' \in Int /\ brltSupply' \in Int
          /\ UNCHANGED <<brltAdmin, shareAdmin>>
      BY <1>4, WithdrawEffect DEF Brlt!TokenTypeOK, Share!TokenTypeOK
    <2> QED
      BY <1>4, <2>1 DEF withdraw, Brlt!TokenTypeOK, Share!TokenTypeOK
  <1>5. ASSUME NEW c \in Staff, NEW s \in Address, NEW i \in Invoice,
               NEW f \in Amounts, NEW x \in Amounts, buy_tokenized_invoice(c, s, i, f, x)
        PROVE  TypeOK'
    <2>1. /\ brlt' \in [Address -> Nat] /\ disbursed' \in [Invoice -> Nat]
          /\ total_principal' \in Nat
      BY <1>5, BuyEffect
    <2> QED
      BY <1>5, <2>1 DEF buy_tokenized_invoice, Brlt!transfer, shareToken,
                        Brlt!TokenTypeOK, Share!TokenTypeOK
  <1>6. ASSUME NEW c \in Staff, NEW x \in Amounts, settle_invoice_in_pool(c, x)
        PROVE  TypeOK'
    <2>1. total_principal' \in Nat
      BY <1>6, AmountAssumption DEF settle_invoice_in_pool, principal_after_settlement
    <2> QED
      BY <1>6, <2>1 DEF settle_invoice_in_pool, brltToken, shareToken,
                        Brlt!TokenTypeOK, Share!TokenTypeOK
  <1>7. ASSUME NEW c \in Staff, NEW op \in Staff, pause(c) \/ unpause(c) \/ set_operator(c, op)
        PROVE  TypeOK'
    BY <1>7 DEF pause, unpause, set_operator, brltToken, shareToken,
                Brlt!TokenTypeOK, Share!TokenTypeOK
  <1>8. ASSUME NEW to \in Address, NEW x \in Amounts, BrltMint(to, x)
        PROVE  TypeOK'
    BY <1>8, AmountAssumption
    DEF BrltMint, Brlt!mint, poolUnchanged, poolState, shareToken,
        Brlt!TokenTypeOK, Share!TokenTypeOK
  <1>9. ASSUME NEW a \in Account, NEW to \in Address, NEW x \in Amounts, BrltTransfer(a, to, x)
        PROVE  TypeOK'
    <2>1. brlt' \in [Address -> Nat]
      BY <1>9, BrltTransferEffect
    <2> QED
      BY <1>9, <2>1 DEF BrltTransfer, Brlt!transfer, poolUnchanged, poolState, shareToken,
                        Brlt!TokenTypeOK, Share!TokenTypeOK
  <1>10. ASSUME NEW a \in Account, NEW to \in Address, NEW x \in Amounts, ShareTransfer(a, to, x)
         PROVE  TypeOK'
    <2>1. a \in Address /\ x \in Int
      BY AmountAssumption DEF Address
    <2>2. share' = Moved(share, a, to, x) /\ 0 <= x /\ x <= share[a]
      BY <1>10 DEF ShareTransfer, Share!transfer, Moved
    <2>3. share' \in [Address -> Nat]
      BY <2>1, <2>2, MovedType DEF Share!TokenTypeOK
    <2> QED
      BY <1>10, <2>3 DEF ShareTransfer, Share!transfer, poolUnchanged, poolState, brltToken,
                         Brlt!TokenTypeOK, Share!TokenTypeOK
  <1>11. ASSUME NEW a \in Account, NEW x \in Amounts, BrltBurn(a, x)
         PROVE  TypeOK'
    BY <1>11, AmountAssumption
    DEF BrltBurn, Brlt!burn, poolUnchanged, poolState, shareToken, Address,
        Brlt!TokenTypeOK, Share!TokenTypeOK
  <1>12. ASSUME NEW a \in Account, NEW x \in Amounts, ShareBurn(a, x)
         PROVE  TypeOK'
    BY <1>12, AmountAssumption
    DEF ShareBurn, Share!burn, poolUnchanged, poolState, brltToken, Address,
        Brlt!TokenTypeOK, Share!TokenTypeOK
  <1>13. CASE UNCHANGED vars
    BY <1>13 DEF vars, poolState, brltToken, shareToken, Brlt!TokenTypeOK, Share!TokenTypeOK
  <1> QED
    BY <1>1, <1>2, <1>3, <1>4, <1>5, <1>6, <1>7, <1>8, <1>9, <1>10, <1>11, <1>12, <1>13
    DEF Next

\* Type correctness of the pool contract: no balance, share count or principal
\* goes negative, for any amounts callers pass.
THEOREM PoolTypeCorrect == Spec => []TypeOK
  BY TypeInit, TypeNext, PTL DEF Spec

----------------------------------------------------------------------------
(* Shares in circulation.  ShareSupplyCovered is inductive only together    *)
(* with the fact that nothing is minted before initialize, which resets     *)
(* total_shares: the pool is the share token's only minter.                 *)

NothingMintedBeforeInitialize == ~initialized => shareSupply <= 0

SharesIInv == TypeOK /\ ShareSupplyCovered /\ NothingMintedBeforeInitialize

\* No share exists before the deployment.
LEMMA SharesInit == Init => SharesIInv
  BY TypeInit
  DEF Init, Share!TokenInit, SharesIInv, ShareSupplyCovered, NothingMintedBeforeInitialize

\* Every entry point keeps the supply of shares within total_shares.
LEMMA SharesNext == SharesIInv /\ [Next]_vars => SharesIInv'
  <1> SUFFICES ASSUME SharesIInv, [Next]_vars
               PROVE  (ShareSupplyCovered /\ NothingMintedBeforeInitialize)'
    BY TypeNext DEF SharesIInv
  <1> USE DEF SharesIInv, ShareSupplyCovered, NothingMintedBeforeInitialize
  <1>0. total_shares \in Nat /\ shareSupply \in Int
    BY DEF TypeOK, Share!TokenTypeOK
  <1>1. ASSUME NEW op \in Staff, initialize(op)
        PROVE  (ShareSupplyCovered /\ NothingMintedBeforeInitialize)'
    BY <1>0, <1>1 DEF initialize, shareToken
  <1>2. ASSUME NEW a \in Account, NEW x \in Amounts, deposit(a, x)
        PROVE  (ShareSupplyCovered /\ NothingMintedBeforeInitialize)'
    <2>1. initialized'
      BY <1>2 DEF deposit, require_not_paused
    <2> QED
      BY <1>0, <1>2, <2>1, DepositEffect
  <1>3. ASSUME NEW a \in Account, NEW x \in Amounts, withdraw(a, x)
        PROVE  (ShareSupplyCovered /\ NothingMintedBeforeInitialize)'
    <2>1. initialized'
      BY <1>3 DEF withdraw, require_not_paused
    <2> QED
      BY <1>0, <1>3, <2>1, WithdrawEffect
  <1>4. ASSUME NEW a \in Account, NEW x \in Amounts, ShareBurn(a, x)
        PROVE  (ShareSupplyCovered /\ NothingMintedBeforeInitialize)'
    BY <1>0, <1>4, AmountAssumption DEF ShareBurn, Share!burn, poolUnchanged, poolState
  <1>5. CASE UNCHANGED <<initialized, total_shares, shareSupply>>
    BY <1>5
  <1>6. ASSUME NEW c \in Staff, NEW s \in Address, NEW i \in Invoice, NEW f \in Amounts,
               NEW x \in Amounts, buy_tokenized_invoice(c, s, i, f, x)
        PROVE  UNCHANGED <<initialized, total_shares, shareSupply>>
    BY <1>6 DEF buy_tokenized_invoice, shareToken
  <1>7. ASSUME NEW c \in Staff, NEW x \in Amounts, settle_invoice_in_pool(c, x)
        PROVE  UNCHANGED <<initialized, total_shares, shareSupply>>
    BY <1>7 DEF settle_invoice_in_pool, shareToken
  <1>8. ASSUME NEW c \in Staff, NEW op \in Staff, pause(c) \/ unpause(c) \/ set_operator(c, op)
        PROVE  UNCHANGED <<initialized, total_shares, shareSupply>>
    BY <1>8 DEF pause, unpause, set_operator, shareToken
  <1>9. ASSUME NEW to \in Address, NEW x \in Amounts, BrltMint(to, x)
        PROVE  UNCHANGED <<initialized, total_shares, shareSupply>>
    BY <1>9 DEF BrltMint, poolUnchanged, poolState, shareToken
  <1>10. ASSUME NEW a \in Account, NEW x \in Amounts, BrltBurn(a, x)
         PROVE  UNCHANGED <<initialized, total_shares, shareSupply>>
    BY <1>10 DEF BrltBurn, poolUnchanged, poolState, shareToken
  <1>11. ASSUME NEW a \in Account, NEW to \in Address, NEW x \in Amounts,
                BrltTransfer(a, to, x) \/ ShareTransfer(a, to, x)
         PROVE  UNCHANGED <<initialized, total_shares, shareSupply>>
    BY <1>11 DEF BrltTransfer, ShareTransfer, Share!transfer, poolUnchanged, poolState, shareToken
  <1>12. CASE DeployTokens \/ UNCHANGED vars
    BY <1>5, <1>12 DEF DeployTokens, Share!initialize, poolUnchanged, poolState,
                       shareToken, vars
  <1> QED
    BY <1>1, <1>2, <1>3, <1>4, <1>5, <1>6, <1>7, <1>8, <1>9, <1>10, <1>11, <1>12 DEF Next

\* Whatever holders do with their share tokens, the tokens in existence never
\* exceed the total_shares by which withdraw divides.
THEOREM SharesCovered == Spec => []ShareSupplyCovered
  <1>1. Spec => []SharesIInv
    BY SharesInit, SharesNext, PTL DEF Spec
  <1>2. SharesIInv => ShareSupplyCovered
    BY DEF SharesIInv
  <1> QED
    BY <1>1, <1>2, PTL

----------------------------------------------------------------------------
(* The value of a share.                                                   *)

\* Minting rounds down, so the newcomer pays at least the price.
LEMMA MintAtPrice ==
    ASSUME NEW nav \in Nat, NEW T \in Nat, NEW x \in Nat, NEW s \in Nat, s * nav <= x * T
    PROVE  (nav + x) * T >= nav * (T + s)
  <1>1. (nav + x) * T = nav * T + x * T
    OBVIOUS
  <1>2. nav * (T + s) = nav * T + s * nav
    OBVIOUS
  <1>3. nav * T \in Nat /\ x * T \in Nat /\ s * nav \in Nat
    BY ProductNat
  <1> QED
    BY <1>1, <1>2, <1>3

\* Paying out rounds down, so the leaver takes at most the price.
LEMMA RedeemAtPrice ==
    ASSUME NEW nav \in Nat, NEW T \in Nat, NEW b \in Nat, NEW s \in Nat, b * T <= s * nav
    PROVE  (nav - b) * T >= nav * (T - s)
  <1>1. (nav - b) * T = nav * T - b * T
    OBVIOUS
  <1>2. nav * (T - s) = nav * T - s * nav
    OBVIOUS
  <1>3. nav * T \in Nat /\ b * T \in Nat /\ s * nav \in Nat
    BY ProductNat
  <1> QED
    BY <1>1, <1>2, <1>3

\* Cross-multiplied prices compare as their numerators do when the supply is the same.
LEMMA Monotone ==
    ASSUME NEW n \in Nat, NEW m \in Nat, NEW T \in Nat, m >= n
    PROVE  m * T >= n * T
  OBVIOUS

PriceStep ==
    total_shares > 0 /\ total_principal' >= total_principal =>
        get_nav' * total_shares >= get_nav * total_shares'

\* No entry point lowers the price of a share, settlement excepted.
LEMMA PriceNext == TypeOK /\ [Next]_vars => PriceStep
  <1> SUFFICES ASSUME TypeOK, [Next]_vars, total_shares > 0,
                      total_principal' >= total_principal
               PROVE  get_nav' * total_shares >= get_nav * total_shares'
    BY DEF PriceStep
  <1>0. /\ cash \in Nat /\ get_nav \in Nat /\ total_shares \in Nat /\ total_principal \in Nat
        /\ get_nav = cash + total_principal /\ get_nav' = cash' + total_principal'
    BY PricesAreNat DEF TypeOK, get_nav
  <1>a. TypeOK'
    BY TypeNext
  <1>b. cash' \in Nat /\ total_principal' \in Nat /\ get_nav' \in Nat
    <2>1. brlt'[Pool] \in Nat /\ total_principal' \in Nat
      BY <1>a DEF TypeOK, Brlt!TokenTypeOK, Address
    <2> QED
      BY <2>1 DEF get_nav, cash
  <1>1. ASSUME NEW op \in Staff, initialize(op)
        PROVE  get_nav' * total_shares >= get_nav * total_shares'
    <2>1. get_nav' \in Nat /\ total_shares' = 0
      BY <1>0, <1>b, <1>1 DEF initialize
    <2>2. get_nav' * total_shares \in Nat
      BY <1>0, <2>1, ProductNat
    <2> QED
      BY <1>0, <2>1, <2>2
  <1>2. ASSUME NEW a \in Account, NEW x \in Amounts, deposit(a, x)
        PROVE  get_nav' * total_shares >= get_nav * total_shares'
    <2> DEFINE s == shares_to_mint(x)
    <2>1. x \in Nat /\ s \in Nat
      BY <1>2, DepositEffect
    <2>2. get_nav > 0 /\ s = (x * total_shares) \div get_nav
      BY <1>0, <1>2 DEF deposit, shares_to_mint
    <2>3. s * get_nav <= x * total_shares
      <3>1. x * total_shares \in Nat
        BY <1>0, <2>1, ProductNat
      <3> QED
        BY <1>0, <2>2, <3>1, DivRoundsDown
    <2>4. get_nav' = get_nav + x /\ total_shares' = total_shares + s
      BY <1>0, <1>2, <2>1, DepositEffect DEF deposit
    <2> HIDE DEF s
    <2> QED
      BY <1>0, <2>1, <2>3, <2>4, MintAtPrice
  <1>3. ASSUME NEW a \in Account, NEW x \in Amounts, withdraw(a, x)
        PROVE  get_nav' * total_shares >= get_nav * total_shares'
    <2> DEFINE b == brlt_to_return(x)
    <2>1. x \in Nat /\ b \in Nat
      BY <1>3, WithdrawEffect
    <2>2. b * total_shares <= x * get_nav
      <3>1. x * get_nav \in Nat
        BY <1>0, <2>1, ProductNat
      <3> QED
        BY <1>0, <3>1, DivRoundsDown DEF brlt_to_return
    <2>3. get_nav' = get_nav - b /\ total_shares' = total_shares - x
      BY <1>0, <1>3, <2>1, WithdrawEffect DEF withdraw
    <2> HIDE DEF b
    <2> QED
      BY <1>0, <2>1, <2>2, <2>3, RedeemAtPrice
  <1>4. ASSUME total_shares' = total_shares, get_nav' >= get_nav
        PROVE  get_nav' * total_shares >= get_nav * total_shares'
    BY <1>0, <1>b, <1>4, Monotone
  <1>5. ASSUME NEW c \in Staff, NEW s \in Address, NEW i \in Invoice, NEW f \in Amounts,
               NEW x \in Amounts, buy_tokenized_invoice(c, s, i, f, x)
        PROVE  total_shares' = total_shares /\ get_nav' >= get_nav
    <2>1. /\ brlt'[Pool] \in Nat /\ brlt'[Pool] >= brlt[Pool] - x
          /\ total_principal' = total_principal + x /\ x \in Nat /\ brlt[Pool] \in Nat
      BY <1>0, <1>5, BuyEffect DEF cash
    <2>2. get_nav' >= get_nav
      BY <1>0, <2>1 DEF get_nav, cash
    <2> QED
      BY <1>0, <1>5, <2>2 DEF buy_tokenized_invoice
  <1>6. ASSUME NEW c \in Staff, NEW x \in Amounts, settle_invoice_in_pool(c, x)
        PROVE  total_shares' = total_shares /\ get_nav' >= get_nav
    BY <1>b, <1>6 DEF settle_invoice_in_pool, brltToken, cash, get_nav, TypeOK
  <1>7. ASSUME NEW c \in Staff, NEW op \in Staff, pause(c) \/ unpause(c) \/ set_operator(c, op)
        PROVE  total_shares' = total_shares /\ get_nav' >= get_nav
    BY <1>0, <1>7 DEF pause, unpause, set_operator, brltToken, cash
  <1>8. ASSUME NEW to \in Address, NEW x \in Amounts, BrltMint(to, x)
        PROVE  total_shares' = total_shares /\ get_nav' >= get_nav
    <2>1. brlt' = [brlt EXCEPT ![to] = @ + x] /\ x \in Nat
      BY <1>8, AmountAssumption DEF BrltMint, Brlt!mint
    <2>2. brlt'[Pool] >= brlt[Pool] /\ brlt'[Pool] \in Nat /\ brlt[Pool] \in Nat
      BY <2>1 DEF TypeOK, Brlt!TokenTypeOK, Address
    <2> QED
      BY <1>0, <1>8, <2>2 DEF BrltMint, poolUnchanged, poolState, get_nav, cash
  <1>9. ASSUME NEW a \in Account, NEW x \in Amounts, BrltBurn(a, x)
        PROVE  total_shares' = total_shares /\ get_nav' >= get_nav
    <2>1. brlt' = [brlt EXCEPT ![a] = @ - x] /\ a # Pool
      BY <1>9, AddressAssumption DEF BrltBurn, Brlt!burn
    <2>2. cash' = cash
      BY <2>1 DEF cash, TypeOK, Brlt!TokenTypeOK, Address
    <2> QED
      BY <1>0, <1>9, <2>2 DEF BrltBurn, poolUnchanged, poolState
  <1>10. ASSUME NEW a \in Account, NEW x \in Amounts, ShareBurn(a, x)
         PROVE  total_shares' = total_shares /\ get_nav' >= get_nav
    BY <1>0, <1>10 DEF ShareBurn, poolUnchanged, poolState, brltToken, cash
  <1>11. ASSUME NEW a \in Account, NEW to \in Address, NEW x \in Amounts, BrltTransfer(a, to, x)
         PROVE  total_shares' = total_shares /\ get_nav' >= get_nav
    BY <1>0, <1>11, BrltTransferEffect DEF BrltTransfer, poolUnchanged, poolState
  <1>12. ASSUME NEW a \in Account, NEW to \in Address, NEW x \in Amounts, ShareTransfer(a, to, x)
         PROVE  total_shares' = total_shares /\ get_nav' >= get_nav
    BY <1>0, <1>12 DEF ShareTransfer, poolUnchanged, poolState, brltToken, cash
  <1>13. ASSUME DeployTokens \/ UNCHANGED vars
         PROVE  total_shares' = total_shares /\ get_nav' >= get_nav
    BY <1>0, <1>13 DEF DeployTokens, Brlt!initialize, poolUnchanged, poolState, brltToken,
                       vars, cash
  <1> QED
    BY <1>1, <1>2, <1>3, <1>4, <1>5, <1>6, <1>7, <1>8, <1>9, <1>10, <1>11, <1>12, <1>13
    DEF Next

\* No deposit, withdrawal, purchase, donation or token operation, in any order
\* and for any amounts, lowers the value of the shares others hold; only a
\* write-off of principal by the operator can.
THEOREM PriceNeverDiluted == Spec => NoDilution
  BY PoolTypeCorrect, PriceNext, PTL DEF Spec, NoDilution, PriceStep

\* A product at least as large as a positive one has a positive factor.
LEMMA PositiveProduct ==
    ASSUME NEW a \in Nat, NEW b \in Nat, NEW c \in Nat, NEW d \in Nat,
           a * b >= c * d, c > 0, d > 0
    PROVE  a > 0
  <1> SUFFICES ASSUME a = 0
               PROVE  FALSE
    OBVIOUS
  <1>1. a * b = 0
    OBVIOUS
  <1>2. c * d >= c
    OBVIOUS
  <1> QED
    BY <1>1, <1>2, ProductNat

\* PoolStaysOpen, as a relation between two states.
OpenStep ==
    (total_shares > 0 => get_nav > 0) /\ total_principal' >= total_principal =>
        (total_shares' > 0 => get_nav' > 0)

\* Where there were shares the price has not fallen; where there were none,
\* only a deposit makes any, and its BRLT is then in the pool.
LEMMA OpenNext == TypeOK /\ [Next]_vars => OpenStep
  <1> SUFFICES ASSUME TypeOK, [Next]_vars, total_shares > 0 => get_nav > 0,
                      total_principal' >= total_principal, total_shares' > 0
               PROVE  get_nav' > 0
    BY DEF OpenStep
  <1>0. /\ total_shares \in Nat /\ get_nav \in Nat /\ cash \in Nat /\ total_principal \in Nat
        /\ total_shares' \in Nat /\ get_nav' \in Nat
    <2>1. TypeOK'
      BY TypeNext
    <2> QED
      BY <2>1, PricesAreNat DEF TypeOK, Brlt!TokenTypeOK, get_nav, cash, Address
  <1>1. CASE total_shares > 0
    <2>1. get_nav' * total_shares >= get_nav * total_shares'
      BY <1>1, PriceNext DEF PriceStep
    <2> QED
      BY <1>0, <1>1, <2>1, PositiveProduct
  <1>2. CASE total_shares = 0
    <2>1. PICK a \in Account, x \in Amounts : deposit(a, x)
      <3>1. ASSUME NEW a \in Account, NEW x \in Amounts, withdraw(a, x)
            PROVE  FALSE
        BY <1>2, <3>1, WithdrawEffect
      <3>2. total_shares' # total_shares /\ total_shares' # 0
        BY <1>2
      <3> QED
        BY <3>1, <3>2, Zenon
        DEF Next, DeployTokens, initialize, BrltBurn, ShareBurn, buy_tokenized_invoice,
            settle_invoice_in_pool, pause, unpause, set_operator, BrltMint, BrltTransfer,
            ShareTransfer, poolUnchanged, poolState, vars
    <2>2. x \in Nat /\ x > 0 /\ cash' = cash + x /\ total_principal' = total_principal
      BY <2>1, DepositEffect, AmountAssumption DEF deposit
    <2> QED
      BY <1>0, <2>2 DEF get_nav
  <1> QED
    BY <1>0, <1>1, <1>2

\* No sequence of deposits, withdrawals, purchases and token operations leaves
\* shares in a pool of NAV zero, where every deposit and withdrawal is refused;
\* only a write-off of principal can.
THEOREM PoolNeverStranded == Spec => PoolStaysOpen
  BY PoolTypeCorrect, OpenNext, PTL DEF Spec, PoolStaysOpen, OpenStep

----------------------------------------------------------------------------
\* FrozenWhilePaused, as a relation between two states.
FrozenStep ==
    paused /\ paused' =>
        UNCHANGED <<total_principal, total_shares, processed>> /\ cash' >= cash

\* Every entry point that moves funds is turned away while the pool is paused,
\* and what holders do to the tokens leaves its books alone.
LEMMA FrozenNext == TypeOK /\ [Next]_vars => FrozenStep
  <1> SUFFICES ASSUME TypeOK, [Next]_vars, paused, paused'
               PROVE  UNCHANGED <<total_principal, total_shares, processed>> /\ cash' >= cash
    BY DEF FrozenStep
  <1> DEFINE Frozen == UNCHANGED <<total_principal, total_shares, processed>> /\ cash' >= cash
  <1>0. cash \in Nat
    BY PricesAreNat
  <1>1. ASSUME NEW op \in Staff, initialize(op)
        PROVE  FALSE
    BY <1>1 DEF initialize
  <1>2. ASSUME NEW a \in Account, NEW x \in Amounts, deposit(a, x) \/ withdraw(a, x)
        PROVE  FALSE
    BY <1>2 DEF deposit, withdraw, require_not_paused
  <1>3. ASSUME NEW c \in Staff, NEW s \in Address, NEW i \in Invoice, NEW f \in Amounts,
               NEW x \in Amounts, buy_tokenized_invoice(c, s, i, f, x)
        PROVE  FALSE
    BY <1>3 DEF buy_tokenized_invoice, require_not_paused
  <1>4. ASSUME NEW c \in Staff, NEW x \in Amounts, settle_invoice_in_pool(c, x)
         PROVE  FALSE
    BY <1>4 DEF settle_invoice_in_pool, require_not_paused
  <1>5. ASSUME NEW c \in Staff, NEW op \in Staff, pause(c) \/ unpause(c) \/ set_operator(c, op)
        PROVE  Frozen
    BY <1>0, <1>5 DEF pause, unpause, set_operator, brltToken, cash
  <1>6. ASSUME NEW to \in Address, NEW x \in Amounts, BrltMint(to, x)
        PROVE  Frozen
    <2>1. brlt' = [brlt EXCEPT ![to] = @ + x] /\ x \in Nat
      BY <1>6, AmountAssumption DEF BrltMint, Brlt!mint
    <2>2. brlt'[Pool] >= brlt[Pool]
      BY <2>1 DEF TypeOK, Brlt!TokenTypeOK, Address
    <2> QED
      BY <1>6, <2>2 DEF BrltMint, poolUnchanged, poolState, cash
  <1>7. ASSUME NEW a \in Account, NEW x \in Amounts, BrltBurn(a, x)
        PROVE  Frozen
    <2>1. brlt' = [brlt EXCEPT ![a] = @ - x] /\ a # Pool
      BY <1>7, AddressAssumption DEF BrltBurn, Brlt!burn
    <2>2. cash' = cash
      BY <2>1 DEF cash, TypeOK, Brlt!TokenTypeOK, Address
    <2> QED
      BY <1>0, <1>7, <2>2 DEF BrltBurn, poolUnchanged, poolState
  <1>8. ASSUME NEW a \in Account, NEW x \in Amounts, ShareBurn(a, x)
        PROVE  Frozen
    BY <1>0, <1>8 DEF ShareBurn, poolUnchanged, poolState, brltToken, cash
  <1>9. ASSUME NEW a \in Account, NEW to \in Address, NEW x \in Amounts, BrltTransfer(a, to, x)
        PROVE  Frozen
    BY <1>9, BrltTransferEffect DEF BrltTransfer, poolUnchanged, poolState
  <1>10. ASSUME NEW a \in Account, NEW to \in Address, NEW x \in Amounts, ShareTransfer(a, to, x)
        PROVE  Frozen
    BY <1>0, <1>10 DEF ShareTransfer, poolUnchanged, poolState, brltToken, cash
  <1>11. ASSUME DeployTokens \/ UNCHANGED vars
         PROVE  Frozen
    BY <1>0, <1>11 DEF DeployTokens, Brlt!initialize, poolUnchanged, poolState, brltToken,
                       vars, cash
  <1> QED
    BY <1>1, <1>2, <1>3, <1>4, <1>5, <1>6, <1>7, <1>8, <1>9, <1>10, <1>11 DEF Next

\* A pause stops every movement of funds by the pool until it is lifted,
\* whatever staff and holders call meanwhile.
THEOREM PauseFreezes == Spec => FrozenWhilePaused
  BY PoolTypeCorrect, FrozenNext, PTL DEF Spec, FrozenWhilePaused, FrozenStep


----------------------------------------------------------------------------
(* The balances.                                                           *)

\* Accounts and the pool: finitely many holders of tokens.
LEMMA AddressesFinite == IsFiniteSet(Address)
  <1>1. Address = Account \cup {Pool}
    BY DEF Address
  <1> QED
    BY <1>1, FiniteAssumption, FS_AddElement

\* Base::mint, burn and transfer: what they do to the sum of the balances.
LEMMA MintTotal ==
    ASSUME NEW b \in [Address -> Nat], NEW to \in Address, NEW x \in Nat
    PROVE  total([b EXCEPT ![to] = @ + x]) = total(b) + x
  <1> DEFINE c == [b EXCEPT ![to] = @ + x]
  <1>1. c \in [Address -> Nat] /\ c[to] = b[to] + x /\ \A a \in Address : a # to => c[a] = b[a]
    OBVIOUS
  <1> HIDE DEF c
  <1>2. total(c) = total(b) + x
    BY <1>1, AddressesFinite, TotalAdd
  <1> QED
    BY <1>2 DEF c

\* A burn lowers the sum of the balances by what it burns.
LEMMA BurnTotal ==
    ASSUME NEW b \in [Address -> Nat], NEW from \in Address, NEW x \in Nat, x <= b[from]
    PROVE  /\ [b EXCEPT ![from] = @ - x] \in [Address -> Nat]
           /\ total([b EXCEPT ![from] = @ - x]) = total(b) - x
  <1> DEFINE c == [b EXCEPT ![from] = @ - x]
  <1>1. /\ c \in [Address -> Nat] /\ b[from] = c[from] + x
        /\ \A a \in Address : a # from => b[a] = c[a]
    OBVIOUS
  <1> HIDE DEF c
  <1>2. total(b) = total(c) + x
    BY <1>1, AddressesFinite, TotalAdd
  <1>3. total(c) \in Nat
    BY <1>1, AddressesFinite, TotalType
  <1>4. total(c) = total(b) - x
    BY <1>2, <1>3
  <1> QED
    BY <1>1, <1>4 DEF c

\* A transfer leaves the sum of the balances alone.
LEMMA MoveTotal ==
    ASSUME NEW b \in [Address -> Nat], NEW from \in Address, NEW to \in Address, NEW x \in Nat, x <= b[from]
    PROVE  total(Moved(b, from, to, x)) = total(b)
  <1> DEFINE c == [b EXCEPT ![from] = @ - x]
  <1>1. c \in [Address -> Nat] /\ total(c) = total(b) - x
    BY BurnTotal
  <1>2. Moved(b, from, to, x) = [c EXCEPT ![to] = @ + x]
    BY DEF Moved
  <1> HIDE DEF c
  <1>3. total([c EXCEPT ![to] = @ + x]) = total(c) + x
    BY <1>1, MintTotal
  <1>4. total(b) \in Nat
    BY AddressesFinite, TotalType
  <1> QED
    BY <1>1, <1>2, <1>3, <1>4

\* The balances add up to the supply in both tokens: what links the claims,
\* holder by holder, to the share supply the pool's count covers.
TokensConserved == total(brlt) = brltSupply /\ total(share) = shareSupply

ConservedIInv == TypeOK /\ TokensConserved

\* Before the deployment there are no tokens.
LEMMA ConservedInit == Init => ConservedIInv
  BY TypeInit, TotalOfZeros DEF ConservedIInv, TokensConserved, Init, Brlt!TokenInit, Share!TokenInit

\* The two cross-contract calls of an entry point move tokens, mint or burn
\* them, and each does to the supply what it does to the balances.
LEMMA ConservedNext == ConservedIInv /\ [Next]_vars => ConservedIInv'
  <1> SUFFICES ASSUME ConservedIInv, [Next]_vars PROVE TokensConserved'
    BY TypeNext DEF ConservedIInv
  <1> USE DEF ConservedIInv
  <1>0. /\ TypeOK /\ brlt \in [Address -> Nat] /\ share \in [Address -> Nat]
        /\ total(brlt) = brltSupply /\ total(share) = shareSupply
        /\ Pool \in Address /\ \A a \in Account : a \in Address
    BY DEF TypeOK, Brlt!TokenTypeOK, Share!TokenTypeOK, TokensConserved, Address
  <1>1. CASE UNCHANGED <<brlt, brltSupply, share, shareSupply>>
    BY <1>1 DEF TokensConserved
  <1>2. ASSUME NEW a \in Account, NEW x \in Amounts, deposit(a, x) PROVE TokensConserved'
    <2>1. x \in Nat /\ shares_to_mint(x) \in Nat
      BY <1>0, <1>2, DepositEffect
    <2>2. /\ brlt' = Moved(brlt, a, Pool, x) /\ x <= brlt[a] /\ brltSupply' = brltSupply
          /\ share' = [share EXCEPT ![a] = @ + shares_to_mint(x)]
          /\ shareSupply' = shareSupply + shares_to_mint(x)
      BY <1>2 DEF deposit, Brlt!transfer, Share!mint, Moved
    <2>3. total(brlt') = total(brlt)
      BY <1>0, <2>1, <2>2, MoveTotal
    <2>4. total(share') = total(share) + shares_to_mint(x)
      BY <1>0, <2>1, <2>2, MintTotal
    <2> QED
      BY <1>0, <2>2, <2>3, <2>4 DEF TokensConserved
  <1>3. ASSUME NEW a \in Account, NEW x \in Amounts, withdraw(a, x) PROVE TokensConserved'
    <2>1. x \in Nat /\ brlt_to_return(x) \in Nat
      BY <1>0, <1>3, WithdrawEffect
    <2>2. /\ brlt' = Moved(brlt, Pool, a, brlt_to_return(x)) /\ brlt_to_return(x) <= brlt[Pool]
          /\ brltSupply' = brltSupply
          /\ share' = [share EXCEPT ![a] = @ - x] /\ x <= share[a] /\ shareSupply' = shareSupply - x
      BY <1>3 DEF withdraw, Brlt!transfer, Share!burn, Moved
    <2>3. total(brlt') = total(brlt)
      BY <1>0, <2>1, <2>2, MoveTotal
    <2>4. total(share') = total(share) - x
      BY <1>0, <2>1, <2>2, BurnTotal
    <2> QED
      BY <1>0, <2>2, <2>3, <2>4 DEF TokensConserved
  <1>4. ASSUME NEW from \in Address, NEW to \in Address, NEW x \in Int, Brlt!transfer(from, to, x),
               UNCHANGED shareToken
        PROVE  TokensConserved'
    <2>1. x \in Nat /\ x <= brlt[from] /\ brlt' = Moved(brlt, from, to, x) /\ brltSupply' = brltSupply
      BY <1>4 DEF Brlt!transfer, Moved
    <2>2. total(brlt') = total(brlt)
      BY <1>0, <2>1, MoveTotal
    <2> QED
      BY <1>0, <1>4, <2>1, <2>2 DEF TokensConserved, shareToken
  <1>5. ASSUME NEW a \in Account, NEW to \in Address, NEW x \in Amounts, ShareTransfer(a, to, x)
        PROVE  TokensConserved'
    <2>1. /\ x \in Nat /\ x <= share[a] /\ share' = Moved(share, a, to, x)
          /\ UNCHANGED <<shareSupply, brlt, brltSupply>>
      BY <1>5, AmountAssumption DEF ShareTransfer, Share!transfer, Moved, brltToken
    <2>2. total(share') = total(share)
      BY <1>0, <2>1, MoveTotal
    <2> QED
      BY <1>0, <2>1, <2>2 DEF TokensConserved
  <1>6. ASSUME NEW to \in Address, NEW x \in Amounts, BrltMint(to, x) PROVE TokensConserved'
    <2>1. /\ x \in Nat /\ brlt' = [brlt EXCEPT ![to] = @ + x] /\ brltSupply' = brltSupply + x
          /\ UNCHANGED <<share, shareSupply>>
      BY <1>6, AmountAssumption DEF BrltMint, Brlt!mint, shareToken
    <2>2. total(brlt') = total(brlt) + x
      BY <1>0, <2>1, MintTotal
    <2> QED
      BY <1>0, <2>1, <2>2 DEF TokensConserved
  <1>7. ASSUME NEW a \in Account, NEW x \in Amounts, BrltBurn(a, x) PROVE TokensConserved'
    <2>1. /\ x \in Nat /\ x <= brlt[a] /\ brlt' = [brlt EXCEPT ![a] = @ - x] /\ brltSupply' = brltSupply - x
          /\ UNCHANGED <<share, shareSupply>>
      BY <1>7, AmountAssumption DEF BrltBurn, Brlt!burn, shareToken
    <2>2. total(brlt') = total(brlt) - x
      BY <1>0, <2>1, BurnTotal
    <2> QED
      BY <1>0, <2>1, <2>2 DEF TokensConserved
  <1>8. ASSUME NEW a \in Account, NEW x \in Amounts, ShareBurn(a, x) PROVE TokensConserved'
    <2>1. /\ x \in Nat /\ x <= share[a] /\ share' = [share EXCEPT ![a] = @ - x] /\ shareSupply' = shareSupply - x
          /\ UNCHANGED <<brlt, brltSupply>>
      BY <1>8, AmountAssumption DEF ShareBurn, Share!burn, brltToken
    <2>2. total(share') = total(share) - x
      BY <1>0, <2>1, BurnTotal
    <2> QED
      BY <1>0, <2>1, <2>2 DEF TokensConserved
  <1>9. ASSUME NEW c \in Staff, NEW s \in Address, NEW i \in Invoice, NEW f \in Amounts,
               NEW x \in Amounts, buy_tokenized_invoice(c, s, i, f, x)
        PROVE  TokensConserved'
    BY <1>0, <1>4, <1>9, AmountAssumption DEF buy_tokenized_invoice
  <1>10. ASSUME NEW a \in Account, NEW to \in Address, NEW x \in Amounts, BrltTransfer(a, to, x)
         PROVE  TokensConserved'
    BY <1>0, <1>4, <1>10, AmountAssumption DEF BrltTransfer
  <1>11. ASSUME NEW c \in Staff, NEW x \in Amounts, settle_invoice_in_pool(c, x)
         PROVE  UNCHANGED <<brlt, brltSupply, share, shareSupply>>
    BY <1>11 DEF settle_invoice_in_pool, brltToken, shareToken
  <1>12. ASSUME NEW c \in Staff, NEW op \in Staff, pause(c) \/ unpause(c) \/ set_operator(c, op)
         PROVE  UNCHANGED <<brlt, brltSupply, share, shareSupply>>
    BY <1>12 DEF pause, unpause, set_operator, brltToken, shareToken
  <1>13. CASE DeployTokens \/ (\E op \in Staff : initialize(op)) \/ UNCHANGED vars
    BY <1>1, <1>13 DEF DeployTokens, initialize, Brlt!initialize, Share!initialize, brltToken, shareToken, vars
  <1> QED
    BY <1>1, <1>2, <1>3, <1>5, <1>6, <1>7, <1>8, <1>9, <1>10, <1>11, <1>12, <1>13 DEF Next

----------------------------------------------------------------------------
(* What the holders are owed.                                              *)

\* A product is cancelled.
LEMMA Cancel ==
    ASSUME NEW a \in Nat, NEW b \in Nat, NEW c \in Nat, c > 0, a * c <= b * c
    PROVE  a <= b
  <1> SUFFICES ASSUME b + 1 <= a PROVE FALSE
    OBVIOUS
  <1>1. (b + 1) * c <= a * c /\ b * c \in Nat /\ a * c \in Nat
    BY ProductMonotone
  <1>2. (b + 1) * c = b * c + c
    OBVIOUS
  <1> QED
    BY <1>1, <1>2

\* What a holder would be paid, in shares of the NAV.
LEMMA ClaimPriced ==
    ASSUME TypeOK, total_shares > 0, NEW s \in Nat
    PROVE  brlt_to_return(s) \in Nat /\ brlt_to_return(s) * total_shares <= s * get_nav
  <1>1. get_nav \in Nat /\ total_shares \in Nat
    BY PricesAreNat DEF TypeOK
  <1>2. s * get_nav \in Nat
    BY <1>1, ProductNat
  <1> QED
    BY <1>1, <1>2, DivRoundsDown DEF brlt_to_return

\* What a deposit into a pool with shares buys is worth at most what was paid.
RoundTripStep ==
    \A a \in Account, x \in Amounts, s \in Nat :
        deposit(a, x) /\ total_shares > 0 /\ s = share'[a] - share[a]
            => brlt_to_return(s)' <= x

\* Both divisions round down, so the round trip loses at most its own rounding.
LEMMA RoundTripNext == TypeOK /\ [Next]_vars => RoundTripStep
  <1> SUFFICES ASSUME TypeOK, [Next]_vars, NEW a \in Account, NEW x \in Amounts, NEW s \in Nat,
                      deposit(a, x), total_shares > 0, s = share'[a] - share[a]
               PROVE  brlt_to_return(s)' <= x
    BY DEF RoundTripStep
  <1>0. /\ get_nav \in Nat /\ total_shares \in Nat /\ cash \in Nat /\ total_principal \in Nat
        /\ x \in Nat /\ shares_to_mint(x) \in Nat /\ a \in Address
    BY PricesAreNat, DepositEffect DEF TypeOK, Address
  <1>1. s = shares_to_mint(x)
    BY <1>0 DEF deposit, Share!mint, TypeOK, Share!TokenTypeOK
  <1>2. get_nav > 0 /\ s = (x * total_shares) \div get_nav
    BY <1>0, <1>1 DEF deposit, shares_to_mint
  <1>3. s * get_nav <= x * total_shares
    <2>1. x * total_shares \in Nat
      BY <1>0, ProductNat
    <2> QED
      BY <1>0, <1>2, <2>1, DivRoundsDown
  <1>4. get_nav' = get_nav + x /\ total_shares' = total_shares + s
    BY <1>0, <1>1, DepositEffect DEF deposit, get_nav
  <1>5. s * (get_nav + x) <= x * (total_shares + s)
    <2>1. s * (get_nav + x) = s * get_nav + s * x /\ x * (total_shares + s) = x * total_shares + s * x
      BY <1>0
    <2>2. s * get_nav \in Nat /\ x * total_shares \in Nat /\ s * x \in Nat
      BY <1>0, ProductNat
    <2> QED
      BY <1>3, <2>1, <2>2
  <1>6. TypeOK' /\ total_shares' > 0
    BY <1>0, <1>4, TypeNext
  <1>7. /\ brlt_to_return(s)' = (s * (get_nav + x)) \div (total_shares + s)
        /\ get_nav + x \in Nat /\ total_shares + s \in Nat /\ total_shares + s > 0
    BY <1>0, <1>4 DEF brlt_to_return
  <1> DEFINE b == (s * (get_nav + x)) \div (total_shares + s)
  <1>8. b \in Nat /\ b * (total_shares + s) <= s * (get_nav + x)
    <2>1. s * (get_nav + x) \in Nat
      BY <1>7, ProductNat
    <2> QED
      BY <1>7, <2>1, DivRoundsDown
  <1>9. b * (total_shares + s) <= x * (total_shares + s)
    <2>1. b * (total_shares + s) \in Nat /\ s * (get_nav + x) \in Nat /\ x * (total_shares + s) \in Nat
      BY <1>0, <1>7, <1>8, ProductNat
    <2> HIDE DEF b
    <2> QED
      BY <1>5, <1>8, <2>1
  <1> HIDE DEF b
  <1>10. b <= x
    BY <1>0, <1>7, <1>8, <1>9, Cancel
  <1> QED
    BY <1>7, <1>10 DEF b

\* Nobody gains by paying into the pool and redeeming at once, whatever was
\* donated to it, lent by it or burned around it before: the shares a deposit
\* mints would be paid back with at most the deposit.  (Into a pool without
\* shares the first deposit takes over whatever BRLT the pool already holds.)
THEOREM NoRoundTripProfit == Spec => [][RoundTripStep]_vars
  BY PoolTypeCorrect, RoundTripNext, PTL DEF Spec

ClaimsIInv == SharesIInv /\ ConservedIInv

\* The two invariants on which the claims rest hold together.
LEMMA ClaimsAlways == Spec => []ClaimsIInv
  BY SharesInit, SharesNext, ConservedInit, ConservedNext, PTL DEF Spec, ClaimsIInv

\* The shares that exist are a part of total_shares, each claim is rounded
\* down, so the claims together are within the NAV.
LEMMA ClaimsWithinNav == ClaimsIInv => ClaimsCovered
  <1> SUFFICES ASSUME ClaimsIInv, total_shares > 0
               PROVE  total([a \in Address |-> brlt_to_return(share[a])]) <= get_nav
    BY DEF ClaimsCovered
  <1>0. /\ TypeOK /\ share \in [Address -> Nat] /\ get_nav \in Nat /\ total_shares \in Nat
        /\ total(share) = shareSupply /\ shareSupply <= total_shares
    BY PricesAreNat DEF ClaimsIInv, SharesIInv, ConservedIInv, TokensConserved, ShareSupplyCovered,
                        TypeOK, Share!TokenTypeOK
  <1> DEFINE claim == [a \in Address |-> brlt_to_return(share[a])]
  <1>1. \A a \in Address : /\ brlt_to_return(share[a]) \in Nat
                           /\ brlt_to_return(share[a]) * total_shares <= share[a] * get_nav
    BY <1>0, ClaimPriced
  <1>2. claim \in [Address -> Nat] /\ \A a \in Address : claim[a] * total_shares <= share[a] * get_nav
    BY <1>1
  <1> HIDE DEF claim
  <1>3. total(claim) * total_shares <= total(share) * get_nav
    BY <1>0, <1>2, AddressesFinite, TotalScaled
  <1>4. total(claim) \in Nat /\ total(share) \in Nat
    BY <1>0, <1>2, AddressesFinite, TotalType
  <1>5. total(share) * get_nav <= total_shares * get_nav
    BY <1>0, <1>4, ProductMonotone
  <1>6. total_shares * get_nav = get_nav * total_shares
    BY <1>0
  <1>7. /\ total(claim) * total_shares \in Nat /\ total(share) * get_nav \in Nat
        /\ get_nav * total_shares \in Nat
    BY <1>0, <1>4, ProductNat
  <1>8. total(claim) * total_shares <= get_nav * total_shares
    BY <1>3, <1>5, <1>6, <1>7
  <1>9. total(claim) <= get_nav
    BY <1>0, <1>4, <1>8, Cancel
  <1> QED
    BY <1>9 DEF claim

\* If every holder redeemed at today's price, the pool would owe no more than
\* its NAV, however many holders there are.
THEOREM ClaimsAreCovered == Spec => []ClaimsCovered
  BY ClaimsAlways, ClaimsWithinNav, PTL

\* What withdraw asks before it burns the shares and pays, for all the shares
\* of a holder.
Redeemable(a) ==
    /\ share[a] <= total_shares
    /\ brlt_to_return(share[a]) \in Nat /\ pool_can_pay(brlt_to_return(share[a]))

\* None of the early returns of withdraw locks a holder in once the pool has
\* no principal outstanding: the shares are within the pool's count, and their
\* price is within its cash.
THEOREM HoldersCanRedeem ==
    Spec => [](\A a \in Account : total_principal = 0 /\ share[a] > 0 => Redeemable(a))
  <1>1. ASSUME ClaimsIInv, NEW a \in Account, total_principal = 0, share[a] > 0
        PROVE  Redeemable(a)
    <2>0. /\ TypeOK /\ share \in [Address -> Nat] /\ get_nav \in Nat /\ total_shares \in Nat /\ cash \in Nat
          /\ total(share) = shareSupply /\ shareSupply <= total_shares /\ a \in Address
      BY <1>1, PricesAreNat DEF ClaimsIInv, SharesIInv, ConservedIInv, TokensConserved, ShareSupplyCovered,
                                TypeOK, Share!TokenTypeOK, Address
    <2>1. PICK s \in Nat : s = share[a]
      BY <2>0
    <2>2. s <= total(share)
      BY <2>0, <2>1, AddressesFinite, TotalBounds
    <2>3. total(share) \in Nat
      BY <2>0, AddressesFinite, TotalType
    <2>4. s <= total_shares /\ total_shares > 0
      BY <1>1, <2>0, <2>1, <2>2, <2>3
    <2>5. brlt_to_return(s) \in Nat /\ brlt_to_return(s) * total_shares <= s * get_nav
      BY <2>0, <2>4, ClaimPriced
    <2>6. s * get_nav <= total_shares * get_nav /\ total_shares * get_nav = get_nav * total_shares
      BY <2>0, <2>4, ProductMonotone
    <2>7. brlt_to_return(s) * total_shares \in Nat /\ s * get_nav \in Nat /\ get_nav * total_shares \in Nat
      BY <2>0, <2>5, ProductNat
    <2>8. brlt_to_return(s) * total_shares <= get_nav * total_shares
      BY <2>5, <2>6, <2>7
    <2>9. brlt_to_return(s) <= get_nav
      BY <2>0, <2>4, <2>5, <2>8, Cancel
    <2>10. get_nav = cash
      BY <1>1, <2>0 DEF get_nav
    <2> QED
      BY <2>1, <2>4, <2>5, <2>9, <2>10 DEF Redeemable, pool_can_pay
  <1>2. ClaimsIInv => \A a \in Account : total_principal = 0 /\ share[a] > 0 => Redeemable(a)
    BY <1>1
  <1> QED
    BY <1>2, ClaimsAlways, PTL

----------------------------------------------------------------------------
(* The principal.                                                          *)

PrincipalIInv == TypeOK /\ PrincipalBacked

\* Nothing is lent before the deployment.
LEMMA PrincipalInit == Init => PrincipalIInv
  BY TypeInit, TotalOfZeros DEF PrincipalIInv, PrincipalBacked, Init

\* What is lent is paid out; a settlement only takes off.
LEMMA PrincipalNext == PrincipalIInv /\ [Next]_vars => PrincipalIInv'
  <1> SUFFICES ASSUME PrincipalIInv, [Next]_vars PROVE PrincipalBacked'
    BY TypeNext DEF PrincipalIInv
  <1> USE DEF PrincipalIInv
  <1>0. /\ TypeOK /\ total_principal \in Nat /\ disbursed \in [Invoice -> Nat]
        /\ total_principal <= total(disbursed) /\ total(disbursed) \in Nat
    BY FiniteAssumption, TotalType DEF TypeOK, PrincipalBacked
  <1>1. CASE UNCHANGED <<total_principal, disbursed>>
    BY <1>1 DEF PrincipalBacked
  <1>2. ASSUME NEW op \in Staff, initialize(op) PROVE PrincipalBacked'
    BY <1>0, <1>2 DEF initialize, PrincipalBacked
  <1>3. ASSUME NEW c \in Staff, NEW x \in Amounts, settle_invoice_in_pool(c, x) PROVE PrincipalBacked'
    <2>1. disbursed' = disbursed /\ total_principal' = principal_after_settlement(x) /\ x \in Nat
      BY <1>3, AmountAssumption DEF settle_invoice_in_pool
    <2>2. total_principal' <= total_principal /\ total_principal' \in Int
      BY <1>0, <2>1 DEF principal_after_settlement
    <2> QED
      BY <1>0, <2>1, <2>2 DEF PrincipalBacked
  <1>4. ASSUME NEW c \in Staff, NEW s \in Address, NEW i \in Invoice, NEW f \in Amounts,
               NEW x \in Amounts, buy_tokenized_invoice(c, s, i, f, x)
        PROVE  PrincipalBacked'
    <2>1. x \in Nat /\ disbursed' \in [Invoice -> Nat] /\ total_principal' = total_principal + x
      BY <1>0, <1>4, BuyEffect
    <2>2. disbursed'[i] = disbursed[i] + x /\ \A j \in Invoice : j # i => disbursed'[j] = disbursed[j]
      BY <1>0, <1>4 DEF buy_tokenized_invoice
    <2>3. total(disbursed') = total(disbursed) + x
      BY <1>0, <2>1, <2>2, FiniteAssumption, TotalAdd
    <2> QED
      BY <1>0, <2>1, <2>3 DEF PrincipalBacked
  <1>5. ASSUME NEW a \in Account, NEW x \in Amounts,
               deposit(a, x) \/ withdraw(a, x) \/ BrltBurn(a, x) \/ ShareBurn(a, x)
        PROVE  UNCHANGED <<total_principal, disbursed>>
    BY <1>5 DEF deposit, withdraw, BrltBurn, ShareBurn, poolUnchanged, poolState
  <1>6. ASSUME NEW c \in Staff, NEW op \in Staff, pause(c) \/ unpause(c) \/ set_operator(c, op)
        PROVE  UNCHANGED <<total_principal, disbursed>>
    BY <1>6 DEF pause, unpause, set_operator
  <1>7. ASSUME NEW to \in Address, NEW x \in Amounts, BrltMint(to, x)
        PROVE  UNCHANGED <<total_principal, disbursed>>
    BY <1>7 DEF BrltMint, poolUnchanged, poolState
  <1>8. ASSUME NEW a \in Account, NEW to \in Address, NEW x \in Amounts,
               BrltTransfer(a, to, x) \/ ShareTransfer(a, to, x)
        PROVE  UNCHANGED <<total_principal, disbursed>>
    BY <1>8 DEF BrltTransfer, ShareTransfer, poolUnchanged, poolState
  <1>9. CASE DeployTokens \/ UNCHANGED vars
    BY <1>1, <1>9 DEF DeployTokens, poolUnchanged, poolState, vars
  <1> QED
    BY <1>1, <1>2, <1>3, <1>4, <1>5, <1>6, <1>7, <1>8, <1>9 DEF Next

\* The pool never books more principal than the BRLT it has paid out for the
\* invoices it bought.
THEOREM PrincipalIsBacked == Spec => []PrincipalBacked
  <1>1. PrincipalIInv => PrincipalBacked
    BY DEF PrincipalIInv
  <1> QED
    BY <1>1, PrincipalInit, PrincipalNext, PTL DEF Spec
=============================================================================
