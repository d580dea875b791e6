--------------------------- MODULE CowSettlement ---------------------------
(***************************************************************************)
(* contracts/cow: a solver swaps against a CowPool and donates surplus to  *)
(* it through CowRouter, inside one unlock of the Vault.                   *)
(*                                                                         *)
(* A call of the router is a transaction of several steps: the swap, the   *)
(* donation and the credit check, then for each token in registration      *)
(* order the settlement with the Vault.  A token that notifies whoever     *)
(* receives it hands control to the solver after each payment, and from    *)
(* there withdrawCollectedProtocolFees, a transfer to the Vault and        *)
(* refreshTrustedCowRouter, all open to anyone, run inside the transaction.*)
(* A transaction works on a copy of the ledger: it commits the copy when   *)
(* every Vault delta is zero, or reverts and drops it.                     *)
(* Between transactions anyone adds liquidity to the pool and removes it,  *)
(* through any router.  Not modelled: a call of the Vault or of a router   *)
(* from within an order's callback.                                        *)
(*                                                                         *)
(* The Vault (unlock, swap, addLiquidity, settle, sendTo) is external to   *)
(* the repository and modelled by what the router relies on.               *)
(***************************************************************************)
EXTENDS Integers, FiniteSets

CONSTANTS
    NumTokens,      \* tokens of the pool, in registration order
    FeeOne,         \* FixedPoint.ONE, the unit of fee percentages
    Routers,        \* CoW routers governance may trust
    ThisRouter,     \* the router modelled here
    Sweepers,       \* possible fee sweepers
    MaxSwap,        \* model bound: largest amount of a swap
    MaxDonation,    \* model bound: largest donation of a token
    MaxHint,        \* model bound: largest transfer hint of a token
    LpParts,        \* model bound: equal parts of the supply providers deal in
    MaxPool,        \* model bound: largest pool balance after a deposit
    SolverFunds,    \* model bound: what the solver starts with, per token
    PoolFunds       \* model bound: what the pool starts with, per token

ASSUME TokensAssumption == NumTokens \in Nat /\ NumTokens >= 2
ASSUME FeeAssumption == FeeOne \in Nat \ {0}
ASSUME RouterAssumption == ThisRouter \in Routers
ASSUME AmountAssumption == /\ MaxSwap \in Nat
                           /\ MaxDonation \in Nat
                           /\ MaxHint \in Nat
                           /\ SolverFunds \in Nat
                           /\ PoolFunds \in Nat
ASSUME PartsAssumption == LpParts \in Nat \ {0} /\ MaxPool \in Nat

Tokens == 1..NumTokens
NoTx == [open |-> FALSE]
Zero == [t \in Tokens |-> 0]

VARIABLES
    led,            \* the committed ledger
    tx,             \* the transaction in progress
    feePercentage,  \* CowRouter._protocolFeePercentage
    feeSweeper,     \* CowRouter._feeSweeper
    factoryRouter   \* CowPoolFactory._trustedCowRouter

config == <<feePercentage, feeSweeper, factoryRouter>>
vars == <<led, tx, feePercentage, feeSweeper, factoryRouter>>

(***************************************************************************)
(* A ledger holds, for each token,                                         *)
(*   solver, vault, router, swept[s]: the ERC-20 balances,                 *)
(*   reserves:  what the Vault believes it holds,                          *)
(*   pool:      the part of the reserves that belongs to the pool,         *)
(*   collected: CowRouter._collectedProtocolFees,                          *)
(* and trusted: CowPool._trustedCowRouter, a copy of the factory's.        *)
(***************************************************************************)

-----------------------------------------------------------------------------
(* The Vault, on a ledger l and the deltas d of an unlock (positive: owed). *)

\* What was sent to the Vault and not yet settled.
Unsettled(l, t) == l.vault[t] - l.reserves[t]

Lesser(a, b) == IF a <= b THEN a ELSE b

\* Vault.settle: the credit is what arrived, but no more than the hint; what
\* arrived above the hint joins the reserves and belongs to no one.
VaultSettle(x, t, hint) ==
    [x EXCEPT !.work.reserves[t] = x.work.vault[t],
              !.delta[t] = @ - Lesser(Unsettled(x.work, t), hint)]

\* Vault.sendTo: to is a field of the ledger.
VaultSendToRouter(x, t, amount) ==
    [x EXCEPT !.work.reserves[t] = @ - amount,
              !.work.vault[t] = @ - amount,
              !.work.router[t] = @ + amount,
              !.delta[t] = @ + amount]

VaultSendToSolver(x, t, amount) ==
    [x EXCEPT !.work.reserves[t] = @ - amount,
              !.work.vault[t] = @ - amount,
              !.work.solver[t] = @ + amount,
              !.delta[t] = @ + amount]

\* Vault.swap and Vault.addLiquidity(DONATION) change the pool's balances and
\* the deltas by the same amounts; no token moves yet.
VaultPoolChange(x, in, out) ==
    [x EXCEPT !.work.pool = [t \in Tokens |-> @[t] + in[t] - out[t]],
              !.delta = [t \in Tokens |-> @[t] + in[t] - out[t]]]

-----------------------------------------------------------------------------
(* CowRouter. *)

\* FixedPoint.mulUp by a percentage.
MulUp(amount, percentage) == (amount * percentage + FeeOne - 1) \div FeeOne

MaxProtocolFeePercentage == FeeOne \div 2

ProtocolFee(amount) == MulUp(amount, feePercentage)

Fees(amounts) == [t \in Tokens |-> ProtocolFee(amounts[t])]

\* Fault: the fee comes on top of the donation.
DonatedBeforeFees(amounts) == amounts

\* What reaches the pool of a donation.
Donated(amounts) == [t \in Tokens |-> amounts[t] - Fees(amounts)[t]]

\* _donateToPool on every token: fees are recorded before they are paid.
DonateToPool(x, amounts) ==
    [VaultPoolChange(x, Donated(amounts), Zero) EXCEPT
        !.work.collected = [t \in Tokens |-> @[t] + Fees(amounts)[t]],
        !.gift = amounts,
        !.fees = Fees(amounts),
        !.donated = Donated(amounts)]

DonationReachesPool(amounts) == \E t \in Tokens : Donated(amounts)[t] > 0

\* CowPool.onBeforeSwap and onBeforeAddLiquidity, asked for a swap or a
\* donation of this router; other liquidity operations any router may do.
PoolTrustsRouter == led.trusted = ThisRouter

\* _settleSwapAndDonation: what the solver has put in, and what it owes.
SenderCredits(x) == [t \in Tokens |-> x.hints[t] + x.out[t]]

\* Fault: the fees are forgotten.
SenderDebtsLessFees(x) == [t \in Tokens |-> x.donated[t] + x.in[t]]

SenderDebts(x) == [t \in Tokens |-> x.donated[t] + x.fees[t] + x.in[t]]

\* A transaction that has just unlocked the Vault.
Opened(in, out, hints) ==
    [open |-> TRUE, work |-> led, delta |-> Zero, in |-> in, out |-> out,
     hints |-> hints, gift |-> Zero, fees |-> Zero, donated |-> Zero, credits |-> Zero,
     next |-> 1, notified |-> FALSE,
     funded |-> \A t \in Tokens : Unsettled(led, t) >= hints[t]]

\* swapExactInAndDonateSurplus and swapExactOutAndDonateSurplus, up to the
\* settlement: the two differ in which amount the Vault computes and limits.
SwapAndDonate(tokenIn, tokenOut, amountIn, amountOut, donations, hints, expired) ==
    LET in == [Zero EXCEPT ![tokenIn] = amountIn]
        out == [Zero EXCEPT ![tokenOut] = amountOut]
        x == DonateToPool(VaultPoolChange(Opened(in, out, hints), in, out), donations)
    IN  /\ ~tx.open
        /\ ~expired
        /\ PoolTrustsRouter
        /\ tokenIn # tokenOut
        /\ amountIn > 0 /\ amountOut > 0
        /\ amountOut <= led.pool[tokenOut]
        /\ \A t \in Tokens : SenderCredits(x)[t] >= SenderDebts(x)[t]
        /\ tx' = [x EXCEPT !.credits =
                     [t \in Tokens |-> SenderCredits(x)[t] - SenderDebts(x)[t]]]
        /\ UNCHANGED <<led, config>>

\* donate: the donations are taken as the hints, and nothing is returned.
Donate(donations) ==
    /\ ~tx.open
    /\ DonationReachesPool(donations) => PoolTrustsRouter
    /\ tx' = DonateToPool(Opened(Zero, Zero, donations), donations)
    /\ UNCHANGED <<led, config>>

\* One round of the loop of _settleDonation, for the next token.
Settled(x) ==
    LET t == x.next
        y == IF x.hints[t] > 0 THEN VaultSettle(x, t, x.hints[t]) ELSE x
        z == IF x.fees[t] > 0 THEN VaultSendToRouter(y, t, x.fees[t]) ELSE y
        u == IF x.credits[t] > 0 THEN VaultSendToSolver(z, t, x.credits[t]) ELSE z
    IN  [u EXCEPT !.next = t + 1, !.notified = x.credits[t] > 0]

\* The Vault cannot send what its reserves do not hold.
CanSettle(x) ==
    x.next \in Tokens /\ Settled(x).work.reserves[x.next] >= 0

SettleToken == /\ tx.open
               /\ CanSettle(tx)
               /\ tx' = Settled(tx)
               /\ UNCHANGED <<led, config>>

\* The end of unlock: every delta must be zero.
Balanced(x) == x.next \notin Tokens /\ x.delta = Zero

Commit == /\ tx.open
          /\ Balanced(tx)
          /\ led' = tx.work
          /\ tx' = NoTx
          /\ UNCHANGED config

Revert == /\ tx.open
          /\ ~Balanced(tx)
          /\ ~CanSettle(tx)
          /\ tx' = NoTx
          /\ UNCHANGED <<led, config>>

\* Fault: the record of what was withdrawn stays.
WithdrawnUnrecorded(l, t) ==
    [l EXCEPT !.router[t] = @ - l.collected[t],
              !.swept[feeSweeper][t] = @ + l.collected[t]]

\* withdrawCollectedProtocolFees on a ledger: the record is cleared, then the
\* tokens move.
Withdrawn(l, t) == [l EXCEPT !.collected[t] = 0,
                             !.router[t] = @ - l.collected[t],
                             !.swept[feeSweeper][t] = @ + l.collected[t]]

\* Fault: the record is taken for the balance.
CanWithdrawRecorded(l, t) == l.collected[t] > 0

\* The transfer fails when the router does not hold the amount.
CanWithdraw(l, t) == l.collected[t] > 0 /\ l.router[t] >= l.collected[t]

WithdrawFees(t) ==
    /\ \/ /\ ~tx.open
          /\ CanWithdraw(led, t)
          /\ led' = Withdrawn(led, t)
          /\ UNCHANGED tx
       \/ /\ tx.open /\ tx.notified
          /\ CanWithdraw(tx.work, t)
          /\ tx' = [tx EXCEPT !.work = Withdrawn(tx.work, t)]
          /\ UNCHANGED led
    /\ UNCHANGED config

\* The solver's plain transfer of one unit to the Vault.
Sent(l, t) == [l EXCEPT !.solver[t] = @ - 1, !.vault[t] = @ + 1]

Fund(t) ==
    /\ \/ /\ ~tx.open
          /\ led.solver[t] > 0
          /\ led' = Sent(led, t)
          /\ UNCHANGED tx
       \/ /\ tx.open /\ tx.notified
          /\ tx.work.solver[t] > 0
          /\ tx' = [tx EXCEPT !.work = Sent(tx.work, t)]
          /\ UNCHANGED led
    /\ UNCHANGED config

-----------------------------------------------------------------------------
(* Liquidity providers, through any router: the hook refuses donations only, *)
(* and the factory disables unbalanced operations.                           *)

PartUp(amount, n) == (amount * n + LpParts - 1) \div LpParts
PartDown(amount, n) == (amount * n) \div LpParts

\* A proportional addition of n parts.  Each amount is settled with itself as
\* the hint: what else had arrived of that token joins the reserves.
Joined(l, n) ==
    LET in == [t \in Tokens |-> PartUp(l.pool[t], n)]
    IN  [l EXCEPT !.pool = [t \in Tokens |-> @[t] + in[t]],
                  !.vault = [t \in Tokens |-> @[t] + in[t]],
                  !.reserves = [t \in Tokens |->
                      IF in[t] > 0 THEN l.vault[t] + in[t] ELSE @[t]]]

\* A proportional removal of n parts.
Left(l, n) ==
    LET out == [t \in Tokens |-> PartDown(l.pool[t], n)]
    IN  [l EXCEPT !.pool = [t \in Tokens |-> @[t] - out[t]],
                  !.vault = [t \in Tokens |-> @[t] - out[t]],
                  !.reserves = [t \in Tokens |-> @[t] - out[t]]]

AddLiquidity(n) ==
    /\ ~tx.open
    /\ \A t \in Tokens : led.pool[t] + PartUp(led.pool[t], n) <= MaxPool
    /\ led' = Joined(led, n)
    /\ UNCHANGED <<tx, config>>

RemoveLiquidity(n) ==
    /\ ~tx.open
    /\ led' = Left(led, n)
    /\ UNCHANGED <<tx, config>>

-----------------------------------------------------------------------------
(* Governance, and the router a pool trusts. *)

SetProtocolFeePercentage(p) ==
    /\ ~tx.open
    /\ p <= MaxProtocolFeePercentage
    /\ feePercentage' = p
    /\ UNCHANGED <<led, tx, feeSweeper, factoryRouter>>

\* The zero address is not one of Sweepers.
SetFeeSweeper(s) ==
    /\ ~tx.open
    /\ feeSweeper' = s
    /\ UNCHANGED <<led, tx, feePercentage, factoryRouter>>

\* CowPoolFactory.setTrustedCowRouter: pools keep the router they copied.
SetTrustedCowRouter(r) ==
    /\ ~tx.open
    /\ factoryRouter' = r
    /\ UNCHANGED <<led, tx, feePercentage, feeSweeper>>

\* CowPool.refreshTrustedCowRouter, open to anyone.
RefreshTrustedCowRouter ==
    /\ \/ /\ ~tx.open
          /\ led' = [led EXCEPT !.trusted = factoryRouter]
          /\ UNCHANGED tx
       \/ /\ tx.open /\ tx.notified
          /\ tx' = [tx EXCEPT !.work.trusted = factoryRouter]
          /\ UNCHANGED led
    /\ UNCHANGED config

-----------------------------------------------------------------------------

\* Model bound: an order donates one of the tokens.
Donations == {d \in [Tokens -> 0..MaxDonation] :
                 Cardinality({t \in Tokens : d[t] > 0}) <= 1}

\* Model bound: the hints of two tokens add up to no more than one may have.
Hints == {h \in [Tokens -> 0..MaxHint] :
              \A t, u \in Tokens : t # u => h[t] + h[u] <= MaxHint}

\* CowPoolFactory.create hands the new pool the router it trusts.
Init == /\ led = [solver |-> [t \in Tokens |-> SolverFunds],
                  vault |-> [t \in Tokens |-> PoolFunds],
                  reserves |-> [t \in Tokens |-> PoolFunds],
                  pool |-> [t \in Tokens |-> PoolFunds],
                  router |-> Zero, collected |-> Zero,
                  swept |-> [s \in Sweepers |-> Zero],
                  trusted |-> ThisRouter]
        /\ tx = NoTx
        /\ feePercentage \in 0..MaxProtocolFeePercentage
        /\ feeSweeper \in Sweepers
        /\ factoryRouter = ThisRouter

Next == \/ \E tokenIn, tokenOut \in Tokens, amountIn, amountOut \in 0..MaxSwap,
              donations \in Donations, hints \in Hints, expired \in BOOLEAN :
               SwapAndDonate(tokenIn, tokenOut, amountIn, amountOut,
                             donations, hints, expired)
        \/ \E donations \in Donations : Donate(donations)
        \/ SettleToken
        \/ Commit
        \/ Revert
        \/ \E t \in Tokens : WithdrawFees(t) \/ Fund(t)
        \/ \E n \in 1..LpParts : AddLiquidity(n)
        \/ \E n \in 1..(LpParts - 1) : RemoveLiquidity(n)
        \/ \E p \in 0..FeeOne : SetProtocolFeePercentage(p)
        \/ \E s \in Sweepers : SetFeeSweeper(s)
        \/ \E r \in Routers : SetTrustedCowRouter(r)
        \/ RefreshTrustedCowRouter

Spec == Init /\ [][Next]_vars

-----------------------------------------------------------------------------

Ledgers == [solver : [Tokens -> Nat], vault : [Tokens -> Nat],
            reserves : [Tokens -> Nat], pool : [Tokens -> Nat],
            router : [Tokens -> Nat], collected : [Tokens -> Nat],
            swept : [Sweepers -> [Tokens -> Nat]], trusted : Routers]

\* Every balance is natural, in the ledger and in the transaction's copy: no
\* checked subtraction of the router or the Vault would underflow.
TypeOK == /\ led \in Ledgers
          /\ tx.open \in BOOLEAN
          /\ tx.open => /\ tx.work \in Ledgers
                        /\ tx.delta \in [Tokens -> Int]
                        /\ tx.credits \in [Tokens -> Nat]
                        /\ tx.next \in 1..(NumTokens + 1)
          /\ feePercentage \in 0..MaxProtocolFeePercentage
          /\ feeSweeper \in Sweepers
          /\ factoryRouter \in Routers

\* The router holds every fee it has recorded, less those the transaction in
\* progress has recorded and not yet been paid: withdrawing fees in the middle
\* of a settlement pays no one with another token's or a later caller's money.
RouterSolvent ==
    /\ \A t \in Tokens : led.router[t] >= led.collected[t]
    /\ tx.open => \A t \in Tokens :
           tx.work.router[t] + (IF t >= tx.next THEN tx.fees[t] ELSE 0)
               >= tx.work.collected[t]

\* An order whose transfers had arrived never fails after the credit check:
\* what _settleSwapAndDonation computes is what the Vault's deltas ask for.
FundedOrdersSettle == tx.open /\ tx.funded => CanSettle(tx) \/ Balanced(tx)

\* What is neither the solver's nor another's: stuck above the pool's share.
Stuck(l, t) == l.reserves[t] - l.pool[t]
Purse(l, t) == l.solver[t] + Unsettled(l, t)

Paid(l, t) == l.collected[t] + l.swept[feeSweeper][t]

\* A committed order has moved exactly what it names: the pool has the swap and
\* the donation less the fee, the fee is collected or already swept, and the
\* solver paid nothing beyond the order except what it sent above its hints,
\* stuck in the Vault.
OrderSettledExactly ==
    [][tx.open /\ led' # led =>
        \A t \in Tokens :
            LET fee == ProtocolFee(tx.gift[t])
            IN  /\ led'.pool[t] =
                       led.pool[t] + tx.in[t] - tx.out[t] + tx.gift[t] - fee
                /\ Paid(led', t) = Paid(led, t) + fee
                /\ Purse(led', t) + Stuck(led', t) =
                       Purse(led, t) + Stuck(led, t)
                           - tx.in[t] + tx.out[t] - tx.gift[t]
                /\ Stuck(led', t) >= Stuck(led, t)]_vars
=============================================================================
