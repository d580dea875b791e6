----------------------------- MODULE LBPCommon -----------------------------
(***************************************************************************)
(* contracts/lbp/LBPCommon.sol: what the two liquidity bootstrapping pools *)
(* share.  A pool sells a project token for a reserve token between two    *)
(* times fixed at deployment.  Its owner funds it before the sale through  *)
(* a router that reports the caller; the hooks decide when liquidity moves.*)
(* LBPool and FixedPriceLBPool add the price.                              *)
(*                                                                         *)
(* External: the Vault's proportional liquidity operations and minimum     *)
(* supply, the pool token, the router, and OpenZeppelin's Ownable2Step.    *)
(***************************************************************************)
EXTENDS Integers

CONSTANTS
    Accounts,              \* externally owned accounts
    NoOne,                 \* the zero address
    InitializationPeriod,  \* LBPValidation.INITIALIZATION_PERIOD (1 hour)
    MinSupply,             \* pool tokens the Vault locks at initialization
    MaxFunds,              \* model bound: most of a token the pool is funded with
    Horizon                \* model bound: the last timestamp

ASSUME AccountAssumption == NoOne \notin Accounts
ASSUME PeriodAssumption == InitializationPeriod \in Nat \ {0}
ASSUME SupplyAssumption == MinSupply \in Nat \ {0}
ASSUME BoundAssumption == MaxFunds \in Nat /\ Horizon \in Nat

VARIABLES
    now,           \* block.timestamp
    sale,          \* the immutable parameters of the pool
    owner,         \* Ownable
    pendingOwner,  \* Ownable2Step
    live,          \* the Vault has initialized the pool
    project,       \* the pool's balance of the project token
    reserve,       \* the pool's real balance of the reserve token
    supply,        \* totalSupply of the pool token
    bpt            \* its balances

ownership == <<owner, pendingOwner>>
balances == <<project, reserve>>
shares == <<supply, bpt>>
vars == <<now, sale, owner, pendingOwner, live, project, reserve, supply, bpt>>

Holders == Accounts \union {NoOne}

-----------------------------------------------------------------------------

\* LBPValidation: the sale starts a period after deployment and does not end
\* before it starts.
ValidTimes(startTime, endTime, deployed) ==
    startTime >= deployed + InitializationPeriod /\ startTime <= endTime

\* The modifier onlyBeforeSale.
BeforeSale == now < sale.startTime

\* Fault: the last second of the sale is taken for its end.
RemovalBlockedTooShort == now >= sale.startTime /\ now < sale.endTime

\* Fault: the first second of the sale is taken for the time before it.
RemovalBlockedTooLate == now > sale.startTime /\ now <= sale.endTime

\* onBeforeRemoveLiquidity's condition for a revert.
RemovalBlocked == now >= sale.startTime /\ now <= sale.endTime

\* _isSwapEnabled
IsSwapEnabled == now >= sale.startTime /\ now <= sale.endTime

\* The router's getSender: the caller of the operation in progress on it, and
\* the zero address when the operation came through another router.
GetSender(caller, viaTrustedRouter) == IF viaTrustedRouter THEN caller ELSE NoOne

\* What deployment leaves; the pools give their own fields of sale.
InitCommon == /\ now = 0
              /\ owner \in Accounts
              /\ pendingOwner = NoOne
              /\ live = FALSE
              /\ project = 0
              /\ reserve = 0
              /\ supply = 0
              /\ bpt = [a \in Holders |-> 0]

-----------------------------------------------------------------------------
(* Liquidity. *)

DivUp(a, b) == (a + b - 1) \div b

\* Initialization mints the invariant of the amounts, less what is locked.
Mint(caller, invariant) ==
    /\ invariant >= MinSupply
    /\ supply' = invariant
    /\ bpt' = [bpt EXCEPT ![NoOne] = MinSupply,
                          ![caller] = invariant - MinSupply]

Initialize(caller, viaTrustedRouter, projectIn, reserveIn, invariant) ==
    /\ ~live
    /\ BeforeSale
    /\ GetSender(caller, viaTrustedRouter) = owner
    /\ live' = TRUE
    /\ project' = projectIn
    /\ reserve' = reserveIn
    /\ Mint(caller, invariant)
    /\ UNCHANGED <<now, sale, ownership>>

\* onBeforeAddLiquidity, then a proportional add by the Vault: each token in
\* the pool's proportions, rounded up.
AddLiquidity(caller, viaTrustedRouter, amount) ==
    /\ live
    /\ BeforeSale
    /\ viaTrustedRouter
    /\ caller = owner
    /\ project' = project + DivUp(project * amount, supply)
    /\ reserve' = reserve + DivUp(reserve * amount, supply)
    /\ supply' = supply + amount
    /\ bpt' = [bpt EXCEPT ![caller] = @ + amount]
    /\ UNCHANGED <<now, sale, ownership, live>>

\* onBeforeRemoveLiquidity, then a proportional removal, rounded down.
RemoveLiquidity(caller, amount) ==
    /\ live
    /\ ~RemovalBlocked
    /\ amount <= bpt[caller]
    /\ project' = project - (project * amount) \div supply
    /\ reserve' = reserve - (reserve * amount) \div supply
    /\ supply' = supply - amount
    /\ bpt' = [bpt EXCEPT ![caller] = @ - amount]
    /\ UNCHANGED <<now, sale, ownership, live>>

\* The pool token is an ordinary token: all of it may change hands.
TransferShares(from, to) ==
    /\ from # to
    /\ bpt[from] > 0
    /\ bpt' = [bpt EXCEPT ![from] = 0, ![to] = @ + bpt[from]]
    /\ UNCHANGED <<now, sale, ownership, live, balances, supply>>

-----------------------------------------------------------------------------
(* Ownable2Step: a new owner has to accept; the owner may renounce. *)

TransferOwnership(newOwner) ==
    /\ owner # NoOne
    /\ pendingOwner' = newOwner
    /\ UNCHANGED <<now, sale, owner, live, balances, shares>>

AcceptOwnership ==
    /\ pendingOwner # NoOne
    /\ owner' = pendingOwner
    /\ pendingOwner' = NoOne
    /\ UNCHANGED <<now, sale, live, balances, shares>>

RenounceOwnership ==
    /\ owner # NoOne
    /\ owner' = NoOne
    /\ pendingOwner' = NoOne
    /\ UNCHANGED <<now, sale, live, balances, shares>>

Ownership == \/ \E a \in Holders : TransferOwnership(a)
             \/ AcceptOwnership
             \/ RenounceOwnership

Tick == /\ now < Horizon
        /\ now' = now + 1
        /\ UNCHANGED <<sale, ownership, live, balances, shares>>

-----------------------------------------------------------------------------

TypeOKCommon == /\ now \in 0..Horizon
                /\ owner \in Holders
                /\ pendingOwner \in Holders
                /\ live \in BOOLEAN
                /\ project \in Nat
                /\ reserve \in Nat
                /\ supply \in Nat
                /\ bpt \in [Holders -> Nat]

\* From the first second of the sale to the last, no liquidity is added or
\* removed: the tokens on sale are those that were there when it started.
NoLiquidityChangeInSale ==
    [][live /\ IsSwapEnabled => supply' = supply]_vars

\* Funding: whoever holds shares when the pool goes live is the pool's owner.
FundedByOwner ==
    [][~live /\ live' => \A a \in Accounts : bpt'[a] > 0 => a = owner]_vars
=============================================================================
