# Bush pool factories: specifications, checks and proofs

TLA+ specifications of this repository's contracts (`contracts/`), of the
TypeScript port of their mathematics (`maths/typescript`), and of the tools
around them: the checker that compares maths with contracts (`maths/check`), the
scaffolding scripts and the live check (`scripts/`). With them, the TLC
configurations that check them on small instances, and TLAPS proofs of what holds
on every instance. The Vault, the permission system, OpenZeppelin and the
fixed-point libraries live in other packages; they appear here only as far as
the contracts rely on them, and `PROJECT.json` marks each such definition as
external.

## 1. Inventory

A *pool* is a contract the Vault calls back: the Vault holds all tokens, asks the
pool for prices (`onSwap`) and for permission (hooks), and keeps the books. A
*factory* deploys pools and registers them. Time is `block.timestamp`; many
transactions share one value of it. A transaction either commits or leaves no
trace, but within it control may pass to other contracts.

| Component (contracts/) | State | Operations | Talks to | Hard behaviour | What makes it correct |
| --- | --- | --- | --- | --- | --- |
| `stable/StablePool` | `_amplificationState`: two values, two times | start and stop an update; every swap reads the interpolated value | Vault, manager or governance | updates stopped half way and restarted from unchecked values; unchecked arithmetic; rate relative to the first value but ramp linear; calls between two swaps of a block | value within limits; arithmetic never wraps; bounded movement per day; only time moves the value; updates end |
| `cow/CowRouter` | collected fees per token, fee percentage, sweeper | swap and donate, donate, withdraw fees, setters | Vault (unlock, swap, addLiquidity, settle, sendTo), pools, tokens, solver | fees recorded before they are paid; tokens that notify the solver in mid-settlement; hints against what arrived | router always holds what it recorded; orders settle exactly; a funded order does not fail |
| `cow/CowPool`, `cow/CowPoolFactory` | copy of the trusted router; the factory's own | create, set router, refresh (anyone) | Vault hooks | copies that are stale, refreshed within an order; liquidity through any router between orders | only a trusted router swaps or donates; a refresh within an order that has passed the check does not break it |
| `lbp/LBPCommon` | immutable times and tokens; owner and pending owner | hooks for initialize, add, remove, swaps; ownership | Vault, trusted router | inclusive boundaries; transferable shares; owner gone before funding | no liquidity moves in a sale; proceeds stay until its end |
| `lbp/FixedPriceLBPool` | rate | initialize, buy exact in or out | as above | rounding in two directions | buyers pay the rate, within one unit |
| `lbp/LBPool`, `GradualValueChange` | weights over time, virtual reserve balance | initialize, buy and sell, exact in or out | as above, `WeightedPool` | two rounded steps of interpolation; a balance that prices but cannot be paid | weights valid; curve never falls; virtual balance never paid |
| `stable-surge` (hook, median library) | maximum fee and threshold per pool | fee of a swap; after add, after remove; setters | Vault, the pool's `onSwap` for an estimate | estimates without the fee; settings that would underflow; rounding of the median | a defined fee between static and maximum, growing with imbalance; liquidity feeds the surge by roundings and unseen fees at most |
| `reclamm/ReClammPool`, `ReClammMath` | two virtual balances, last timestamp, price ratio update, margin, shift exponent | initialize, swap, add, remove, start and stop an update, setters | Vault, rate providers | lazy recomputation, frozen within a block; updates ahead, in progress, or over before anyone looks; parameters charged from when on | the lazy range moves like a continuous one; managing moves nothing; updates arrive; only trades leave the target range |
| `reclamm/ReClammPoolHelper`, `ReClammPoolFactory` | none | initial balances and virtual balances, validation | Vault rates | rounding between two computations of one price | not modelled |
| `weighted/WeightedPool`, its factories | none after deployment | swaps; 80/20 deterministic addresses | Vault | minimum balances | in `LBPool` and `WeightedMaths`; factories not modelled |
| `stable/StablePoolFactory`, `stable-surge/StableSurgePoolFactory` | none | create | Vault | none beyond deployment | not modelled |
| `_template/ConstantSumPool` | none | swaps | Vault | rounding | its curve is in `LinearMaths` |
| `maths/typescript/src` | none: a pool's state is handed in | swap, add and remove liquidity, wrap, donate; the largest swap and removal | pool classes, hooks | a rounding direction for each quantity; formulas computed twice (a limit here, its check there); raw and scaled units side by side | no sequence of operations pays; shares are not diluted; limits agree with what they limit; hooks see what the operation leaves |
| `maths/python`, `maths/rust` | none | line-by-line translations of the TypeScript | | | not modelled; whether they agree is what `maths/check` tests |
| `maths/check` | test data per adapter and variant | generate (`run.ts`), check (`check.ts`) | contracts on a local chain, one runner per language | a generation cut short; variants dropped; edits while it runs; languages without the pool or without a toolchain; names that begin with another's | on current data the check passes exactly when contracts and maths agree, in the languages that ran and for the adapters whose files it finds |
| `scripts/new-factory.js`, `scripts/new-hook.js` | contracts, maths, adapters, docs; the registries of the runners | plan, ask, refuse, write files, edit registries | developers, `maths/check` | killed between two writes; whole registries rewritten from planned texts; names shared by pools and hooks | what is registered exists; keys are unique; nothing is overwritten |
| `scripts/live/check.ts` | its own directory of data | select factories, create pools, replay; compare bytecodes | deployments file, forked chain, `maths/check` | exceptions of single variants; names that must match file names; nothing selected | a passing check has compared what it selected, in the languages that ran |
| other scripts | none | a calculator, an import generator | | | not modelled |
| `contracts/test`, `test/` | | mocks and tests | | | not modelled; read as evidence |

The hazards this list leads to, line by line, are in `PROJECT.json`.

## 2. Modules

    Ramp                        abstract: a value that only time moves
     |- StableAmplification       implements Ramp  -> StableAmplification_proofs
     |- LBPool                    implements Ramp  -> LBPool_proofs
    LBPCommon
     |- FixedPriceLBPool
     |- LBPool
    CowSettlement               -> MCCowSettlement, CowSettlement_proofs
    StableSurgeHook             -> StableSurgeHook_proofs
    ReClammRange                -> ReClammRange_proofs
    RampArithmetic              lemmas all these proofs use

    FixedPoint                  arithmetic of maths/typescript
     |- StableMaths, WeightedMaths, LinearMaths, ReClammMaths    pool classes
     `- PoolMaths                 one interface to all of them
         `- BasePoolMaths         liquidity operations
             `- VaultMaths        vault.ts, and the surge hook
                 `- MathsVault    a pool traded at these prices
                     `- ClosedPools   pools of closed form  -> MCMathsVault, MathsVault_proofs
    Scaffold                    the scaffolding scripts
     `- MathsCheck                test data and its check, beside scaffolding
         `- LiveCheck             the live check beside both  -> Tooling_proofs, MCTooling

**Ramp** says what any gradual change of these contracts promises: the value is
wherever it is; an owner may name a target and a deadline, or freeze the value
where it is; only time moves the value, only towards the target, and at the
deadline it is there. `StableAmplification` and `LBPool` instantiate it with the
value they compute, and check it as a property.

**StableAmplification** (`stable/StablePool.sol:84-380`). Variables: `now` and
`amp`, the stored `AmplificationState`. `StartUpdate` and `StopUpdate` are the
two external functions with their reverts as guards, `Tick` is the next block.
Access control is left out: what the manager may do at the wrong time is exactly
what the properties are about.

**CowSettlement** (`cow/`). `led` is the committed ledger: balances of solver,
Vault, router and sweepers, the Vault's reserves, the pool's share of them, the
router's record of fees and the pool's trusted router. `tx` is the transaction
in progress, a copy of the ledger with the Vault's deltas. `SwapAndDonate` and
`Donate` run up to the settlement, `SettleToken` is one round of its loop,
`Commit` and `Revert` end it. After a payment to the solver `tx.notified` holds,
and the calls that are open to anyone (`WithdrawFees`, `Fund`,
`RefreshTrustedCowRouter`) act on the copy. `SwapAndDonate` takes both amounts as
given: which one the Vault computes, and the limit, are the Vault's affair. The hook asks
for the router of swaps and donations only, and unbalanced operations are disabled: between
transactions providers add and remove parts of the supply (`AddLiquidity`,
`RemoveLiquidity`), which settle with the Vault too, and so draw what a solver has sent ahead
into the reserves. Calls of the Vault or of a router from within a callback are not
modelled. They would matter: a deposit there takes funds sent ahead for a token
not yet settled, and the order fails.

**LBPCommon**, **FixedPriceLBPool**, **LBPool** (`lbp/`). `sale` holds the
immutables. The trusted router reports its caller, and nobody when the operation
came through another router (`GetSender`). Initialization, proportional adds and
removes, share transfers and `Ownable2Step` are actions of `LBPCommon`; the two
pools add price and initialization. `LBPool` computes the weighted curve as
balance^weight (`Power`) with integer weights that add up to `One`; a trade is the
largest output or smallest input that does not lower it, with the extra unit of input
balance that `WeightedPool.onSwap` rounds up by. Swap fees are left out: they
stay in the pool and only help the properties.

**StableSurgeHook** (`stable-surge/`). `balances` are the Vault's live balances
of one pool. A swap is the hook's estimate, the fee it leads to, and the swap
itself: for an exact amount in the pool answers again, for less and with no more;
for an exact amount out the estimate stands and the fee is added. The stable curve
is not computed: a payment may be anything between those of a constant product and
a constant sum. Of a fee the Vault may take any part out of the pool. An unbalanced addition or
removal (of one token) goes through the hook as in the code, which computes the balances before it
back from those after it and so misses what was taken of the fee. A proportional one leads from any
number of shares to any other, rounded, and passes unseen. The Vault's fee on liquidity that is
removed in the session it was added in is left out. The sort in `_findMedian` is kept by what it yields: `Ranked(b, k)` is
the balance that stands at place `k` of the sorted array.

**ReClammRange** (`reclamm/`). A range is described by the logarithm of the ratio
of its ends and by the place of the pool in it, in whole steps; the powers, roots
and quadratic formulas of `ReClammMath` become sums. `RatioAt` and `PositionAt`
are what `computeCurrentVirtualBalances` leads to at a time; every handler stores
them and the time (`UpdateVirtualBalances`), after or before its own change as in
the code. `Unlock` and `Lock` bracket a session of the Vault, which the setters
refuse and the price ratio updates do not. A trade puts the pool anywhere and may
widen the range by the fee it leaves. A rate provider widens or narrows it by a step at a time
(`ReClammMath.sol:708-718` reads live balances), without storing anything, and so may the fee on
liquidity that goes in the session it came in (`RoundTrip`, `ReClammPool.sol:363-369`). `disturbed`
remembers, as history, whether a fee or a rate has moved the ratio since the update was over.

**FixedPoint** (`maths/typescript/src/utils`, `vault/utils.ts`) has the
primitives: products and quotients with a direction, square root, powers, and the
conversion between raw and scaled amounts. `Wad`, 10^18 in the code, is a constant, so
that TLC computes with a coarse price scale on which every rounding is large. Whatever
throws has the value `Thrown`. `LogExpMath.pow` is replaced by the value it approximates,
rounded down, for the exponents that occur; the error margins around it are those of
the code. The width of 256 bits is left out: bigints have none.

**StableMaths**, **WeightedMaths**, **LinearMaths** and **ReClammMaths** are the pool
classes (stable; weighted and the sale; constant sum, fixed-price sale and buffers;
ReClamm), operator by function. Loops are folds or recursive functions with the code's
bound on iterations. **PoolMaths** is the interface they share, **BasePoolMaths** is
`basePoolMath.ts` over it, and **VaultMaths** is `vault.ts` with `stableSurgeHook.ts`: one
operator per entry point, from the pool's state to raw amounts, fees and the balances
the hook is shown.

**MathsVault** turns these pure functions into a system. The maths keeps no state; its
callers do: a pool is swapped with, joined and left, again and again, and each answer
becomes the next question's state. The variables are that state (`pool`), the Vault's raw
balances, and, as history, the fees taken and the balances `base` at the last change
of terms. An operation asks `VaultMaths`, and the Vault settles exactly the raw amounts.
`Tick` moves sales and ReClamm pools through time and `ChangeRates` changes the tokens'
rates; both are new terms, under which holdings may be worth more. What came in with an
operation, and what went out, stays with one counterparty.

**ClosedPools** adds nothing to the model. It singles out the pools of two tokens with a
worth in closed form (`ClosedForm`): constant sums, fixed-price sales, buffers, ReClamm
pools and weighted pools of two equal weights, without unbalanced liquidity and without the surge
hook; any fees, decimals, rates and changes of rates. It defines what their balances are worth
(`Value`) and the inductive invariant `BooksInv` (section 4).

**Scaffold** (`scripts/new-factory.js`, `scripts/new-hook.js`). `owner` maps each path to
the request whose content it holds, `lines` are the registries' lines, `job` is what the
script that runs has yet to write: files first, then registries, each replaced by the text
planned at the start. `Crash` kills it between two writes; `TakeBack` is the developer who
removes a scaffold again. A name is a sequence of words, so that a hook `X` on weighted
pools and a pool `XWeighted` meet in one adapter name.

**MathsCheck** (`maths/check/src`). Each contract and each language's maths has a
behaviour, one answer for each kind of operation and variant. `Generate`, `StartFactory` and
`GenerateVariant` are the loop of `run.ts`, `AbortGenerate` its exceptions and
interruptions, `CheckPasses` is `check.ts` with the runners' verdicts, in the languages that
ran: those of `LANGS` without the ones whose toolchain is missing, possibly none. Both scripts find
an adapter's files by how their names begin (`Named`), so the files of `StablePoolFactoryOld`
are deleted and checked with `Stable`'s; `Consulted` are the adapters a check
reads that way. Scaffolding and edits go on
in between, also while data is generated. `current` remembers, as history, whose data
was generated since the last edit.

**LiveCheck** (`scripts/live/check.ts`) composes both with a chain of deployed factories:
selection by kebab-case name and `FACTORIES` (with none left it passes at once), one file per
adapter and variant, exceptions noted in `ok`, and the same `CheckPasses` on its own
directory. Every step of `LiveSpec` is one of
`Scaffold`'s or leaves its state alone (`Implements`).

**RampArithmetic** holds lemmas on rounded division and interpolation, and the least
number principle that the proofs about loops and powers start from.

Definitions whose comment begins with *Fault:* are plausible mistakes in the
operator they precede. No specification uses them: each is substituted for its
operator to see that the property it is paired with (in `PROJECT.json`,
`mutants`) then fails.

## 3. Runs

Run in this directory: `tlc -workers 2 -config X.cfg M`.

| Run | Module, cfg | Shows |
| --- | --- | --- |
| stable_amp | StableAmplification | value in its limits and no wrapping (`AmpWithinLimits`), at most a factor `MaxDailyRate + 1` in a day, which is what the check at a start gives and one more than documented (`DailyFactorBounded`), no call moves it (`NoJump`), updates end (`EveryUpdateEnds`), implements Ramp (`IsRamp`) |
| cow_settlement | MCCowSettlement | `RouterSolvent`, `FundedOrdersSettle`, `OrderSettledExactly`; no transaction is stuck (deadlock) |
| fixed_price_lbp | FixedPriceLBPool | `SoldAtRate`, `NoLiquidityChangeInSale`, `ProceedsKeptUntilEnd` |
| lbpool | LBPool | `WeightsStayValid`, `CurveNeverFalls`, `IsRamp`; `TypeOK` contains that the virtual balance is never paid. `NoLiquidityChangeInSale` is proved for this pool and checked for the other |
| stable_surge | StableSurgeHook | `ImbalanceIsLeastDeviation`, `FeeBetweenStaticAndMax`, `FeeFollowsImbalance`; `LiquidityNeverFeedsSurge`: no liquidity operation takes a pool further past the threshold than the fee the hook cannot see, or a rounding, accounts for |
| reclamm_range | ReClammRange | `UpdateArrives`, `ManagingMovesNothing`, `OnlyTradesLeaveRange`, `TouchingBendsNothing`, `TimeMovesTowardsTarget` |
| maths_vault | MCMathsVault, MathsVault.cfg | `NoFreeLunch`: no sequence of operations leaves the traders with more; `SharesNeverDiluted`; `MaxSwapAccepted`: the reported maximum passes the swap's own checks; `VirtualBalancesPositive`; `BooksKept`, the inductive invariant of the proofs; `LiquidityNeverFeedsSurge` for the port of the hook, up to the fees it does not see and a raw unit of each token |
| tooling | MCTooling, Tooling.cfg | `RegisteredHasFiles`, `KeysUnique`, `NothingOverwritten` however scripts are killed; `CurrentCheckDecides`: data of current contracts decides exactly, for every set of languages that ran; `PassedLiveAgrees`: a passing live check has compared what it selected, in these languages |

Four runs show where the code and what is written about it disagree; each checks the
written sentence and ends in a counterexample.

| Run | The document says | The code does |
| --- | --- | --- |
| amp_daily_factor (StableAmplification, AmpDailyFactor.cfg) | `StablePool.sol:68-69` and `docs/stable-pool-factory/PARAMETERS.md:31`: at most a factor of 2 in a day | an update bounds its mean rate against its first value (`StablePool.sol:273`), so the first day of a long increase multiplies by more than 2 (3 to 9 in a day and a half in the run) and the last day of a long decrease divides by more |
| lbp_funded_by_owner | only the owner funds the pool | after renouncing, anyone through an untrusted router: both sides of the comparison are the zero address |
| hook_units (MCMathsVault, HookUnits.cfg) | `vault.ts:285`: the balances move by the amounts and the fees | in `swap` and `removeLiquidity` the aggregate fee is subtracted in raw units from scaled balances, so a hook is shown wrong balances of tokens with fewer decimals; `addLiquidity` converts it |
| live_check (MCTooling, LiveCheck.cfg) | `scripts/live/check.ts:8`: every live factory with an adapter | `ReClammPoolFactory` and `WeightedPool8020Factory` are never selected: their names do not lead to their adapters' |

Other disagreements that came up while reading, not kept as runs:

- What is reported as the most of a single token that can be removed (`vault.ts:125`) is divided by
  10^18 once too often (`weightedPool.ts:115`, `stablePool.ts:77`).
- Liquidity may be removed before a sale, not only after it (`LBPCommon.sol:213`;
  `docs/lbpool-factory/PARAMETERS.md:29`).
- Unbalanced operations that lower the imbalance of a surging pool pass
  (`SurgeHookCommon.sol:261`; `docs/stable-surge-pool-factory/README.md:6-7`), and a maximum
  below the static fee disables the hook for swaps only (`StableSurgeHook.sol:92`;
  `PARAMETERS.md:49-50` there). The port computes, for such a maximum, a fee below the
  static one where the contract keeps the static one.
- The start ratio of a ReClamm update is that of its announcement (`ReClammPool.sol:653`;
  `IReClammPool.sol:115`).
- An unbalanced addition may compute a negative number of shares, which the contract reverts
  and the port returns (`basePoolMath.ts:93-95`); `MathsVault` refuses it as the Vault would.
- `getMaxSwapAmount` and the swap round a rate that is not whole differently, and for such
  rates the maximum can be refused: `MaxSwapAccepted` excludes them.
- `powDownFixed` rounds up for the exponents 2 and 4 (`math.ts:113-119`).
- `attempt` in `harness.ts:172-180` takes any exception for a rejection by the pool and records
  nothing, so "both fail" is no match that the check counts (`CONTRIBUTING.md:193`), and a maths that
  answers where the contract reverts goes unnoticed. `AgreesWith` says nothing of rejections, as the
  check does not.
- The live check is to replay "through the maths in every language" (`scripts/live/check.ts:9-10`,
  `maths/check/README.md:77-78`), but a language whose toolchain is missing is skipped with a
  warning and the check passes (`check.ts:93-97`), even if nothing ran; it also passes when no
  factory is selected (`live/check.ts:264`).
- "This factory's files" (`run.ts:35`) are those whose names begin with the adapter's and a dash:
  generating one adapter deletes the data of another whose name goes on after
  `-pool-factory`, and checking the one checks the other (`run.ts:36`, `check.ts:103`).
- A new hook is said to pass at once (`new-hook.js:450`), but in a language without it
  the runner's message is not the one `check.ts:68` excuses; `FileVerdict` has the difference.
- `vault.ts:386-390` hands raw amounts to a hook parameter declared as scaled.

### Bounds, and why they are enough

- *StableAmplification*: a day of 2 ticks, 10 timestamps, amplification 1 to 6 at
  precision 3: updates of one to several days, stopped at every moment, two and
  more in sequence, ramps that do not divide evenly.
- *CowSettlement*: two tokens, donations and hints up to 2, swaps of 1, the fee 0 or one half, two routers
  and two interchangeable sweepers (symmetry). One unit of fee rounds up to the
  whole donation; hints fall short of or exceed what arrived; both orders of
  registration of the swap's tokens occur. An order donates one of the tokens, and
  the hints of both add up to 2 at most. Providers deal in
  halves of the supply, rounded when the pool holds an odd amount, and deposit up to two units.
- *LBP*: the sale may start and end at every timestamp, including a sale of one
  second; removal before, at both ends and after it. Rates above and below one.
  In `LBPool` four units of weight make three weight pairs.
- *StableSurgeHook*: two and three tokens (even and odd median), balances up to 4,
  `One` = 6; both percentages take every value, also the refused one above. Up to four shares
  on either side of a proportional operation: every rounding of four units occurs.
- *ReClammRange*: three steps from the middle of the range to either edge, timestamps up to 4, a
  cap of 2 on the time between operations, shifts of 0 to 2, ratios that rates take below the
  least and above the largest target, so that absences beyond the cap, updates that are over
  unseen, updates announced ahead and replaced all occur.
- *MathsVault*: a thousand units to the one, balances of a few hundred, so that a
  rounding is up to half a percent of a balance and fees, errors of powers and corrections by one
  unit all show. For weighted pools the two roundings of the invariant differ by the declared errors of
  its powers, about two percent here, and `SharesNeverDiluted` sees nothing smaller. Seventeen pools: every class, with and without fees, rates that change, surge
  hook (once with fees so large that it lets an addition raise the imbalance), sales and ReClamm pools in and out of range, and those of closed form also without unbalanced
  liquidity, two of them with rates that are not whole, one to rise and one to fall, and one token of a
  third of the other's precision. Two operations in sequence are a
  round trip in any of its forms (swap and swap back, add and remove, swap both kinds); three
  ticks cover an update and a sale with both their ends. `HookUnits.cfg` has a pool with a
  token of a tenth of the precision; one operation is enough for it.
- *Tooling*: two languages, two interchangeable variants (symmetry), a pool and a hook of
  one name, a pool whose name is that of the hook's adapter, all with names that go on after the
  stable pool's, an unanswered prompt, a dry run, a blank skeleton, the template. Every check is
  asked for every set of languages. Two commands in sequence meet in every pair, with the second run over
  what a kill of the first left; two edits make a contract differ and agree again. Edits are to
  the stable pool only, scaffolds are edited by being taken back. On the chain, one listing each
  that is inactive, repeated, scaffolded later, and misnamed; `FACTORIES` is left out or names one
  adapter, deployed or not.
  `LiveCheck.cfg` has a live ReClamm factory that is off by one unit.

Where the clock ends at `Horizon`, or the number of operations or commands is
bounded, the run does not check for deadlock; elsewhere it does.

The tooling modules assume that a write of one file is atomic, that two scripts never
write at the same time, and that nobody edits the repository during a live check. The
order of a scaffold's files among themselves is left open.

### Fairness

Only `StableAmplification` states fairness: `WF_vars(Tick)`. Blocks keep coming
whatever anyone does with the pool; nothing else is assumed, in particular not
that anyone swaps, starts or stops. No other contract runs by itself, so the
others state safety only (scripts may be killed at any time and developers need not
run them): what "must eventually happen" in `ReClammRange` is
stated as what the next reader will see (`UpdateArrives`).

## 4. Proofs

Run in this directory: `tlapm M.tla` for each of the modules below. All theorems hold
for every value of the constants under the assumptions the modules name next to the
constants; TLC evaluates the same assumptions on every run.

| Property that a run checks | Theorem | Where |
| --- | --- | --- |
| `AmpWithinLimits`, `NoJump`, `DailyFactorBounded`, `IsRamp`, types | `AmpStaysWithinLimits`, `AmpNeverJumps`, `AmpMovesGradually`, `AmpIsRamp`, `AmpTypeCorrect` | `StableAmplification_proofs` |
| `RouterSolvent`, `FundedOrdersSettle`, `OrderSettledExactly`, types | `RouterStaysSolvent`, `FundedAlwaysSettle`, `OrdersSettleExactly`, `SettlementTypeCorrect` | `CowSettlement_proofs` |
| `WeightsStayValid`, `CurveNeverFalls`, `NoLiquidityChangeInSale`, `IsRamp`, types | `WeightsValid`, `TradesStayOnCurve`, `LiquidityStandsStill`, `WeightIsRamp`, `PoolTypeCorrect` | `LBPool_proofs` |
| `SoldAtRate`, `NoLiquidityChangeInSale`, `ProceedsKeptUntilEnd` of the fixed-price pool | `FixedSellsAtRate`, `FixedLiquidityStandsStill`, `FixedProceedsStay` | `LBPool_proofs` |
| `ImbalanceIsLeastDeviation`, `FeeBetweenStaticAndMax`, `FeeFollowsImbalance`, `LiquidityNeverFeedsSurge`, types | `MedianIsLeast`, `FeesBetween`, `FeesFollow`, `LiquidityHardlySurges`, `SurgeTypeCorrect` | `StableSurgeHook_proofs` |
| `UpdateArrives`, `ManagingMovesNothing`, `OnlyTradesLeaveRange`, `TouchingBendsNothing`, `TimeMovesTowardsTarget`, types | `UpdatesArrive`, `ManagingIsNeutral`, `OnlyTradesTakeItOut`, `TouchingIsNeutral`, `TimeMovesRight`, `RangeTypeCorrect` | `ReClammRange_proofs` |
| `RegisteredHasFiles`, `KeysUnique`, `NothingOverwritten`, `CurrentCheckDecides`, `PassedLiveAgrees` | `RegisteredFiles`, `UniqueKeys`, `Kept`, `Implements`, `ToolingSafe`, `CheckDecides`, `PassedLiveCompares` | `Tooling_proofs` |
| `BooksKept`; `NoFreeLunch`, `SharesNeverDiluted` for the pools of closed form | `ClosedPoolsKeepBooks`, `ClosedPoolsNoFreeLunch`, `ClosedPoolsNeverDiluted`, `ConstantPricesNoFreeLunch` | `MathsVault_proofs` |
| (roundings of single operations, pools of every class) | `SwapBooksPrice`, `RemovalNeverDilutes`, `ScalingNeverGains` | `MathsVault_proofs` |

The arguments:

**Amplification.** The inductive invariant `Inv` is `TypeOK /\ AmpWithinLimits`: from the types
come both ends within the limits and the order of the two times, from the other part
`startTime <= now`, and all three are needed to bound the interpolated value that
`StopUpdate` stores. A start reads the current value at its first instant, where
interpolation returns exactly it; a stop stores what it reads. So nothing jumps, and a start is
a retarget of `Ramp`, a stop a freeze, and a tick moves the interpolation monotonically
towards the target and reaches it at the deadline. For the daily factor `GInv` adds `Gentle`:
the ramp in storage was checked against its first value when it was announced. A day's share of the
distance is then no more than the daily limit times the smaller end (`ShareStep`).

**CoW settlement.** For solvency the invariant `IInv` adds a shape to the property: amounts
are integers for each token, and the fees of the order are natural. It deliberately
does not claim that balances are natural: what the Vault and the solver hold never
matters to the router. A donation records exactly the fees that the loop is about to pay, so what is
pending makes up the difference (`DonationSolvent`); a round of the loop pays the router all
that is pending of its token and nothing of another (`SettledKeepsSolvent`); a callback replaces the
ledger by one that is as solvent, or in which the router's balance covers the record by itself
(`WorkReplaced`, `WithdrawnKeeps`). The other theorems need the whole books: `BooksInv` adds that
balances and reserves are natural, that a fee is part of what it is taken from, and for a
transaction in progress what the Vault has kept so far. Liquidity that comes and goes keeps the
Vault above its reserves and these above the pool (`LiquidityKeepsSound`). From it follow the types, that a funded order finds its
tokens in every round, and that what a committed order moved is its amounts and fees.

**Liquidity bootstrapping.** That everybody's shares add up to the supply is a sum over a
set of holders. It is stated by counting (`Backed`): there are as many coins as the supply, each
has one holder, and a holder has as many as the balance says; minting, burning and moving add, drop and
hand over coins. `SharesSound` adds the minimum nobody owns, `SaleTyped` the checked
immutables. The weights follow from the bounds of a share (`ShareBounds`) at both rounded steps.
For the curve, the largest output or the smallest input is a member of a set of natural numbers that
holds the curve for the balance in plus one; `RoundedUpTrade` shows that it then holds for the balance
itself, because (x + a) / x is largest for the smaller x and powers keep the order
(`PowerProduct`, `PowerMonotone`). The fixed-price pool is reached by `INSTANCE`: its operations on
shares are shown to be those of `LBPCommon`, so it inherits the same invariant.

**Stable surge.** `TypeOK` is inductive, and each of the three invariants follows from it by facts about the
operators. A loop's total is shown term by term (`TotalMonotone`, `TotalSum`, `TotalCounts`). Moving
a centre up by one changes the deviation by twice the number of balances at or below it less the number
of tokens (`DeviationStep`); half of the balances are at or below the median, rounded or
not, and half at most are below it (`MedianIs`); so the deviation falls up to the median and
rises from there (`MedianIsNearest`). From zero the deviation is the total of the balances, hence the imbalance is at most one, and no subtraction
of the fee underflows. That a lower threshold makes no swap cheaper through the rounded quotient is `ExcessOfLower`.
For `LiquidityNeverFeedsSurge`: a proportional operation multiplies every balance and rounds it, so measured
from the rounded median each balance above it is off by one part of a unit and each below it by
the rest; at most half of the balances lie on either side (`HalfAboveHalfBelow`), so the deviation is
off by a unit for every second token (`DeviationOfShares`), and the quotient by no more than that
over the total (`QuotientRises`). An unbalanced operation is judged against balances short of what was
taken in one token, which moves the deviation by that much at most (`LessOfOne`).

**ReClamm.** `Arrived` strengthens `TypeOK`: when the stored timestamp is at or after the end of the
update and nothing has disturbed the ratio since, the stored ratio is the target, and an empty update is one
that is over. The
action properties compare the range read before and after a step at the same time; each comes
down to the shares of a ramp and to what `UpdateVirtualBalances` stores.

**Tooling.** The properties of scaffolding speak of what is written, the danger is in what is planned, so
`ScaffoldInv` adds `JobSound`: as long as a job runs, the paths it has yet to write are free or its own,
its planned texts are the registries' present text and one line more, and its key is in no
registry it has yet to write. A killed script leaves files without lines, never the
reverse, because the files come first. `Implements` carries this to the whole tooling: each step of
`LiveSpec` (generation, edits, live checks) is a step of `ScaffoldSpec` or leaves its variables
alone. For the check, `CheckInv` adds that every file was written by its owner, what the data
files hold, and, for the pools whose data is current and for the generation in progress, that the records written
so far are those of the contracts as they are; then a record agrees with a
language's file exactly when contract and maths agree, and the files a check finds by their names are
those of the variants declared by the adapters it consults (`FilesConsulted`). `LiveSound` says the same of the live check's
own directory. `PassedLiveCompares` has a hypothesis, `NamesMatch`: a factory that is selected and has its name
for itself belongs to the adapter of that name. Both chains of
the runs satisfy it; names that lead to no adapter at all, as in the run `live_check`, do
not contradict it.

**Mathematics.** The argument goes from one rounding to any sequence of operations. For every class of
pool, `SwapBooksPrice`: what the Vault books in is worth the answer after fees, and what it pays
is worth the answer at most, through scaling by decimals and rates, fees and their aggregate part.
For the classes of closed form, `PriceKeepsWorth`: no answer of `OnSwap` lowers the worth of the scaled
balances, which is a price times one balance plus the other for constant prices, and a product for
ReClamm (with virtual balances) and for equal weights. The last is where the powers come
in: at the exponent one the port computes none, and only its roundings remain (`EqualPrice`).
From both follows that every operation is *fair* (`NextFair`): it mints no shares, and if it
burns none, the pool is worth no less. Fair operations keep `BooksInv`,
and ticks and changes of rates start anew from their own balances (`BooksStep`).

`NoFreeLunch` is not inductive. It compares amounts, and after one swap each token is on another side
of the comparison; what carries over from operation to operation is the worth. So `BooksInv`
says `Kept`: with the shares the terms began with, the pool is worth at least what it was
then. Around it stand what makes worth a function of the books: natural balances, live balances that are
the scaled raw ones, a weighted pool with something of both tokens. Then, if no token has
more, no token can have less either, because worth is strictly monotone in the raw balances
(`ValueStrict`).

The hypotheses, all in `ClosedForm` but the last:

- Two tokens, only proportional liquidity, no surge hook. The port adds liquidity only unbalanced, so
  these pools never mint.
- `WholeUnits`: one raw unit scales to at least one unit, that is, factor times rate is at least one.
  A token whose rate is below one and that has all its decimals has raw balances that scale to the same
  live balance, and worth does not see the difference.
- For ReClamm, `[]VirtualBalancesPositive`: positive virtual balances at all times. They come
  from an iterated square root, and a removal of nearly everything truncates them; the contract then reverts.
  TLC checks the property for the pools of `maths_vault`.
  `ConstantPricesNoFreeLunch` has no such hypothesis, for all other classes.

`NoFreeLunch` is about the absence of gain in every token at once and not about gains in one for
losses in another, which any trade is.

### What is only model-checked

- Liveness: `EveryUpdateEnds`. Neither it nor anything about `ENABLED` is within the prover's reach.
- `NoFreeLunch` and `SharesNeverDiluted` for the other pools: stable ones, unequal weights, sales, and
  whoever takes unbalanced liquidity. They rest on powers with a declared error and on Newton
  iterations, rounded at every step, whose result is an induction over data.
- `VirtualBalancesPositive`, for the same reason.
- `MaxSwapAccepted`. It is a fact about the pools of the run and not about all: the reported maximum
  knows nothing of fees and minimum trades, and for rates above ten, for one, it is refused.
- The port's `LiquidityNeverFeedsSurge`: its hook, too, rebuilds the balances from before without the
  fees (`stableSurgeHook.ts:170-173`), and the property allows for them and for one raw unit of each
  token. For the contract's hook the like is proved (`LiquidityHardlySurges`).
- Deadlock freedom, where a run checks it.

The library's induction theorems take an operator as a parameter and cannot be applied here. Where
a fact about every exponent, every number of tokens or every centre was needed, it
is shown by its least counterexample (`LeastNumber` in `RampArithmetic`).

## 5. Plan

Done: the contracts that keep state, the TypeScript mathematics behind one Vault, the
tooling, their runs, and the proofs above.

What could be added, in this order:

1. The weighted curve of unequal weights, within the declared error of powers: first that
   `PriceKeepsWorth` holds for its two answers, then the rest of `BooksInv` as it is.
2. `CowSettlement` with a stack of orders: an authenticated solver that is
   notified during its order and places another.
3. ReClamm's initialization from prices (`ReClammPoolHelper`) against the closed form.
4. Factories: the 80/20 factory's deterministic address and `getPool`; disabled factories.

## 6. Not modelled

- Python and Rust: translations of the TypeScript line by line.
- `LogExpMath`: only that it is within its declared error. Overflow of 256 bits in the
  mathematics.
- Recovery-mode withdrawals, which bypass all hooks and after which the ReClamm interface
  itself asks to abandon the pool; getters; events; swap fees of the contract models (the
  maths has them).
- The comparison of bytecodes in the live check, which compares two constants; the texts that
  scaffolding renders; registration and deployment in the factories; test mocks; the two
  scripts without state.
