------------------------ MODULE CowSettlement_proofs ------------------------
(***************************************************************************)
(* For any number of tokens, amounts, routers and sweepers: the CowRouter  *)
(* always holds the fees it has recorded, less those that the transaction  *)
(* in progress has yet to pay it; and an order moves exactly what it names *)
(* or nothing.                                                             *)
(***************************************************************************)
EXTENDS CowSettlement, RampArithmetic

Amounts == [Tokens -> Int]

\* The shape of a ledger.  Only the router's part is bounded: what the Vault
\* and the solver hold does not matter for the router.
IntLedgers == [solver : Amounts, vault : Amounts, reserves : Amounts,
               pool : Amounts, router : Amounts, collected : Amounts,
               swept : [Sweepers -> Amounts], trusted : Routers]

Transactions ==
    [open : {TRUE}, work : IntLedgers, delta : Amounts, in : Amounts,
     out : Amounts, hints : Amounts, gift : Amounts, fees : [Tokens -> Nat],
     donated : Amounts, credits : Amounts, next : 1..(NumTokens + 1),
     notified : BOOLEAN, funded : BOOLEAN]

Shape == /\ led \in IntLedgers
         /\ tx = NoTx \/ tx \in Transactions
         /\ feePercentage \in Nat
         /\ feeSweeper \in Sweepers
         /\ factoryRouter \in Routers

\* What the loop of _settleDonation has yet to pay the router of a token.
Pending(x, t) == IF t >= x.next THEN x.fees[t] ELSE 0

LedgerSolvent(l) == \A t \in Tokens : l.router[t] >= l.collected[t]
TxSolvent(x) == \A t \in Tokens : x.work.router[t] + Pending(x, t) >= x.work.collected[t]

IInv == /\ Shape
        /\ LedgerSolvent(led)
        /\ tx # NoTx => TxSolvent(tx)

\* Tokens are positive numbers.
LEMMA TokensNat == Tokens \subseteq Nat /\ NumTokens \in Nat
BY TokensAssumption DEF Tokens

\* A transaction in progress is one of the shape above.
LEMMA OpenTx == Shape => (tx.open <=> tx \in Transactions) /\ (tx # NoTx <=> tx \in Transactions)
<1>1. ASSUME tx = NoTx PROVE ~tx.open /\ tx \notin Transactions
  BY <1>1 DEF NoTx, Transactions
<1>2. ASSUME tx \in Transactions PROVE tx.open
  BY <1>2 DEF Transactions
<1> QED  BY <1>1, <1>2 DEF Shape

\* Settling and paying the solver leave the router's part alone.
LEMMA VaultSettleKeeps ==
    ASSUME NEW x \in Transactions, NEW t \in Tokens, NEW hint \in Int
    PROVE  /\ VaultSettle(x, t, hint) \in Transactions
           /\ VaultSettle(x, t, hint).work.router = x.work.router
           /\ VaultSettle(x, t, hint).work.collected = x.work.collected
           /\ VaultSettle(x, t, hint).fees = x.fees
           /\ VaultSettle(x, t, hint).credits = x.credits
           /\ VaultSettle(x, t, hint).next = x.next
<1> DEFINE credit == Lesser(Unsettled(x.work, t), hint)
           work == [x.work EXCEPT !.reserves[t] = x.work.vault[t]]
           delta == [x.delta EXCEPT ![t] = @ - credit]
<1>1. credit \in Int
  BY DEF Lesser, Unsettled, Transactions, IntLedgers, Amounts
<1>2. delta \in Amounts
  BY <1>1 DEF Transactions, Amounts
<1>3. /\ work \in IntLedgers
      /\ work.router = x.work.router
      /\ work.collected = x.work.collected
  BY DEF Transactions, IntLedgers, Amounts
<1> HIDE DEF credit, work, delta
<1>4. VaultSettle(x, t, hint) = [x EXCEPT !.work = work, !.delta = delta]
  BY DEF VaultSettle, work, delta, credit
<1> QED  BY <1>2, <1>3, <1>4 DEF Transactions

\* Paying the router adds the amount to what it holds.
LEMMA VaultSendToRouterPays ==
    ASSUME NEW x \in Transactions, NEW t \in Tokens, NEW amount \in Int
    PROVE  /\ VaultSendToRouter(x, t, amount) \in Transactions
           /\ VaultSendToRouter(x, t, amount).work.router = [x.work.router EXCEPT ![t] = @ + amount]
           /\ VaultSendToRouter(x, t, amount).work.collected = x.work.collected
           /\ VaultSendToRouter(x, t, amount).fees = x.fees
           /\ VaultSendToRouter(x, t, amount).credits = x.credits
           /\ VaultSendToRouter(x, t, amount).next = x.next
<1> DEFINE reserves == [x.work.reserves EXCEPT ![t] = @ - amount]
           vault == [x.work.vault EXCEPT ![t] = @ - amount]
           paid == [x.work.router EXCEPT ![t] = @ + amount]
           work == [x.work EXCEPT !.reserves = reserves, !.vault = vault, !.router = paid]
           delta == [x.delta EXCEPT ![t] = @ + amount]
<1>1. delta \in Amounts /\ reserves \in Amounts /\ vault \in Amounts /\ paid \in Amounts
  BY DEF Transactions, IntLedgers, Amounts
<1> HIDE DEF reserves, vault, paid
<1>2. /\ work \in IntLedgers
      /\ work.router = [x.work.router EXCEPT ![t] = @ + amount]
      /\ work.collected = x.work.collected
  BY <1>1 DEF Transactions, IntLedgers, paid
<1> HIDE DEF work, delta
<1>3. VaultSendToRouter(x, t, amount) = [x EXCEPT !.work = work, !.delta = delta]
  BY ZenonT(60) DEF VaultSendToRouter, work, delta, reserves, vault, paid, Transactions, IntLedgers
<1> QED  BY ZenonT(90), <1>1, <1>2, <1>3 DEF Transactions

\* Paying the solver leaves the router's part alone.
LEMMA VaultSendToSolverKeeps ==
    ASSUME NEW x \in Transactions, NEW t \in Tokens, NEW amount \in Int
    PROVE  /\ VaultSendToSolver(x, t, amount) \in Transactions
           /\ VaultSendToSolver(x, t, amount).work.router = x.work.router
           /\ VaultSendToSolver(x, t, amount).work.collected = x.work.collected
           /\ VaultSendToSolver(x, t, amount).fees = x.fees
           /\ VaultSendToSolver(x, t, amount).credits = x.credits
           /\ VaultSendToSolver(x, t, amount).next = x.next
<1> DEFINE reserves == [x.work.reserves EXCEPT ![t] = @ - amount]
           vault == [x.work.vault EXCEPT ![t] = @ - amount]
           paid == [x.work.solver EXCEPT ![t] = @ + amount]
           work == [x.work EXCEPT !.reserves = reserves, !.vault = vault, !.solver = paid]
           delta == [x.delta EXCEPT ![t] = @ + amount]
<1>1. delta \in Amounts /\ reserves \in Amounts /\ vault \in Amounts /\ paid \in Amounts
  BY DEF Transactions, IntLedgers, Amounts
<1> HIDE DEF reserves, vault, paid
<1>2. /\ work \in IntLedgers
      /\ work.router = x.work.router
      /\ work.collected = x.work.collected
  BY <1>1 DEF Transactions, IntLedgers, paid
<1> HIDE DEF work, delta
<1>3. VaultSendToSolver(x, t, amount) = [x EXCEPT !.work = work, !.delta = delta]
  BY ZenonT(60) DEF VaultSendToSolver, work, delta, reserves, vault, paid, Transactions, IntLedgers
<1> QED  BY <1>1, <1>2, <1>3 DEF Transactions

\* One round of the loop pays the router all that is pending of its token and
\* nothing of another.
LEMMA SettledKeepsSolvent ==
    ASSUME NEW x \in Transactions, x.next \in Tokens, TxSolvent(x)
    PROVE  Settled(x) \in Transactions /\ TxSolvent(Settled(x))
<1> DEFINE t == x.next
           y == IF x.hints[t] > 0 THEN VaultSettle(x, t, x.hints[t]) ELSE x
           z == IF x.fees[t] > 0 THEN VaultSendToRouter(y, t, x.fees[t]) ELSE y
           u == IF x.credits[t] > 0 THEN VaultSendToSolver(z, t, x.credits[t]) ELSE z
           told == x.credits[t] > 0
           v == [u EXCEPT !.next = t + 1, !.notified = told]
<1>1. t \in Tokens /\ t + 1 \in 1..(NumTokens + 1) /\ t \in Nat
  BY TokensNat DEF Tokens
<1>2. x.hints[t] \in Int /\ x.fees[t] \in Nat /\ x.credits[t] \in Int
  BY <1>1 DEF Transactions, Amounts
<1>3. Settled(x) = v
  BY DEF Settled
<1> HIDE DEF v
<1>4. /\ y \in Transactions
      /\ y.work.router = x.work.router
      /\ y.work.collected = x.work.collected
      /\ y.fees = x.fees
      /\ y.next = x.next
  BY <1>1, <1>2, VaultSettleKeeps
<1> HIDE DEF y
<1>5. /\ z \in Transactions
      /\ z.work.router = [x.work.router EXCEPT ![t] = @ + x.fees[t]]
      /\ z.work.collected = x.work.collected
      /\ z.fees = x.fees
  <2>1. CASE x.fees[t] > 0
    BY <1>1, <1>2, <1>4, <2>1, VaultSendToRouterPays
  <2>2. CASE ~(x.fees[t] > 0)
    <3>1. z = y /\ x.fees[t] = 0
      BY <1>2, <2>2
    <3>2. x.work.router = [x.work.router EXCEPT ![t] = @ + 0]
      BY <1>1 DEF Transactions, IntLedgers, Amounts
    <3> HIDE DEF z
    <3> QED  BY <1>4, <3>1, <3>2
  <2> QED  BY <2>1, <2>2
<1> HIDE DEF z
<1>6. /\ u \in Transactions
      /\ u.work.router = [x.work.router EXCEPT ![t] = @ + x.fees[t]]
      /\ u.work.collected = x.work.collected
      /\ u.fees = x.fees
  BY ZenonT(90), <1>1, <1>2, <1>5, VaultSendToSolverKeeps
<1> HIDE DEF u
<1>7. /\ v \in Transactions
      /\ v.work = u.work
      /\ v.fees = x.fees
      /\ v.next = t + 1
  <2>1. told \in BOOLEAN
    BY <1>2
  <2> HIDE DEF told, t
  <2> QED  BY <1>1, <1>6, <2>1 DEF v, Transactions
<1>8. ASSUME NEW s \in Tokens
      PROVE  v.work.router[s] + Pending(v, s) >= v.work.collected[s]
  <2>1. /\ x.work.router[s] \in Int /\ x.work.collected[s] \in Int
        /\ x.fees[s] \in Nat
    BY DEF Transactions, IntLedgers, Amounts
  <2>2. x.work.router[s] + Pending(x, s) >= x.work.collected[s]
    BY DEF TxSolvent
  <2>3. v.work.router[s] = IF s = t THEN x.work.router[s] + x.fees[s] ELSE x.work.router[s]
    BY <1>1, <1>6, <1>7 DEF Transactions, IntLedgers, Amounts
  <2>4. s \in Nat
    BY TokensNat
  <2>5. v.work.collected[s] = x.work.collected[s] /\ v.fees[s] = x.fees[s]
    BY <1>6, <1>7
  <2> QED  BY <1>1, <1>7, <2>1, <2>2, <2>3, <2>4, <2>5 DEF Pending
<1> QED  BY <1>3, <1>7, <1>8 DEF TxSolvent

\* A fee is a natural number.
LEMMA FeesNat ==
    ASSUME feePercentage \in Nat, NEW amounts \in [Tokens -> Nat]
    PROVE  Fees(amounts) \in [Tokens -> Nat]
<1>1. ASSUME NEW n \in Nat PROVE (n * feePercentage + FeeOne - 1) \div FeeOne \in Nat
  <2> DEFINE m == n * feePercentage
  <2>1. m \in Nat
    OBVIOUS
  <2> HIDE DEF m
  <2>2. (m + FeeOne - 1) \div FeeOne \in Nat
    BY <2>1, FeeAssumption
  <2> QED  BY <2>2 DEF m
<1> QED  BY <1>1 DEF Fees, ProtocolFee, MulUp

\* An unlocked Vault works on a copy of the ledger.
LEMMA OpenedCopies ==
    ASSUME led \in IntLedgers, NEW in \in Amounts, NEW out \in Amounts, NEW hints \in Amounts
    PROVE  /\ Opened(in, out, hints) \in Transactions
           /\ Opened(in, out, hints).work = led
           /\ Opened(in, out, hints).next = 1
<1> DEFINE funded == \A t \in Tokens : Unsettled(led, t) >= hints[t]
<1>1. funded \in BOOLEAN
  OBVIOUS
<1>2. Zero \in Amounts /\ Zero \in [Tokens -> Nat]
  BY DEF Zero, Amounts
<1>3. 1 \in 1..(NumTokens + 1)
  BY TokensAssumption
<1>4. Opened(in, out, hints) =
        [open |-> TRUE, work |-> led, delta |-> Zero, in |-> in, out |-> out,
         hints |-> hints, gift |-> Zero, fees |-> Zero, donated |-> Zero,
         credits |-> Zero, next |-> 1, notified |-> FALSE, funded |-> funded]
  BY DEF Opened
<1> HIDE DEF funded
<1> QED  BY <1>1, <1>2, <1>3, <1>4 DEF Transactions

\* A swap or a donation moves the pool's balances and the deltas only.
LEMMA VaultPoolChangeKeeps ==
    ASSUME NEW x \in Transactions, NEW in \in Amounts, NEW out \in Amounts
    PROVE  /\ VaultPoolChange(x, in, out) \in Transactions
           /\ VaultPoolChange(x, in, out).work.router = x.work.router
           /\ VaultPoolChange(x, in, out).work.collected = x.work.collected
           /\ VaultPoolChange(x, in, out).next = x.next
<1> DEFINE pool == [t \in Tokens |-> x.work.pool[t] + in[t] - out[t]]
           delta == [t \in Tokens |-> x.delta[t] + in[t] - out[t]]
           work == [x.work EXCEPT !.pool = pool]
<1>1. pool \in Amounts /\ delta \in Amounts
  BY DEF Transactions, IntLedgers, Amounts
<1> HIDE DEF pool, delta
<1>2. /\ work \in IntLedgers
      /\ work.router = x.work.router
      /\ work.collected = x.work.collected
  BY <1>1 DEF Transactions, IntLedgers
<1> HIDE DEF work
<1>3. VaultPoolChange(x, in, out) = [x EXCEPT !.work = work, !.delta = delta]
  BY DEF VaultPoolChange, work, pool, delta, Transactions, IntLedgers
<1> QED  BY <1>1, <1>2, <1>3 DEF Transactions

\* A donation records the fees that the loop is about to pay.
LEMMA DonationSolvent ==
    ASSUME Shape, LedgerSolvent(led), NEW x \in Transactions, x.next = 1,
           x.work.router = led.router, x.work.collected = led.collected,
           NEW amounts \in [Tokens -> Nat]
    PROVE  DonateToPool(x, amounts) \in Transactions /\ TxSolvent(DonateToPool(x, amounts))
<1> DEFINE fees == Fees(amounts)
           donated == Donated(amounts)
           y == VaultPoolChange(x, donated, Zero)
           collected == [t \in Tokens |-> y.work.collected[t] + fees[t]]
           work == [y.work EXCEPT !.collected = collected]
           z == [y EXCEPT !.work = work, !.gift = amounts, !.fees = fees, !.donated = donated]
<1>1. fees \in [Tokens -> Nat]
  BY FeesNat DEF Shape
<1>2. donated \in Amounts /\ Zero \in Amounts /\ amounts \in Amounts
  BY <1>1 DEF Donated, Zero, Amounts
<1> HIDE DEF fees, donated
<1>3. /\ y \in Transactions
      /\ y.work.router = led.router
      /\ y.work.collected = led.collected
      /\ y.next = 1
  BY <1>2, VaultPoolChangeKeeps
<1>4. DonateToPool(x, amounts) = z
  BY <1>3 DEF DonateToPool, fees, donated, Transactions, IntLedgers
<1> HIDE DEF y
<1>5. collected \in Amounts
  BY <1>1, <1>3 DEF Transactions, IntLedgers, Amounts
<1> HIDE DEF collected
<1>6. work \in IntLedgers /\ work.router = led.router /\ work.collected = collected
  BY <1>3, <1>5 DEF Transactions, IntLedgers
<1> HIDE DEF work
<1>7. z \in Transactions /\ z.work = work /\ z.fees = fees /\ z.next = 1
  BY <1>1, <1>2, <1>3, <1>6 DEF Transactions
<1> HIDE DEF z
<1>8. ASSUME NEW t \in Tokens
      PROVE  z.work.router[t] + Pending(z, t) >= z.work.collected[t]
  <2>1. led.router[t] \in Int /\ led.collected[t] \in Int /\ fees[t] \in Nat
    BY <1>1 DEF Shape, IntLedgers, Amounts
  <2>2. led.router[t] >= led.collected[t] /\ t >= 1
    BY DEF LedgerSolvent, Tokens
  <2>3. collected[t] = led.collected[t] + fees[t]
    BY <1>3 DEF collected
  <2> QED  BY <1>6, <1>7, <2>1, <2>2, <2>3 DEF Pending
<1> QED  BY <1>4, <1>7, <1>8 DEF TxSolvent

\* Sweeping the fees of a token takes from the router what its record loses.
LEMMA WithdrawnKeeps ==
    ASSUME NEW l \in IntLedgers, NEW t \in Tokens, feeSweeper \in Sweepers
    PROVE  /\ Withdrawn(l, t) \in IntLedgers
           /\ Withdrawn(l, t).router = [l.router EXCEPT ![t] = @ - l.collected[t]]
           /\ Withdrawn(l, t).collected = [l.collected EXCEPT ![t] = 0]
<1> DEFINE router == [l.router EXCEPT ![t] = @ - l.collected[t]]
           collected == [l.collected EXCEPT ![t] = 0]
           mine == [l.swept[feeSweeper] EXCEPT ![t] = @ + l.collected[t]]
           swept == [l.swept EXCEPT ![feeSweeper] = mine]
           k == [l EXCEPT !.collected = collected, !.router = router, !.swept = swept]
<1>1. router \in Amounts /\ collected \in Amounts /\ mine \in Amounts
  BY DEF IntLedgers, Amounts
<1> HIDE DEF mine
<1>2. swept \in [Sweepers -> Amounts]
  BY <1>1 DEF IntLedgers
<1>3. Withdrawn(l, t) = k
  BY DEF Withdrawn, mine, IntLedgers
<1> HIDE DEF router, collected, swept
<1>4. k \in IntLedgers /\ k.router = router /\ k.collected = collected
  BY <1>1, <1>2 DEF IntLedgers
<1> QED  BY <1>3, <1>4 DEF router, collected

\* A transfer of the solver's leaves the router's part alone.
LEMMA SentKeeps ==
    ASSUME NEW l \in IntLedgers, NEW t \in Tokens
    PROVE  /\ Sent(l, t) \in IntLedgers
           /\ Sent(l, t).router = l.router
           /\ Sent(l, t).collected = l.collected
<1> DEFINE solver == [l.solver EXCEPT ![t] = @ - 1]
           vault == [l.vault EXCEPT ![t] = @ + 1]
<1>1. solver \in Amounts /\ vault \in Amounts
  BY DEF IntLedgers, Amounts
<1> HIDE DEF solver, vault
<1>2. Sent(l, t) = [l EXCEPT !.solver = solver, !.vault = vault]
  BY DEF Sent, solver, vault
<1> QED  BY <1>1, <1>2 DEF IntLedgers

\* The parts of a balance that providers bring and take.
LEMMA PartsInt ==
    ASSUME NEW a \in Int, NEW n \in Int
    PROVE  PartUp(a, n) \in Int /\ PartDown(a, n) \in Int
<1> DEFINE m == a * n
<1>1. m \in Int
  OBVIOUS
<1> HIDE DEF m
<1>2. (m + LpParts - 1) \div LpParts \in Int /\ m \div LpParts \in Int
  BY <1>1, PartsAssumption, DivBounds
<1> QED  BY <1>2 DEF m, PartUp, PartDown

LEMMA PartsBounds ==
    ASSUME NEW a \in Nat, NEW n \in 0..LpParts
    PROVE  PartUp(a, n) >= 0 /\ PartDown(a, n) >= 0 /\ PartDown(a, n) <= a
<1> DEFINE m == a * n
<1>1. m \in Nat /\ n \in Nat /\ LpParts \in Nat \ {0}
  BY PartsAssumption, MulNat
<1>2. PartDown(a, n) \in 0..a
  BY <1>1, ShareBounds DEF PartDown
<1> HIDE DEF m
<1>3. (m + LpParts - 1) \div LpParts >= 0
  BY <1>1
<1>4. PartUp(a, n) >= 0
  BY <1>3 DEF m, PartUp
<1> QED  BY <1>2, <1>4

\* What an addition and a removal of liquidity change.
LEMMA JoinedAt ==
    ASSUME NEW l \in IntLedgers, NEW n \in Int
    PROVE  /\ Joined(l, n) \in IntLedgers
           /\ Joined(l, n).router = l.router /\ Joined(l, n).collected = l.collected
           /\ Joined(l, n).solver = l.solver /\ Joined(l, n).swept = l.swept
           /\ \A t \in Tokens :
                  /\ Joined(l, n).pool[t] = l.pool[t] + PartUp(l.pool[t], n)
                  /\ Joined(l, n).vault[t] = l.vault[t] + PartUp(l.pool[t], n)
                  /\ Joined(l, n).reserves[t] =
                         IF PartUp(l.pool[t], n) > 0
                         THEN l.vault[t] + PartUp(l.pool[t], n) ELSE l.reserves[t]
<1> DEFINE in == [t \in Tokens |-> PartUp(l.pool[t], n)]
           pool == [t \in Tokens |-> l.pool[t] + in[t]]
           vault == [t \in Tokens |-> l.vault[t] + in[t]]
           reserves == [t \in Tokens |->
                           IF in[t] > 0 THEN l.vault[t] + in[t] ELSE l.reserves[t]]
           k == [l EXCEPT !.pool = pool, !.vault = vault, !.reserves = reserves]
<1>1. \A t \in Tokens : /\ in[t] \in Int /\ l.pool[t] \in Int /\ l.vault[t] \in Int
                         /\ l.reserves[t] \in Int
  BY PartsInt DEF IntLedgers, Amounts
<1>2. Joined(l, n) = k
  BY DEF Joined, IntLedgers
<1>3. \A t \in Tokens : in[t] = PartUp(l.pool[t], n)
  OBVIOUS
<1> HIDE DEF in
<1>4. pool \in Amounts /\ vault \in Amounts /\ reserves \in Amounts
  BY <1>1 DEF Amounts
<1>5. \A t \in Tokens :
         /\ pool[t] = l.pool[t] + in[t] /\ vault[t] = l.vault[t] + in[t]
         /\ reserves[t] = IF in[t] > 0 THEN l.vault[t] + in[t] ELSE l.reserves[t]
  OBVIOUS
<1> HIDE DEF pool, vault, reserves
<1>6. /\ k \in IntLedgers /\ k.router = l.router /\ k.collected = l.collected
      /\ k.solver = l.solver /\ k.swept = l.swept
      /\ k.pool = pool /\ k.vault = vault /\ k.reserves = reserves
  BY <1>4 DEF IntLedgers
<1> HIDE DEF k
<1> QED  BY <1>2, <1>3, <1>5, <1>6

LEMMA LeftAt ==
    ASSUME NEW l \in IntLedgers, NEW n \in Int
    PROVE  /\ Left(l, n) \in IntLedgers
           /\ Left(l, n).router = l.router /\ Left(l, n).collected = l.collected
           /\ Left(l, n).solver = l.solver /\ Left(l, n).swept = l.swept
           /\ \A t \in Tokens :
                  /\ Left(l, n).pool[t] = l.pool[t] - PartDown(l.pool[t], n)
                  /\ Left(l, n).vault[t] = l.vault[t] - PartDown(l.pool[t], n)
                  /\ Left(l, n).reserves[t] = l.reserves[t] - PartDown(l.pool[t], n)
<1> DEFINE out == [t \in Tokens |-> PartDown(l.pool[t], n)]
           pool == [t \in Tokens |-> l.pool[t] - out[t]]
           vault == [t \in Tokens |-> l.vault[t] - out[t]]
           reserves == [t \in Tokens |-> l.reserves[t] - out[t]]
           k == [l EXCEPT !.pool = pool, !.vault = vault, !.reserves = reserves]
<1>1. \A t \in Tokens : /\ out[t] \in Int /\ l.pool[t] \in Int /\ l.vault[t] \in Int
                         /\ l.reserves[t] \in Int
  BY PartsInt DEF IntLedgers, Amounts
<1>2. Left(l, n) = k
  BY DEF Left, IntLedgers
<1>3. \A t \in Tokens : out[t] = PartDown(l.pool[t], n)
  OBVIOUS
<1> HIDE DEF out
<1>4. pool \in Amounts /\ vault \in Amounts /\ reserves \in Amounts
  BY <1>1 DEF Amounts
<1>5. \A t \in Tokens :
         /\ pool[t] = l.pool[t] - out[t] /\ vault[t] = l.vault[t] - out[t]
         /\ reserves[t] = l.reserves[t] - out[t]
  OBVIOUS
<1> HIDE DEF pool, vault, reserves
<1>6. /\ k \in IntLedgers /\ k.router = l.router /\ k.collected = l.collected
      /\ k.solver = l.solver /\ k.swept = l.swept
      /\ k.pool = pool /\ k.vault = vault /\ k.reserves = reserves
  BY <1>4 DEF IntLedgers
<1> HIDE DEF k
<1> QED  BY <1>2, <1>3, <1>5, <1>6

\* A change of the transaction's ledger alone, that leaves the router's part
\* as solvent as it was.
LEMMA WorkReplaced ==
    ASSUME NEW x \in Transactions, NEW l \in IntLedgers, TxSolvent(x),
           \A s \in Tokens : \/ l.router[s] - l.collected[s]
                                  >= x.work.router[s] - x.work.collected[s]
                             \/ l.router[s] >= l.collected[s]
    PROVE  [x EXCEPT !.work = l] \in Transactions /\ TxSolvent([x EXCEPT !.work = l])
<1> DEFINE y == [x EXCEPT !.work = l]
<1>1. y \in Transactions /\ y.work = l /\ y.fees = x.fees /\ y.next = x.next
  BY DEF Transactions
<1> HIDE DEF y
<1>2. ASSUME NEW s \in Tokens
      PROVE  y.work.router[s] + Pending(y, s) >= y.work.collected[s]
  <2>1. /\ x.work.router[s] \in Int /\ x.work.collected[s] \in Int
        /\ l.router[s] \in Int /\ l.collected[s] \in Int
        /\ x.fees[s] \in Nat
    BY DEF Transactions, IntLedgers, Amounts
  <2>2. Pending(y, s) = Pending(x, s) /\ Pending(x, s) \in Nat
    BY <1>1, <2>1 DEF Pending
  <2>3. x.work.router[s] + Pending(x, s) >= x.work.collected[s]
    BY DEF TxSolvent
  <2> QED  BY <1>1, <2>1, <2>2, <2>3
<1> QED  BY <1>1, <1>2 DEF y, TxSolvent

LEMMA InitIInv == Init => IInv
<1> SUFFICES ASSUME Init PROVE IInv
  OBVIOUS
<1>1. Zero \in Amounts
  BY DEF Zero, Amounts
<1>2. /\ [t \in Tokens |-> SolverFunds] \in Amounts
      /\ [t \in Tokens |-> PoolFunds] \in Amounts
  BY AmountAssumption DEF Amounts
<1>3. [s \in Sweepers |-> Zero] \in [Sweepers -> Amounts]
  BY <1>1
<1>4. led \in IntLedgers /\ led.router = Zero /\ led.collected = Zero
  BY <1>1, <1>2, <1>3, RouterAssumption DEF Init, IntLedgers
<1>5. feePercentage \in Nat
  BY FeeAssumption DEF Init, MaxProtocolFeePercentage
<1>6. LedgerSolvent(led)
  BY <1>4 DEF LedgerSolvent, Zero
<1> QED  BY <1>4, <1>5, <1>6, RouterAssumption DEF Init, IInv, Shape

\* The ledger may be rewritten outside a transaction, the transaction's copy
\* inside one, as long as the router's part stays as solvent.
LEMMA LedgerReplaced ==
    ASSUME IInv, NEW l \in IntLedgers, UNCHANGED config,
           \/ ~tx.open /\ led' = l /\ LedgerSolvent(l) /\ UNCHANGED tx
           \/ /\ tx.open /\ tx' = [tx EXCEPT !.work = l] /\ UNCHANGED led
              /\ \A s \in Tokens : \/ l.router[s] - l.collected[s]
                                        >= tx.work.router[s] - tx.work.collected[s]
                                   \/ l.router[s] >= l.collected[s]
    PROVE  IInv'
<1>1. CASE ~tx.open
  <2>1. tx = NoTx /\ tx' = NoTx /\ led' = l /\ LedgerSolvent(l)
    BY <1>1, OpenTx DEF IInv
  <2> QED  BY <2>1 DEF IInv, Shape, config, LedgerSolvent
<1>2. CASE tx.open
  <2>1. /\ tx \in Transactions /\ TxSolvent(tx)
        /\ tx' = [tx EXCEPT !.work = l] /\ led' = led
        /\ \A s \in Tokens : \/ l.router[s] - l.collected[s]
                                  >= tx.work.router[s] - tx.work.collected[s]
                             \/ l.router[s] >= l.collected[s]
    BY <1>2, OpenTx DEF IInv
  <2>2. tx' \in Transactions /\ TxSolvent(tx')
    BY <2>1, WorkReplaced
  <2> QED  BY <2>1, <2>2 DEF IInv, Shape, config, LedgerSolvent
<1> QED  BY <1>1, <1>2

LEMMA RemovedParts == 1..(LpParts - 1) \subseteq 1..LpParts
BY PartsAssumption

\* Every step of every actor keeps the invariant.
LEMMA StepIInv == IInv /\ [Next]_vars => IInv'
<1> SUFFICES ASSUME IInv, [Next]_vars PROVE IInv'
  OBVIOUS
<1>1. ASSUME tx' \in Transactions, TxSolvent(tx'), UNCHANGED <<led, config>> PROVE IInv'
  BY <1>1 DEF IInv, Shape, config, LedgerSolvent
<1>2. ASSUME tx' = NoTx, led' \in IntLedgers, LedgerSolvent(led'), UNCHANGED config PROVE IInv'
  BY <1>2 DEF IInv, Shape, config, LedgerSolvent
<1>3. ASSUME NEW donations \in Donations PROVE donations \in [Tokens -> Nat]
  BY AmountAssumption DEF Donations
<1>4. ASSUME NEW tokenIn \in Tokens, NEW tokenOut \in Tokens,
             NEW amountIn \in 0..MaxSwap, NEW amountOut \in 0..MaxSwap,
             NEW donations \in Donations, NEW hints \in Hints, NEW expired \in BOOLEAN,
             SwapAndDonate(tokenIn, tokenOut, amountIn, amountOut, donations, hints, expired)
      PROVE  IInv'
  <2> DEFINE in == [Zero EXCEPT ![tokenIn] = amountIn]
             out == [Zero EXCEPT ![tokenOut] = amountOut]
             o == Opened(in, out, hints)
             y == VaultPoolChange(o, in, out)
             x == DonateToPool(y, donations)
             credits == [t \in Tokens |-> SenderCredits(x)[t] - SenderDebts(x)[t]]
  <2>1. in \in Amounts /\ out \in Amounts /\ hints \in Amounts
    BY AmountAssumption DEF Zero, Amounts, Hints
  <2>2. tx' = [x EXCEPT !.credits = credits] /\ UNCHANGED <<led, config>>
    BY <1>4 DEF SwapAndDonate
  <2> HIDE DEF in, out
  <2>3. /\ y \in Transactions /\ y.next = 1
        /\ y.work.router = led.router /\ y.work.collected = led.collected
    <3>1. o \in Transactions /\ o.work = led /\ o.next = 1
      BY <2>1, OpenedCopies DEF IInv, Shape
    <3> HIDE DEF o
    <3> QED  BY <2>1, <3>1, VaultPoolChangeKeeps
  <2> HIDE DEF y
  <2>4. x \in Transactions /\ TxSolvent(x)
    BY <1>3, <2>3, DonationSolvent DEF IInv
  <2> HIDE DEF x
  <2>5. credits \in Amounts
    BY <2>4 DEF SenderCredits, SenderDebts, Transactions, Amounts
  <2> HIDE DEF credits
  <2>6. /\ tx' \in Transactions /\ tx'.work = x.work
        /\ tx'.fees = x.fees /\ tx'.next = x.next
    BY <2>2, <2>4, <2>5 DEF Transactions
  <2>7. TxSolvent(tx')
    BY <2>4, <2>6 DEF TxSolvent, Pending
  <2> QED  BY <1>1, <2>2, <2>6, <2>7
<1>5. ASSUME NEW donations \in Donations, Donate(donations) PROVE IInv'
  <2> DEFINE y == Opened(Zero, Zero, donations)
  <2>1. Zero \in Amounts /\ donations \in Amounts /\ donations \in [Tokens -> Nat]
    BY <1>3 DEF Zero, Amounts
  <2>2. tx' = DonateToPool(y, donations) /\ UNCHANGED <<led, config>>
    BY <1>5 DEF Donate
  <2>3. y \in Transactions /\ y.next = 1 /\ y.work = led
    BY <2>1, OpenedCopies DEF IInv, Shape
  <2> HIDE DEF y
  <2>4. tx' \in Transactions /\ TxSolvent(tx')
    BY <2>1, <2>2, <2>3, DonationSolvent DEF IInv
  <2> QED  BY <1>1, <2>2, <2>4
<1>6. ASSUME SettleToken PROVE IInv'
  <2>1. tx \in Transactions /\ TxSolvent(tx) /\ tx.next \in Tokens
    BY <1>6, OpenTx DEF SettleToken, CanSettle, IInv
  <2>2. tx' = Settled(tx) /\ UNCHANGED <<led, config>>
    BY <1>6 DEF SettleToken
  <2>3. tx' \in Transactions /\ TxSolvent(tx')
    BY <2>1, <2>2, SettledKeepsSolvent
  <2> QED  BY <1>1, <2>2, <2>3
<1>7. ASSUME Commit PROVE IInv'
  <2>1. tx \in Transactions /\ TxSolvent(tx) /\ tx.next \notin Tokens
    BY <1>7, OpenTx DEF Commit, Balanced, IInv
  <2>2. led' = tx.work /\ tx' = NoTx /\ UNCHANGED config
    BY <1>7 DEF Commit
  <2>3. tx.next = NumTokens + 1 /\ tx.work \in IntLedgers
    BY <2>1, TokensAssumption DEF Transactions, Tokens
  <2>4. ASSUME NEW t \in Tokens PROVE tx.work.router[t] >= tx.work.collected[t]
    <3>1. Pending(tx, t) = 0
      BY <2>3, TokensAssumption DEF Pending, Tokens
    <3>2. tx.work.router[t] \in Int
      BY <2>3 DEF IntLedgers, Amounts
    <3> QED  BY <2>1, <3>1, <3>2 DEF TxSolvent
  <2> QED  BY <1>2, <2>2, <2>3, <2>4 DEF LedgerSolvent
<1>8. ASSUME Revert PROVE IInv'
  BY <1>2, <1>8 DEF Revert, IInv, Shape, config, LedgerSolvent
<1>9. ASSUME NEW t \in Tokens, WithdrawFees(t) PROVE IInv'
  <2>1. feeSweeper \in Sweepers /\ led \in IntLedgers /\ LedgerSolvent(led)
    BY DEF IInv, Shape
  <2>2. ASSUME NEW l \in IntLedgers, l.router[t] >= l.collected[t], NEW s \in Tokens
        PROVE  \/ Withdrawn(l, t).router[s] - Withdrawn(l, t).collected[s]
                    >= l.router[s] - l.collected[s]
               \/ Withdrawn(l, t).router[s] >= Withdrawn(l, t).collected[s]
    <3>1. /\ Withdrawn(l, t).router = [l.router EXCEPT ![t] = @ - l.collected[t]]
          /\ Withdrawn(l, t).collected = [l.collected EXCEPT ![t] = 0]
      BY <2>1, WithdrawnKeeps
    <3> QED  BY <2>2, <3>1 DEF IntLedgers, Amounts
  <2>3. CASE /\ ~tx.open /\ CanWithdraw(led, t)
             /\ led' = Withdrawn(led, t) /\ UNCHANGED tx
    <3>1. Withdrawn(led, t) \in IntLedgers
      BY <2>1, WithdrawnKeeps
    <3>2. ASSUME NEW s \in Tokens
          PROVE Withdrawn(led, t).router[s] >= Withdrawn(led, t).collected[s]
      <4>1. led.router[t] >= led.collected[t] /\ led.router[s] >= led.collected[s]
        BY <2>1 DEF LedgerSolvent
      <4>2. /\ led.router[s] \in Int /\ led.collected[s] \in Int
            /\ Withdrawn(led, t).router[s] \in Int /\ Withdrawn(led, t).collected[s] \in Int
        BY <2>1, <3>1 DEF IntLedgers, Amounts
      <4> QED  BY <2>1, <2>2, <4>1, <4>2
    <3> QED  BY <1>9, <2>3, <3>1, <3>2, LedgerReplaced DEF WithdrawFees, LedgerSolvent
  <2>4. CASE /\ tx.open /\ tx.notified /\ CanWithdraw(tx.work, t)
             /\ tx' = [tx EXCEPT !.work = Withdrawn(tx.work, t)] /\ UNCHANGED led
    <3>1. tx.work \in IntLedgers /\ tx.work.router[t] >= tx.work.collected[t]
      BY <2>4, OpenTx DEF IInv, Transactions, CanWithdraw
    <3>2. Withdrawn(tx.work, t) \in IntLedgers
      BY <2>1, <3>1, WithdrawnKeeps
    <3> QED  BY <1>9, <2>2, <2>4, <3>1, <3>2, LedgerReplaced DEF WithdrawFees
  <2> QED  BY <1>9, <2>3, <2>4 DEF WithdrawFees
<1>10. ASSUME NEW t \in Tokens, Fund(t) PROVE IInv'
  <2>1. CASE ~tx.open /\ led' = Sent(led, t) /\ UNCHANGED tx
    <3>1. led \in IntLedgers /\ LedgerSolvent(led)
      BY DEF IInv, Shape
    <3>2. Sent(led, t) \in IntLedgers /\ LedgerSolvent(Sent(led, t))
      BY <3>1, SentKeeps DEF LedgerSolvent
    <3> QED  BY <1>10, <2>1, <3>2, LedgerReplaced DEF Fund
  <2>2. CASE tx.open /\ tx' = [tx EXCEPT !.work = Sent(tx.work, t)] /\ UNCHANGED led
    <3>1. tx.work \in IntLedgers
      BY <2>2, OpenTx DEF IInv, Transactions
    <3>2. /\ Sent(tx.work, t) \in IntLedgers
          /\ Sent(tx.work, t).router = tx.work.router
          /\ Sent(tx.work, t).collected = tx.work.collected
      BY <3>1, SentKeeps
    <3>3. ASSUME NEW s \in Tokens
          PROVE  Sent(tx.work, t).router[s] - Sent(tx.work, t).collected[s]
                    >= tx.work.router[s] - tx.work.collected[s]
      BY <3>1, <3>2 DEF IntLedgers, Amounts
    <3> QED  BY <1>10, <2>2, <3>2, <3>3, LedgerReplaced DEF Fund
  <2> QED  BY <1>10, <2>1, <2>2 DEF Fund
<1>11. ASSUME NEW p \in 0..FeeOne, SetProtocolFeePercentage(p) PROVE IInv'
  <2>1. p \in Nat
    BY FeeAssumption
  <2> QED  BY <1>11, <2>1 DEF SetProtocolFeePercentage, IInv, Shape, LedgerSolvent
<1>12. ASSUME NEW s \in Sweepers, SetFeeSweeper(s) PROVE IInv'
  BY <1>12 DEF SetFeeSweeper, IInv, Shape, LedgerSolvent
<1>13. ASSUME NEW r \in Routers, SetTrustedCowRouter(r) PROVE IInv'
  BY <1>13 DEF SetTrustedCowRouter, IInv, Shape, LedgerSolvent
<1>14. ASSUME RefreshTrustedCowRouter PROVE IInv'
  <2>1. ASSUME NEW l \in IntLedgers
        PROVE  /\ [l EXCEPT !.trusted = factoryRouter] \in IntLedgers
               /\ [l EXCEPT !.trusted = factoryRouter].router = l.router
               /\ [l EXCEPT !.trusted = factoryRouter].collected = l.collected
    BY DEF IInv, Shape, IntLedgers
  <2>2. CASE ~tx.open /\ led' = [led EXCEPT !.trusted = factoryRouter] /\ UNCHANGED tx
    <3> DEFINE l == [led EXCEPT !.trusted = factoryRouter]
    <3>1. l \in IntLedgers /\ LedgerSolvent(l)
      BY <2>1 DEF IInv, Shape, LedgerSolvent
    <3> QED  BY <1>14, <2>2, <3>1, LedgerReplaced DEF RefreshTrustedCowRouter
  <2>3. CASE tx.open /\ tx' = [tx EXCEPT !.work.trusted = factoryRouter] /\ UNCHANGED led
    <3> DEFINE l == [tx.work EXCEPT !.trusted = factoryRouter]
    <3>1. tx.work \in IntLedgers /\ tx \in Transactions
      BY <2>3, OpenTx DEF IInv, Transactions
    <3>2. tx' = [tx EXCEPT !.work = l]
      BY <2>3
    <3>3. l \in IntLedgers /\ l.router = tx.work.router /\ l.collected = tx.work.collected
      BY <2>1, <3>1
    <3> HIDE DEF l
    <3>4. ASSUME NEW s \in Tokens
          PROVE  l.router[s] - l.collected[s] >= tx.work.router[s] - tx.work.collected[s]
      BY <3>1, <3>3 DEF IntLedgers, Amounts
    <3> QED  BY <1>14, <2>3, <3>2, <3>3, <3>4, LedgerReplaced DEF RefreshTrustedCowRouter
  <2> QED  BY <1>14, <2>2, <2>3 DEF RefreshTrustedCowRouter
<1>15. ASSUME UNCHANGED vars PROVE IInv'
  BY <1>15 DEF vars, IInv, Shape, LedgerSolvent
<1>16. ASSUME NEW n \in 1..LpParts, AddLiquidity(n) \/ RemoveLiquidity(n) PROVE IInv'
  <2>1. led \in IntLedgers /\ LedgerSolvent(led) /\ n \in Int /\ ~tx.open /\ UNCHANGED <<tx, config>>
    BY <1>16 DEF IInv, Shape, AddLiquidity, RemoveLiquidity
  <2>2. PICK l \in {Joined(led, n), Left(led, n)} : led' = l
    BY <1>16 DEF AddLiquidity, RemoveLiquidity
  <2>3. l \in IntLedgers /\ l.router = led.router /\ l.collected = led.collected
    BY <2>1, <2>2, JoinedAt, LeftAt
  <2>4. LedgerSolvent(l)
    BY <2>1, <2>3 DEF LedgerSolvent
  <2> QED  BY <2>1, <2>2, <2>3, <2>4, LedgerReplaced
<1> QED
  BY <1>4, <1>5, <1>6, <1>7, <1>8, <1>9, <1>10, <1>11, <1>12, <1>13, <1>14, <1>15,
     <1>16, RemovedParts DEF Next

LEMMA IInvImpliesRouterSolvent == IInv => RouterSolvent
BY OpenTx DEF IInv, Shape, LedgerSolvent, TxSolvent, Pending, RouterSolvent

\* CowRouter holds the fees it has recorded, whatever the order of swaps,
\* donations, settlements, withdrawals in the middle of a settlement, and
\* changes of governance.
THEOREM RouterStaysSolvent == Spec => []RouterSolvent
<1>1. Init => IInv
  BY InitIInv
<1>2. IInv /\ [Next]_vars => IInv'
  BY StepIInv
<1>3. IInv => RouterSolvent
  BY IInvImpliesRouterSolvent
<1> QED  BY <1>1, <1>2, <1>3, PTL DEF Spec

-----------------------------------------------------------------------------
(* The books of an order: for each token, how the transaction's copy and the *)
(* Vault's delta differ from the ledger it started from.                     *)

Natural(l, t) ==
    /\ l.solver[t] >= 0 /\ l.vault[t] >= 0 /\ l.reserves[t] >= 0
    /\ l.pool[t] >= 0 /\ l.router[t] >= 0 /\ l.collected[t] >= 0
    /\ \A s \in Sweepers : l.swept[s][t] >= 0

\* The Vault holds its reserves, and they hold the pool's share.
Covered(l, t) == l.vault[t] >= l.reserves[t] /\ l.reserves[t] >= l.pool[t]

\* What the credit check has established.
Order(x, t) ==
    /\ x.in[t] >= 0 /\ x.out[t] >= 0 /\ x.hints[t] >= 0
    /\ x.gift[t] >= 0 /\ x.donated[t] >= 0 /\ x.credits[t] >= 0
    /\ x.fees[t] = ProtocolFee(x.gift[t])
    /\ x.donated[t] = x.gift[t] - x.fees[t]
    /\ x.credits[t] = x.hints[t] + x.out[t] - x.in[t] - x.gift[t]
    /\ x.out[t] <= led.pool[t]
    /\ x.funded => Unsettled(led, t) >= x.hints[t]

\* A token that waits for its settlement.
Waiting(x, t) ==
    /\ x.delta[t] = x.in[t] - x.out[t] + x.donated[t]
    /\ x.work.reserves[t] = led.reserves[t]
    /\ x.work.vault[t] >= led.vault[t]
    /\ x.work.solver[t] + x.work.vault[t] = led.solver[t] + led.vault[t]

\* A token that has been settled.
Done(x, t) ==
    /\ x.work.reserves[t] + x.delta[t]
           >= led.reserves[t] + x.hints[t] - x.fees[t] - x.credits[t]
    /\ x.work.solver[t] + x.work.vault[t] = led.solver[t] + led.vault[t] - x.fees[t]
    /\ x.funded => x.delta[t] = 0

Books(x, t) ==
    /\ Natural(x.work, t)
    /\ x.work.vault[t] >= x.work.reserves[t]
    /\ x.work.pool[t] = led.pool[t] + x.in[t] - x.out[t] + x.donated[t]
    /\ Paid(x.work, t) = Paid(led, t) + x.fees[t]
    /\ t >= x.next => Waiting(x, t)
    /\ t < x.next => Done(x, t)

Kept(x) == \A t \in Tokens : Order(x, t) /\ Books(x, t)
Sound(l) == \A t \in Tokens : Natural(l, t) /\ Covered(l, t)

BooksInv == /\ IInv
            /\ feePercentage <= MaxProtocolFeePercentage
            /\ Sound(led)
            /\ tx # NoTx => Kept(tx)

\* A fee is part of the amount it is taken from.
LEMMA FeeIsPart ==
    ASSUME feePercentage \in Nat, feePercentage <= MaxProtocolFeePercentage, NEW n \in Nat
    PROVE  ProtocolFee(n) \in 0..n
<1> DEFINE p == feePercentage
           q == (n * p + FeeOne - 1) \div FeeOne
<1>1. FeeOne \in Nat \ {0} /\ p \in Nat
  BY FeeAssumption
<1>2. p <= FeeOne
  BY <1>1 DEF MaxProtocolFeePercentage
<1>3. n * p \in Nat /\ n * p <= n * FeeOne
  BY <1>1, <1>2, MulNat, MulMonotone
<1>4. n * p + FeeOne - 1 \in Nat
  BY <1>1, <1>3
<1>5. /\ q \in Int
      /\ FeeOne * q <= n * p + FeeOne - 1
      /\ n * p + FeeOne - 1 < FeeOne * q + FeeOne
  <2> DEFINE up == n * p + FeeOne - 1
  <2>1. up \in Int /\ q = up \div FeeOne
    BY <1>4
  <2> HIDE DEF up, q
  <2>2. q \in Int /\ FeeOne * q <= up /\ up < FeeOne * q + FeeOne
    BY <1>1, <2>1, DivBounds
  <2> QED  BY <2>2 DEF up
<1>6. q <= n
  <2>1. n * FeeOne = FeeOne * n
    BY <1>1
  <2>2. FeeOne * q \in Int /\ FeeOne * n \in Int
    BY <1>1, <1>5
  <2>3. FeeOne * q < FeeOne * n + FeeOne
    BY <1>1, <1>3, <1>5, <2>1, <2>2
  <2> HIDE DEF q
  <2> QED  BY <1>1, <1>5, <2>3, MulCancel
<1>7. q >= 0
  <2>1. 0 < FeeOne * q + FeeOne
    <3>1. FeeOne * q \in Int
      BY <1>1, <1>5
    <3>2. n * p + FeeOne - 1 >= 0
      BY <1>4
    <3> QED  BY <1>1, <1>4, <1>5, <3>1, <3>2
  <2>2. FeeOne * 0 = 0
    BY <1>1
  <2> HIDE DEF q
  <2> QED  BY <1>1, <1>5, <2>1, <2>2, MulCancel
<1>8. ProtocolFee(n) = q
  BY DEF ProtocolFee, MulUp
<1> QED  BY <1>5, <1>6, <1>7, <1>8

\* A ledger of natural numbers has the type of a ledger.
LEMMA NaturalLedgers ==
    ASSUME NEW l \in IntLedgers, \A t \in Tokens : Natural(l, t)
    PROVE  l \in Ledgers
<1>1. ASSUME NEW f \in Amounts, \A t \in Tokens : f[t] >= 0
      PROVE  f \in [Tokens -> Nat]
  BY <1>1 DEF Amounts
<1>2. /\ l.solver \in [Tokens -> Nat] /\ l.vault \in [Tokens -> Nat]
      /\ l.reserves \in [Tokens -> Nat] /\ l.pool \in [Tokens -> Nat]
      /\ l.router \in [Tokens -> Nat] /\ l.collected \in [Tokens -> Nat]
  BY <1>1 DEF Natural, IntLedgers
<1>3. l.swept \in [Sweepers -> [Tokens -> Nat]]
  <2>1. ASSUME NEW s \in Sweepers PROVE l.swept[s] \in [Tokens -> Nat]
    BY <1>1 DEF Natural, IntLedgers
  <2> QED  BY <2>1 DEF IntLedgers
<1> QED  BY <1>2, <1>3 DEF IntLedgers, Ledgers

-----------------------------------------------------------------------------
(* What a payment moves. *)

SameOrder(y, x) ==
    /\ y.in = x.in /\ y.out = x.out /\ y.hints = x.hints /\ y.gift = x.gift
    /\ y.fees = x.fees /\ y.donated = x.donated /\ y.credits = x.credits
    /\ y.funded = x.funded

\* y is x but for the solver's, the Vault's and the router's amounts of token n.
OnlyToken(y, x, n) ==
    /\ SameOrder(y, x)
    /\ y.work.pool = x.work.pool
    /\ y.work.collected = x.work.collected
    /\ y.work.swept = x.work.swept
    /\ y.work.trusted = x.work.trusted
    /\ \A t \in Tokens \ {n} :
           /\ y.work.solver[t] = x.work.solver[t]
           /\ y.work.vault[t] = x.work.vault[t]
           /\ y.work.reserves[t] = x.work.reserves[t]
           /\ y.work.router[t] = x.work.router[t]
           /\ y.delta[t] = x.delta[t]

LEMMA OnlyTokenTwice ==
    ASSUME NEW x, NEW y, NEW z, NEW n, OnlyToken(y, x, n), OnlyToken(z, y, n)
    PROVE  OnlyToken(z, x, n)
BY DEF OnlyToken, SameOrder

\* y is x after the Vault has settled token n against that hint.
SettledByVault(y, x, n, hint) ==
    /\ OnlyToken(y, x, n)
    /\ y.work.solver[n] = x.work.solver[n]
    /\ y.work.vault[n] = x.work.vault[n]
    /\ y.work.reserves[n] = x.work.vault[n]
    /\ y.work.router[n] = x.work.router[n]
    /\ y.delta[n] = x.delta[n] - Lesser(Unsettled(x.work, n), hint)

LEMMA VaultSettleAt ==
    ASSUME NEW x \in Transactions, NEW n \in Tokens, NEW hint \in Int
    PROVE  SettledByVault(VaultSettle(x, n, hint), x, n, hint)
<1> DEFINE y == VaultSettle(x, n, hint)
           credit == Lesser(Unsettled(x.work, n), hint)
           reserves == [x.work.reserves EXCEPT ![n] = x.work.vault[n]]
           delta == [x.delta EXCEPT ![n] = @ - credit]
           work == [x.work EXCEPT !.reserves = reserves]
<1>1. y = [x EXCEPT !.work = work, !.delta = delta]
  BY DEF VaultSettle
<1> HIDE DEF reserves, delta
<1>2. work.reserves = reserves /\ work.solver = x.work.solver /\ work.vault = x.work.vault
      /\ work.router = x.work.router /\ work.pool = x.work.pool
      /\ work.collected = x.work.collected /\ work.swept = x.work.swept
      /\ work.trusted = x.work.trusted
  BY DEF Transactions, IntLedgers
<1> HIDE DEF work
<1> HIDE DEF y
<1>3. y.work = work /\ y.delta = delta /\ SameOrder(y, x)
  BY <1>1 DEF Transactions, SameOrder
<1>4. /\ reserves[n] = x.work.vault[n]
      /\ \A t \in Tokens \ {n} : reserves[t] = x.work.reserves[t]
  BY DEF reserves, Transactions, IntLedgers, Amounts
<1>5. /\ delta[n] = x.delta[n] - credit
      /\ \A t \in Tokens \ {n} : delta[t] = x.delta[t]
  BY DEF delta, Transactions, Amounts
<1> QED  BY <1>2, <1>3, <1>4, <1>5 DEF OnlyToken, SettledByVault, y

\* y is x after the Vault has sent the router that amount of token n.
SentToRouter(y, x, n, amount) ==
    /\ OnlyToken(y, x, n)
    /\ y.work.solver[n] = x.work.solver[n]
    /\ y.work.vault[n] = x.work.vault[n] - amount
    /\ y.work.reserves[n] = x.work.reserves[n] - amount
    /\ y.work.router[n] = x.work.router[n] + amount
    /\ y.delta[n] = x.delta[n] + amount

LEMMA VaultSendToRouterAt ==
    ASSUME NEW x \in Transactions, NEW n \in Tokens, NEW amount \in Int
    PROVE  SentToRouter(VaultSendToRouter(x, n, amount), x, n, amount)
<1> DEFINE y == VaultSendToRouter(x, n, amount)
           reserves == [x.work.reserves EXCEPT ![n] = @ - amount]
           vault == [x.work.vault EXCEPT ![n] = @ - amount]
           paid == [x.work.router EXCEPT ![n] = @ + amount]
           work == [x.work EXCEPT !.reserves = reserves, !.vault = vault, !.router = paid]
           delta == [x.delta EXCEPT ![n] = @ + amount]
<1> HIDE DEF reserves, vault, paid
<1>2. work.reserves = reserves /\ work.solver = x.work.solver /\ work.vault = vault
      /\ work.router = paid /\ work.pool = x.work.pool
      /\ work.collected = x.work.collected /\ work.swept = x.work.swept
      /\ work.trusted = x.work.trusted
  BY DEF Transactions, IntLedgers
<1> HIDE DEF work, delta
<1>1. y = [x EXCEPT !.work = work, !.delta = delta]
  BY ZenonT(60) DEF VaultSendToRouter, work, delta, reserves, vault, paid, Transactions, IntLedgers
<1> HIDE DEF y
<1>3. y.work = work /\ y.delta = delta /\ SameOrder(y, x)
  BY <1>1 DEF Transactions, SameOrder
<1>4. /\ reserves[n] = x.work.reserves[n] - amount
      /\ vault[n] = x.work.vault[n] - amount
      /\ paid[n] = x.work.router[n] + amount
      /\ \A t \in Tokens \ {n} : /\ reserves[t] = x.work.reserves[t]
                                 /\ vault[t] = x.work.vault[t]
                                 /\ paid[t] = x.work.router[t]
  BY DEF reserves, vault, paid, Transactions, IntLedgers, Amounts
<1>5. /\ delta[n] = x.delta[n] + amount
      /\ \A t \in Tokens \ {n} : delta[t] = x.delta[t]
  BY DEF delta, Transactions, Amounts
<1> QED  BY <1>2, <1>3, <1>4, <1>5 DEF OnlyToken, SentToRouter, y

\* y is x after the Vault has sent the solver that amount of token n.
SentToSolver(y, x, n, amount) ==
    /\ OnlyToken(y, x, n)
    /\ y.work.solver[n] = x.work.solver[n] + amount
    /\ y.work.vault[n] = x.work.vault[n] - amount
    /\ y.work.reserves[n] = x.work.reserves[n] - amount
    /\ y.work.router[n] = x.work.router[n]
    /\ y.delta[n] = x.delta[n] + amount

LEMMA VaultSendToSolverAt ==
    ASSUME NEW x \in Transactions, NEW n \in Tokens, NEW amount \in Int
    PROVE  SentToSolver(VaultSendToSolver(x, n, amount), x, n, amount)
<1> DEFINE y == VaultSendToSolver(x, n, amount)
           reserves == [x.work.reserves EXCEPT ![n] = @ - amount]
           vault == [x.work.vault EXCEPT ![n] = @ - amount]
           paid == [x.work.solver EXCEPT ![n] = @ + amount]
           work == [x.work EXCEPT !.reserves = reserves, !.vault = vault, !.solver = paid]
           delta == [x.delta EXCEPT ![n] = @ + amount]
<1> HIDE DEF reserves, vault, paid
<1>2. work.reserves = reserves /\ work.solver = paid /\ work.vault = vault
      /\ work.router = x.work.router /\ work.pool = x.work.pool
      /\ work.collected = x.work.collected /\ work.swept = x.work.swept
      /\ work.trusted = x.work.trusted
  BY DEF Transactions, IntLedgers
<1> HIDE DEF work, delta
<1>1. y = [x EXCEPT !.work = work, !.delta = delta]
  BY ZenonT(60) DEF VaultSendToSolver, work, delta, reserves, vault, paid, Transactions, IntLedgers
<1> HIDE DEF y
<1>3. y.work = work /\ y.delta = delta /\ SameOrder(y, x)
  BY <1>1 DEF Transactions, SameOrder
<1>4. /\ reserves[n] = x.work.reserves[n] - amount
      /\ vault[n] = x.work.vault[n] - amount
      /\ paid[n] = x.work.solver[n] + amount
      /\ \A t \in Tokens \ {n} : /\ reserves[t] = x.work.reserves[t]
                                 /\ vault[t] = x.work.vault[t]
                                 /\ paid[t] = x.work.solver[t]
  BY DEF reserves, vault, paid, Transactions, IntLedgers, Amounts
<1>5. /\ delta[n] = x.delta[n] + amount
      /\ \A t \in Tokens \ {n} : delta[t] = x.delta[t]
  BY DEF delta, Transactions, Amounts
<1> QED  BY <1>2, <1>3, <1>4, <1>5 DEF OnlyToken, SentToSolver, y

\* What settle credits for token n, and what the Vault's reserves are then.
Credit(x, n) == IF x.hints[n] > 0 THEN Lesser(Unsettled(x.work, n), x.hints[n]) ELSE 0
Held(x, n) == IF x.hints[n] > 0 THEN x.work.vault[n] ELSE x.work.reserves[n]

\* One round of the loop, token by token.
LEMMA SettledAt ==
    ASSUME NEW x \in Transactions, x.next \in Tokens, x.hints[x.next] >= 0,
           x.credits[x.next] >= 0,
           NEW n, n = x.next, NEW v, v = Settled(x)
    PROVE  /\ OnlyToken(v, x, n)
           /\ v.next = n + 1
           /\ v.work.solver[n] = x.work.solver[n] + x.credits[n]
           /\ v.work.vault[n] = x.work.vault[n] - x.fees[n] - x.credits[n]
           /\ v.work.reserves[n] = Held(x, n) - x.fees[n] - x.credits[n]
           /\ v.work.router[n] = x.work.router[n] + x.fees[n]
           /\ v.delta[n] = x.delta[n] - Credit(x, n) + x.fees[n] + x.credits[n]
<1> DEFINE y == IF x.hints[n] > 0 THEN VaultSettle(x, n, x.hints[n]) ELSE x
           z == IF x.fees[n] > 0 THEN VaultSendToRouter(y, n, x.fees[n]) ELSE y
           u == IF x.credits[n] > 0 THEN VaultSendToSolver(z, n, x.credits[n]) ELSE z
           told == x.credits[n] > 0
<1>1. v = [u EXCEPT !.next = n + 1, !.notified = told]
  BY DEF Settled
<1>2. /\ n \in Tokens
      /\ x.hints[n] \in Int /\ x.fees[n] \in Int /\ x.credits[n] \in Int
      /\ x.fees[n] >= 0 /\ x.credits[n] >= 0
      /\ x.work.solver[n] \in Int /\ x.work.vault[n] \in Int
      /\ x.work.reserves[n] \in Int /\ x.work.router[n] \in Int /\ x.delta[n] \in Int
  BY DEF Transactions, IntLedgers, Amounts
<1>3. Credit(x, n) \in Int /\ Held(x, n) \in Int
  BY <1>2 DEF Credit, Held, Lesser, Unsettled
<1>4. OnlyToken(x, x, n)
  BY DEF OnlyToken, SameOrder
<1>5. /\ y \in Transactions /\ OnlyToken(y, x, n)
      /\ y.work.solver[n] = x.work.solver[n]
      /\ y.work.vault[n] = x.work.vault[n]
      /\ y.work.reserves[n] = Held(x, n)
      /\ y.work.router[n] = x.work.router[n]
      /\ y.delta[n] = x.delta[n] - Credit(x, n)
  <2>1. CASE x.hints[n] > 0
    <3>1. y = VaultSettle(x, n, x.hints[n])
      BY <2>1
    <3> HIDE DEF y
    <3>2. y \in Transactions
      BY <1>2, <3>1, VaultSettleKeeps
    <3>3. Credit(x, n) = Lesser(Unsettled(x.work, n), x.hints[n]) /\ Held(x, n) = x.work.vault[n]
      BY <2>1 DEF Credit, Held
    <3>4. SettledByVault(y, x, n, x.hints[n])
      BY <1>2, <3>1, VaultSettleAt
    <3> QED  BY <3>2, <3>3, <3>4 DEF SettledByVault
  <2>2. CASE ~(x.hints[n] > 0)
    <3>1. y = x /\ Held(x, n) = x.work.reserves[n] /\ Credit(x, n) = 0
      BY SMTT(30), <2>2 DEF Credit, Held
    <3> HIDE DEF y
    <3> QED  BY <1>2, <1>4, <3>1
  <2> QED  BY <2>1, <2>2
<1>6. y.fees = x.fees /\ y.credits = x.credits
  BY <1>5 DEF OnlyToken, SameOrder
<1> HIDE DEF y
<1>7. /\ z \in Transactions /\ OnlyToken(z, y, n)
      /\ z.work.solver[n] = y.work.solver[n]
      /\ z.work.vault[n] = y.work.vault[n] - x.fees[n]
      /\ z.work.reserves[n] = y.work.reserves[n] - x.fees[n]
      /\ z.work.router[n] = y.work.router[n] + x.fees[n]
      /\ z.delta[n] = y.delta[n] + x.fees[n]
  <2>1. CASE x.fees[n] > 0
    <3>1. z = VaultSendToRouter(y, n, x.fees[n])
      BY <2>1
    <3> HIDE DEF z
    <3>2. z \in Transactions
      BY <1>2, <1>5, <3>1, VaultSendToRouterPays
    <3>3. SentToRouter(z, y, n, x.fees[n])
      BY <1>2, <1>5, <3>1, VaultSendToRouterAt
    <3> QED  BY <3>2, <3>3 DEF SentToRouter
  <2>2. CASE ~(x.fees[n] > 0)
    <3>1. z = y /\ x.fees[n] = 0
      BY <1>2, <2>2
    <3> HIDE DEF z
    <3>2. OnlyToken(z, y, n)
      BY <3>1 DEF OnlyToken, SameOrder
    <3>3. /\ y.work.vault[n] \in Int /\ y.work.reserves[n] \in Int
          /\ y.work.router[n] \in Int /\ y.delta[n] \in Int
      BY <1>5 DEF Transactions, IntLedgers, Amounts
    <3> QED  BY <1>5, <3>1, <3>2, <3>3
  <2> QED  BY <2>1, <2>2
<1> HIDE DEF z
<1>8. /\ u \in Transactions /\ OnlyToken(u, z, n)
      /\ u.work.solver[n] = z.work.solver[n] + x.credits[n]
      /\ u.work.vault[n] = z.work.vault[n] - x.credits[n]
      /\ u.work.reserves[n] = z.work.reserves[n] - x.credits[n]
      /\ u.work.router[n] = z.work.router[n]
      /\ u.delta[n] = z.delta[n] + x.credits[n]
  <2>1. CASE x.credits[n] > 0
    <3>1. u = VaultSendToSolver(z, n, x.credits[n])
      BY <2>1
    <3> HIDE DEF u
    <3>2. u \in Transactions
      BY <1>2, <1>7, <3>1, VaultSendToSolverKeeps
    <3>3. SentToSolver(u, z, n, x.credits[n])
      BY <1>2, <1>7, <3>1, VaultSendToSolverAt
    <3> QED  BY <3>2, <3>3 DEF SentToSolver
  <2>2. CASE ~(x.credits[n] > 0)
    <3>1. u = z /\ x.credits[n] = 0
      BY <1>2, <2>2
    <3> HIDE DEF u
    <3>2. OnlyToken(u, z, n)
      BY <3>1 DEF OnlyToken, SameOrder
    <3>3. /\ z.work.vault[n] \in Int /\ z.work.reserves[n] \in Int
          /\ z.work.solver[n] \in Int /\ z.delta[n] \in Int
      BY <1>7 DEF Transactions, IntLedgers, Amounts
    <3> QED  BY <1>7, <3>1, <3>2, <3>3
  <2> QED  BY <2>1, <2>2
<1> HIDE DEF u
<1>9. OnlyToken(u, x, n)
  BY <1>5, <1>7, <1>8, OnlyTokenTwice
<1>10. v.work = u.work /\ v.delta = u.delta /\ v.next = n + 1 /\ SameOrder(v, u)
  <2> HIDE DEF told
  <2> QED  BY <1>1, <1>8 DEF Transactions, SameOrder
<1>11. OnlyToken(v, x, n)
  <2>1. SameOrder(v, x)
    BY <1>9, <1>10 DEF SameOrder, OnlyToken
  <2> QED  BY <1>9, <1>10, <2>1 DEF OnlyToken
<1>12. /\ u.work.solver[n] = x.work.solver[n] + x.credits[n]
       /\ u.work.router[n] = x.work.router[n] + x.fees[n]
  BY <1>2, <1>5, <1>7, <1>8
<1>13. u.work.vault[n] = x.work.vault[n] - x.fees[n] - x.credits[n]
  BY <1>2, <1>5, <1>7, <1>8
<1>14. u.work.reserves[n] = Held(x, n) - x.fees[n] - x.credits[n]
  BY <1>2, <1>3, <1>5, <1>7, <1>8
<1>15. u.delta[n] = x.delta[n] - Credit(x, n) + x.fees[n] + x.credits[n]
  BY <1>2, <1>3, <1>5, <1>7, <1>8
<1> QED  BY <1>10, <1>11, <1>12, <1>13, <1>14, <1>15

\* The integers that the books of a token are made of.
Integral(x, t) ==
    /\ x.in[t] \in Int /\ x.out[t] \in Int /\ x.hints[t] \in Int /\ x.gift[t] \in Int
    /\ x.fees[t] \in Nat /\ x.donated[t] \in Int /\ x.credits[t] \in Int
    /\ x.delta[t] \in Int
    /\ x.work.solver[t] \in Int /\ x.work.vault[t] \in Int /\ x.work.reserves[t] \in Int
    /\ x.work.pool[t] \in Int /\ x.work.router[t] \in Int /\ x.work.collected[t] \in Int
    /\ led.solver[t] \in Int /\ led.vault[t] \in Int /\ led.reserves[t] \in Int
    /\ led.pool[t] \in Int /\ led.router[t] \in Int /\ led.collected[t] \in Int

LEMMA TransactionIntegral ==
    ASSUME led \in IntLedgers, NEW x \in Transactions, NEW t \in Tokens
    PROVE  Integral(x, t)
BY DEF Integral, Transactions, IntLedgers, Amounts

\* A round of the loop keeps the books of every token.
LEMMA SettledKeepsBooks ==
    ASSUME led \in IntLedgers, NEW x \in Transactions, x.next \in Tokens, Kept(x),
           Settled(x).work.reserves[x.next] >= 0
    PROVE  Kept(Settled(x)) /\ Settled(x).work.pool = x.work.pool
<1> DEFINE n == x.next
           v == Settled(x)
<1>1. Order(x, n) /\ Books(x, n) /\ n \in Nat /\ n \in Tokens
  BY TokensNat DEF Kept
<1>2. /\ OnlyToken(v, x, n)
      /\ v.next = n + 1
      /\ v.work.solver[n] = x.work.solver[n] + x.credits[n]
      /\ v.work.vault[n] = x.work.vault[n] - x.fees[n] - x.credits[n]
      /\ v.work.reserves[n] = Held(x, n) - x.fees[n] - x.credits[n]
      /\ v.work.router[n] = x.work.router[n] + x.fees[n]
      /\ v.delta[n] = x.delta[n] - Credit(x, n) + x.fees[n] + x.credits[n]
  BY <1>1, SettledAt DEF Order
<1>3. v.work.reserves[n] >= 0
  OBVIOUS
<1> HIDE DEF v
<1>4. SameOrder(v, x) /\ v.work.pool = x.work.pool
      /\ v.work.collected = x.work.collected /\ v.work.swept = x.work.swept
  BY <1>2 DEF OnlyToken
<1>5. ASSUME NEW t \in Tokens PROVE Order(v, t)
  BY <1>4 DEF SameOrder, Order, Kept
<1>6. ASSUME NEW t \in Tokens, t # n PROVE Books(v, t)
  <2>1. Books(x, t)
    BY DEF Kept
  <2>2. /\ v.work.solver[t] = x.work.solver[t]
        /\ v.work.vault[t] = x.work.vault[t]
        /\ v.work.reserves[t] = x.work.reserves[t]
        /\ v.work.router[t] = x.work.router[t]
        /\ v.delta[t] = x.delta[t]
    BY <1>2, <1>6 DEF OnlyToken
  <2>3. t \in Nat
    BY TokensNat
  <2>4. t >= v.next <=> t >= x.next
    BY <1>1, <1>2, <1>6, <2>3
  <2>5. t < v.next <=> t < x.next
    BY <1>1, <1>2, <1>6, <2>3
  <2>6. Waiting(x, t) => Waiting(v, t)
    BY <1>4, <2>2 DEF Waiting, SameOrder
  <2>7. Done(x, t) => Done(v, t)
    BY <1>4, <2>2 DEF Done, SameOrder
  <2>8. Natural(v.work, t)
    BY <1>4, <2>1, <2>2 DEF Natural, Books
  <2>9. Paid(v.work, t) = Paid(x.work, t)
    BY <1>4 DEF Paid
  <2> QED  BY <1>4, <2>1, <2>2, <2>4, <2>5, <2>6, <2>7, <2>8, <2>9 DEF Books, SameOrder
<1>7. Books(v, n)
  <2>0. Integral(x, n)
    BY <1>1, TransactionIntegral
  <2>1. Waiting(x, n)
    BY <1>1 DEF Books
  <2>2. Credit(x, n) \in Int /\ Held(x, n) \in Int
    BY <2>0 DEF Integral, Credit, Held, Lesser, Unsettled
  \* What is credited has arrived, and all of it when the order was funded.
  <2>3. Held(x, n) >= x.work.reserves[n] + Credit(x, n) /\ Held(x, n) <= x.work.vault[n]
    <3>1. x.work.vault[n] >= x.work.reserves[n]
      BY <1>1 DEF Books
    <3>2. /\ x.work.vault[n] \in Int /\ x.work.reserves[n] \in Int /\ x.hints[n] \in Int
      BY <2>0 DEF Integral
    <3>3. CASE x.hints[n] > 0
      BY <3>1, <3>2, <3>3 DEF Credit, Held, Lesser, Unsettled
    <3>4. CASE ~(x.hints[n] > 0)
      BY <3>1, <3>2, <3>4 DEF Credit, Held
    <3> QED  BY <3>3, <3>4
  <2>4. x.funded => Credit(x, n) = x.hints[n]
    <3>1. x.funded => led.vault[n] - led.reserves[n] >= x.hints[n]
      BY <1>1 DEF Order, Unsettled
    <3>2. x.work.reserves[n] = led.reserves[n] /\ x.work.vault[n] >= led.vault[n]
      BY <2>1 DEF Waiting
    <3>3. x.hints[n] >= 0
      BY <1>1 DEF Order
    <3> QED  BY <2>0, <3>1, <3>2, <3>3 DEF Integral, Credit, Lesser, Unsettled
  <2>5. Natural(v.work, n)
    <3>1. v.work.solver[n] >= 0 /\ v.work.router[n] >= 0
      BY <1>1, <1>2, <2>0 DEF Integral, Books, Natural, Order
    <3>2. v.work.vault[n] >= v.work.reserves[n]
      BY <1>2, <2>0, <2>2, <2>3 DEF Integral
    <3>3. v.work.vault[n] >= 0
      BY <1>2, <1>3, <2>0, <2>2, <3>2 DEF Integral
    <3> QED  BY <1>1, <1>3, <1>4, <3>1, <3>3 DEF Books, Natural
  <2>6. v.work.vault[n] >= v.work.reserves[n]
    BY <1>2, <2>0, <2>2, <2>3 DEF Integral
  <2>7. Paid(v.work, n) = Paid(x.work, n)
    BY <1>4 DEF Paid
  <2>8. n < v.next /\ ~(n >= v.next)
    BY <1>1, <1>2
  <2>9. Done(v, n)
    <3>1. v.delta[n] = x.in[n] - x.out[n] + x.donated[n] - Credit(x, n) + x.fees[n] + x.credits[n]
      BY <1>2, <2>0, <2>1, <2>2 DEF Integral, Waiting
    <3>2. v.delta[n] = x.hints[n] - Credit(x, n)
      BY <1>1, <2>0, <2>2, <3>1 DEF Integral, Order
    <3>3. v.work.reserves[n] + v.delta[n]
              >= x.work.reserves[n] + x.hints[n] - x.fees[n] - x.credits[n]
      <4>1. v.work.reserves[n] >= x.work.reserves[n] + Credit(x, n) - x.fees[n] - x.credits[n]
        BY <1>2, <2>0, <2>2, <2>3 DEF Integral
      <4>2. v.work.reserves[n] \in Int
        BY <1>2, <2>0, <2>2 DEF Integral
      <4>3. /\ x.hints[n] \in Int /\ x.fees[n] \in Int /\ x.credits[n] \in Int
            /\ x.work.reserves[n] \in Int
        BY <2>0 DEF Integral
      <4>4. x.work.reserves[n] + Credit(x, n) - x.fees[n] - x.credits[n] + (x.hints[n] - Credit(x, n))
               = x.work.reserves[n] + x.hints[n] - x.fees[n] - x.credits[n]
        BY <2>2, <4>3
      <4>5. v.delta[n] \in Int
        BY <2>2, <3>2, <4>3
      <4> QED  BY <2>2, <3>2, <4>1, <4>2, <4>3, <4>5
    <3>4. v.work.solver[n] + v.work.vault[n] = led.solver[n] + led.vault[n] - x.fees[n]
      <4>1. v.work.solver[n] + v.work.vault[n]
               = (x.work.solver[n] + x.credits[n]) + (x.work.vault[n] - x.fees[n] - x.credits[n])
        BY <1>2
      <4>2. /\ x.work.solver[n] \in Int /\ x.work.vault[n] \in Int
            /\ x.fees[n] \in Int /\ x.credits[n] \in Int
            /\ led.solver[n] \in Int /\ led.vault[n] \in Int
        BY <2>0 DEF Integral
      <4>3. x.work.solver[n] + x.work.vault[n] = led.solver[n] + led.vault[n]
        BY <2>1 DEF Waiting
      <4> QED  BY <4>1, <4>2, <4>3
    <3>5. x.funded => v.delta[n] = 0
      BY <2>0, <2>2, <2>4, <3>2 DEF Integral
    <3> QED  BY <1>4, <2>1, <3>3, <3>4, <3>5 DEF Done, SameOrder, Waiting
  <2> QED  BY <1>1, <1>4, <2>5, <2>6, <2>7, <2>8, <2>9 DEF Books, SameOrder
<1> QED  BY <1>4, <1>5, <1>6, <1>7 DEF Kept, v

-----------------------------------------------------------------------------
(* Opening an order. *)

\* A token of an order none of whose tokens has been settled.
Fresh(x, t) ==
    /\ x.work.solver[t] = led.solver[t] /\ x.work.vault[t] = led.vault[t]
    /\ x.work.reserves[t] = led.reserves[t] /\ x.work.router[t] = led.router[t]
    /\ x.work.pool[t] = led.pool[t] + x.in[t] - x.out[t] + x.donated[t]
    /\ x.work.collected[t] = led.collected[t] + x.fees[t]
    /\ x.delta[t] = x.in[t] - x.out[t] + x.donated[t]

LEMMA FreshKept ==
    ASSUME led \in IntLedgers, feeSweeper \in Sweepers, Sound(led),
           NEW x \in Transactions, x.next = 1, x.work.swept = led.swept,
           \A t \in Tokens : Order(x, t) /\ Fresh(x, t)
    PROVE  Kept(x)
<1> SUFFICES ASSUME NEW t \in Tokens PROVE Books(x, t)
  BY DEF Kept
<1>1. Integral(x, t) /\ Order(x, t) /\ Fresh(x, t)
  BY TransactionIntegral
<1>2. t \in Nat /\ t >= 1
  BY DEF Tokens
<1>3. Natural(led, t) /\ Covered(led, t)
  BY DEF Sound
<1>4. x.work.pool[t] >= 0 /\ x.work.collected[t] >= 0
  BY <1>1, <1>3 DEF Integral, Order, Fresh, Natural
<1>5. Natural(x.work, t) /\ x.work.vault[t] >= x.work.reserves[t]
  BY <1>1, <1>3, <1>4 DEF Fresh, Natural, Covered
<1>6. Paid(x.work, t) = Paid(led, t) + x.fees[t]
  <2>1. led.swept[feeSweeper][t] \in Int
    BY DEF IntLedgers, Amounts
  <2> QED  BY <1>1, <2>1 DEF Integral, Fresh, Paid
<1>7. Waiting(x, t)
  BY <1>1 DEF Integral, Fresh, Waiting
<1> QED  BY <1>1, <1>2, <1>5, <1>6, <1>7 DEF Books, Fresh

LEMMA OpenedAt ==
    ASSUME led \in IntLedgers, NEW in \in Amounts, NEW out \in Amounts, NEW hints \in Amounts,
           NEW o, o = Opened(in, out, hints)
    PROVE  /\ o \in Transactions /\ o.next = 1 /\ o.work = led /\ o.delta = Zero
           /\ o.in = in /\ o.out = out /\ o.hints = hints /\ o.credits = Zero
           /\ o.funded => \A t \in Tokens : Unsettled(led, t) >= hints[t]
BY OpenedCopies DEF Opened

LEMMA PoolChangedAt ==
    ASSUME NEW x \in Transactions, NEW in \in Amounts, NEW out \in Amounts,
           NEW y, y = VaultPoolChange(x, in, out)
    PROVE  /\ y \in Transactions /\ SameOrder(y, x) /\ y.next = x.next
           /\ y.work.solver = x.work.solver /\ y.work.vault = x.work.vault
           /\ y.work.reserves = x.work.reserves /\ y.work.router = x.work.router
           /\ y.work.collected = x.work.collected /\ y.work.swept = x.work.swept
           /\ y.work.trusted = x.work.trusted
           /\ y.work.pool = [t \in Tokens |-> x.work.pool[t] + in[t] - out[t]]
           /\ y.delta = [t \in Tokens |-> x.delta[t] + in[t] - out[t]]
<1> DEFINE pool == [t \in Tokens |-> x.work.pool[t] + in[t] - out[t]]
           delta == [t \in Tokens |-> x.delta[t] + in[t] - out[t]]
           work == [x.work EXCEPT !.pool = pool]
<1>0. y \in Transactions
  BY VaultPoolChangeKeeps
<1> HIDE DEF pool, delta
<1>1. /\ work.pool = pool
      /\ work.solver = x.work.solver /\ work.vault = x.work.vault
      /\ work.reserves = x.work.reserves /\ work.router = x.work.router
      /\ work.collected = x.work.collected /\ work.swept = x.work.swept
      /\ work.trusted = x.work.trusted
  BY DEF Transactions, IntLedgers
<1> HIDE DEF work
<1>2. y = [x EXCEPT !.work = work, !.delta = delta]
  BY DEF VaultPoolChange, work, pool, delta, Transactions, IntLedgers
<1>3. y.work = work /\ y.delta = delta /\ SameOrder(y, x) /\ y.next = x.next
  BY <1>2 DEF Transactions, SameOrder
<1> QED  BY <1>0, <1>1, <1>3 DEF pool, delta

\* A donation to an order without one.
LEMMA DonatedAt ==
    ASSUME feePercentage \in Nat, NEW x \in Transactions, NEW amounts \in [Tokens -> Nat],
           NEW z, z = DonateToPool(x, amounts)
    PROVE  /\ z.in = x.in /\ z.out = x.out /\ z.hints = x.hints
           /\ z.credits = x.credits /\ z.funded = x.funded /\ z.next = x.next
           /\ z.gift = amounts /\ z.fees = Fees(amounts) /\ z.donated = Donated(amounts)
           /\ z.work.solver = x.work.solver /\ z.work.vault = x.work.vault
           /\ z.work.reserves = x.work.reserves /\ z.work.router = x.work.router
           /\ z.work.swept = x.work.swept /\ z.work.trusted = x.work.trusted
           /\ \A t \in Tokens :
                  /\ z.work.pool[t] = x.work.pool[t] + Donated(amounts)[t]
                  /\ z.delta[t] = x.delta[t] + Donated(amounts)[t]
                  /\ z.work.collected[t] = x.work.collected[t] + Fees(amounts)[t]
<1> DEFINE fees == Fees(amounts)
           donated == Donated(amounts)
           y == VaultPoolChange(x, donated, Zero)
           collected == [t \in Tokens |-> y.work.collected[t] + fees[t]]
           work == [y.work EXCEPT !.collected = collected]
<1>1. fees \in [Tokens -> Nat]
  BY FeesNat
<1>2. donated \in Amounts /\ Zero \in Amounts
  BY <1>1 DEF Donated, Zero, Amounts
<1> HIDE DEF fees, donated
<1>3. /\ y \in Transactions /\ SameOrder(y, x) /\ y.next = x.next
      /\ y.work.solver = x.work.solver /\ y.work.vault = x.work.vault
      /\ y.work.reserves = x.work.reserves /\ y.work.router = x.work.router
      /\ y.work.collected = x.work.collected /\ y.work.swept = x.work.swept
      /\ y.work.trusted = x.work.trusted
      /\ y.work.pool = [t \in Tokens |-> x.work.pool[t] + donated[t] - Zero[t]]
      /\ y.delta = [t \in Tokens |-> x.delta[t] + donated[t] - Zero[t]]
  BY <1>2, PoolChangedAt
<1>4. z = [y EXCEPT !.work = work, !.gift = amounts, !.fees = fees, !.donated = donated]
  BY <1>3 DEF DonateToPool, fees, donated, Transactions, IntLedgers
<1> HIDE DEF y, collected
<1>5. /\ work.collected = collected /\ work.pool = y.work.pool
      /\ work.solver = x.work.solver /\ work.vault = x.work.vault
      /\ work.reserves = x.work.reserves /\ work.router = x.work.router
      /\ work.swept = x.work.swept /\ work.trusted = x.work.trusted
  BY <1>3 DEF Transactions, IntLedgers
<1> HIDE DEF work
<1>6. /\ z.work = work /\ z.delta = y.delta
      /\ z.gift = amounts /\ z.fees = fees /\ z.donated = donated
      /\ z.in = x.in /\ z.out = x.out /\ z.hints = x.hints
      /\ z.credits = x.credits /\ z.funded = x.funded /\ z.next = x.next
  BY <1>3, <1>4 DEF Transactions, SameOrder
<1>7. ASSUME NEW t \in Tokens
      PROVE  /\ z.work.pool[t] = x.work.pool[t] + donated[t]
             /\ z.delta[t] = x.delta[t] + donated[t]
             /\ z.work.collected[t] = x.work.collected[t] + fees[t]
  <2>1. Zero[t] = 0 /\ donated[t] \in Int /\ x.work.pool[t] \in Int /\ x.delta[t] \in Int
    BY <1>2 DEF Zero, Transactions, IntLedgers, Amounts
  <2>2. /\ z.work.pool[t] = x.work.pool[t] + donated[t] - Zero[t]
        /\ z.delta[t] = x.delta[t] + donated[t] - Zero[t]
    BY <1>3, <1>5, <1>6
  <2>3. z.work.collected[t] = x.work.collected[t] + fees[t]
    BY <1>3, <1>5, <1>6 DEF collected
  <2> QED  BY <2>1, <2>2, <2>3
<1> QED  BY <1>5, <1>6, <1>7 DEF fees, donated

\* The credit check and the fees make an order of what the solver asks for.
LEMMA DrawnUp ==
    ASSUME BooksInv, NEW donations \in [Tokens -> Nat], NEW t \in Tokens
    PROVE  /\ Fees(donations)[t] = ProtocolFee(donations[t])
           /\ Donated(donations)[t] = donations[t] - Fees(donations)[t]
           /\ Fees(donations)[t] \in Nat /\ Donated(donations)[t] \in Nat
           /\ donations[t] \in Nat
<1>1. donations[t] \in Nat
  OBVIOUS
<1>2. Fees(donations)[t] = ProtocolFee(donations[t])
  BY DEF Fees
<1>3. ProtocolFee(donations[t]) \in 0..donations[t]
  BY <1>1, FeeIsPart DEF BooksInv, IInv, Shape
<1>4. Donated(donations)[t] = donations[t] - Fees(donations)[t]
  BY DEF Donated
<1> QED  BY <1>1, <1>2, <1>3, <1>4

LEMMA SwapKept ==
    ASSUME BooksInv, IInv', tx' # NoTx,
           NEW tokenIn \in Tokens, NEW tokenOut \in Tokens,
           NEW amountIn \in 0..MaxSwap, NEW amountOut \in 0..MaxSwap,
           NEW donations \in [Tokens -> Nat], NEW hints \in [Tokens -> Nat],
           NEW expired \in BOOLEAN,
           SwapAndDonate(tokenIn, tokenOut, amountIn, amountOut, donations, hints, expired)
    PROVE  Kept(tx')
<1> DEFINE in == [Zero EXCEPT ![tokenIn] = amountIn]
           out == [Zero EXCEPT ![tokenOut] = amountOut]
           o == Opened(in, out, hints)
           y == VaultPoolChange(o, in, out)
           x == DonateToPool(y, donations)
           credits == [t \in Tokens |-> SenderCredits(x)[t] - SenderDebts(x)[t]]
<1>1. /\ tx' = [x EXCEPT !.credits = credits] /\ UNCHANGED <<led, config>>
      /\ PoolTrustsRouter /\ amountOut <= led.pool[tokenOut]
      /\ \A t \in Tokens : SenderCredits(x)[t] >= SenderDebts(x)[t]
  BY DEF SwapAndDonate
<1>2. led \in IntLedgers /\ feePercentage \in Nat /\ feeSweeper \in Sweepers /\ Sound(led)
  BY DEF BooksInv, IInv, Shape
<1>3. in \in Amounts /\ out \in Amounts /\ hints \in Amounts
  BY AmountAssumption DEF Zero, Amounts
<1>4. ASSUME NEW t \in Tokens
      PROVE  in[t] \in Nat /\ out[t] \in Nat /\ hints[t] \in Nat /\ out[t] <= led.pool[t]
  <2>1. led.pool[t] \in Int /\ led.pool[t] >= 0
    BY <1>2 DEF Sound, Natural, IntLedgers, Amounts
  <2>2. out[t] = IF t = tokenOut THEN amountOut ELSE 0
    BY DEF Zero
  <2>3. in[t] = IF t = tokenIn THEN amountIn ELSE 0
    BY DEF Zero
  <2> HIDE DEF in, out
  <2> QED  BY <1>1, <2>1, <2>2, <2>3, AmountAssumption
<1> HIDE DEF in, out
<1>5. /\ o \in Transactions /\ o.next = 1 /\ o.work = led /\ o.delta = Zero
      /\ o.in = in /\ o.out = out /\ o.hints = hints
      /\ o.funded => \A t \in Tokens : Unsettled(led, t) >= hints[t]
  BY <1>2, <1>3, OpenedAt
<1> HIDE DEF o
<1>6. /\ y \in Transactions /\ SameOrder(y, o) /\ y.next = 1
      /\ y.work.solver = led.solver /\ y.work.vault = led.vault
      /\ y.work.reserves = led.reserves /\ y.work.router = led.router
      /\ y.work.collected = led.collected /\ y.work.swept = led.swept
      /\ y.work.trusted = led.trusted
      /\ y.work.pool = [t \in Tokens |-> led.pool[t] + in[t] - out[t]]
      /\ y.delta = [t \in Tokens |-> Zero[t] + in[t] - out[t]]
  BY <1>3, <1>5, PoolChangedAt
<1> HIDE DEF y
<1>7. y.in = in /\ y.out = out /\ y.hints = hints /\ y.funded = o.funded
  BY <1>5, <1>6 DEF SameOrder
<1>8. /\ x.in = in /\ x.out = out /\ x.hints = hints /\ x.funded = o.funded /\ x.next = 1
      /\ x.gift = donations /\ x.fees = Fees(donations) /\ x.donated = Donated(donations)
      /\ x.work.solver = led.solver /\ x.work.vault = led.vault
      /\ x.work.reserves = led.reserves /\ x.work.router = led.router
      /\ x.work.swept = led.swept
      /\ \A t \in Tokens :
             /\ x.work.pool[t] = led.pool[t] + in[t] - out[t] + Donated(donations)[t]
             /\ x.delta[t] = Zero[t] + in[t] - out[t] + Donated(donations)[t]
             /\ x.work.collected[t] = led.collected[t] + Fees(donations)[t]
  BY <1>2, <1>6, <1>7, DonatedAt
<1>9. x \in Transactions
  BY <1>2, <1>6, DonationSolvent DEF BooksInv, IInv
<1> HIDE DEF x
<1>10. /\ tx' \in Transactions /\ tx'.work = x.work /\ tx'.delta = x.delta
       /\ tx'.credits = credits /\ tx'.next = 1
       /\ tx'.in = in /\ tx'.out = out /\ tx'.hints = hints /\ tx'.funded = o.funded
       /\ tx'.gift = donations /\ tx'.fees = Fees(donations)
       /\ tx'.donated = Donated(donations)
  <2>1. tx' \in Transactions
    BY DEF IInv, Shape
  <2> HIDE DEF credits
  <2> QED  BY <1>1, <1>8, <1>9, <2>1 DEF Transactions
<1>11. ASSUME NEW t \in Tokens PROVE Order(tx', t) /\ Fresh(tx', t)
  <2>1. /\ Fees(donations)[t] = ProtocolFee(donations[t])
        /\ Donated(donations)[t] = donations[t] - Fees(donations)[t]
        /\ Fees(donations)[t] \in Nat /\ Donated(donations)[t] \in Nat
        /\ donations[t] \in Nat
    BY DrawnUp
  <2>2. in[t] \in Nat /\ out[t] \in Nat /\ hints[t] \in Nat /\ out[t] <= led.pool[t]
    BY <1>4
  <2>3. /\ credits[t] = (hints[t] + out[t])
                            - (Donated(donations)[t] + Fees(donations)[t] + in[t])
        /\ hints[t] + out[t] >= Donated(donations)[t] + Fees(donations)[t] + in[t]
    BY <1>1, <1>8 DEF SenderCredits, SenderDebts
  <2>4. credits[t] = hints[t] + out[t] - in[t] - donations[t] /\ credits[t] >= 0
    BY <2>1, <2>2, <2>3
  <2>5. Order(tx', t)
    BY <1>5, <1>10, <2>1, <2>2, <2>4 DEF Order
  <2>6. x.delta[t] = in[t] - out[t] + Donated(donations)[t]
    <3>1. x.delta[t] = 0 + in[t] - out[t] + Donated(donations)[t]
      BY <1>8 DEF Zero
    <3> QED  BY <2>1, <2>2, <3>1
  <2>7. Fresh(tx', t)
    BY <1>8, <1>10, <2>6 DEF Fresh
  <2> QED  BY <2>5, <2>7
<1>12. tx'.work.swept = led.swept
  BY <1>8, <1>10
<1>13. Kept(tx')
  BY <1>2, <1>10, <1>11, <1>12, FreshKept
<1> QED  BY <1>1, <1>13

LEMMA DonateKept ==
    ASSUME BooksInv, IInv', tx' # NoTx, NEW donations \in [Tokens -> Nat], Donate(donations)
    PROVE  Kept(tx')
<1> DEFINE o == Opened(Zero, Zero, donations)
<1>1. /\ tx' = DonateToPool(o, donations) /\ UNCHANGED <<led, config>>
      /\ DonationReachesPool(donations) => PoolTrustsRouter
  BY DEF Donate
<1>2. led \in IntLedgers /\ feePercentage \in Nat /\ feeSweeper \in Sweepers /\ Sound(led)
  BY DEF BooksInv, IInv, Shape
<1>3. Zero \in Amounts /\ donations \in Amounts
  BY DEF Zero, Amounts
<1>4. /\ o \in Transactions /\ o.next = 1 /\ o.work = led /\ o.delta = Zero
      /\ o.in = Zero /\ o.out = Zero /\ o.hints = donations /\ o.credits = Zero
      /\ o.funded => \A t \in Tokens : Unsettled(led, t) >= donations[t]
  BY <1>2, <1>3, OpenedAt
<1> HIDE DEF o
<1>5. /\ tx'.in = Zero /\ tx'.out = Zero /\ tx'.hints = donations
      /\ tx'.credits = Zero /\ tx'.funded = o.funded /\ tx'.next = 1
      /\ tx'.gift = donations /\ tx'.fees = Fees(donations)
      /\ tx'.donated = Donated(donations)
      /\ tx'.work.solver = led.solver /\ tx'.work.vault = led.vault
      /\ tx'.work.reserves = led.reserves /\ tx'.work.router = led.router
      /\ tx'.work.swept = led.swept
      /\ \A t \in Tokens :
             /\ tx'.work.pool[t] = led.pool[t] + Donated(donations)[t]
             /\ tx'.delta[t] = Zero[t] + Donated(donations)[t]
             /\ tx'.work.collected[t] = led.collected[t] + Fees(donations)[t]
  BY <1>1, <1>2, <1>4, DonatedAt
<1>6. tx' \in Transactions
  BY DEF IInv, Shape
<1>7. ASSUME NEW t \in Tokens PROVE Order(tx', t) /\ Fresh(tx', t)
  <2>1. /\ Fees(donations)[t] = ProtocolFee(donations[t])
        /\ Donated(donations)[t] = donations[t] - Fees(donations)[t]
        /\ Fees(donations)[t] \in Nat /\ Donated(donations)[t] \in Nat
        /\ donations[t] \in Nat
    BY DrawnUp
  <2>2. Zero[t] = 0 /\ led.pool[t] \in Int /\ led.pool[t] >= 0
    BY <1>2 DEF Zero, Sound, Natural, IntLedgers, Amounts
  <2>3. donations[t] + 0 - 0 - donations[t] = 0
    BY <2>1
  <2>4. Order(tx', t)
    BY <1>4, <1>5, <2>1, <2>2, <2>3 DEF Order
  <2>5. Fresh(tx', t)
    BY <1>5, <2>1, <2>2 DEF Fresh
  <2> QED  BY <2>4, <2>5
<1>8. Kept(tx')
  BY <1>2, <1>5, <1>6, <1>7, FreshKept
<1>9. ASSUME ~DonationReachesPool(donations) PROVE tx'.work.pool = led.pool
  <2>1. ASSUME NEW t \in Tokens PROVE tx'.work.pool[t] = led.pool[t]
    <3>1. Donated(donations)[t] = 0
      BY <1>9, DrawnUp DEF DonationReachesPool
    <3>2. led.pool[t] \in Int
      BY <1>2 DEF IntLedgers, Amounts
    <3> QED  BY <1>5, <3>1, <3>2
  <2> QED  BY <1>2, <1>6, <2>1 DEF Transactions, IntLedgers, Amounts
<1> QED  BY <1>1, <1>8, <1>9

-----------------------------------------------------------------------------
(* What anyone may do, in the middle of an order too. *)

Harmless(k, l) ==
    /\ k.reserves = l.reserves /\ k.pool = l.pool
    /\ \A t \in Tokens : /\ Natural(k, t)
                         /\ Paid(k, t) = Paid(l, t)
                         /\ k.vault[t] >= l.vault[t]
                         /\ k.solver[t] + k.vault[t] = l.solver[t] + l.vault[t]

LEMMA WithdrawnHarmless ==
    ASSUME feeSweeper \in Sweepers, NEW l \in IntLedgers, \A t \in Tokens : Natural(l, t),
           NEW n \in Tokens, CanWithdraw(l, n)
    PROVE  Harmless(Withdrawn(l, n), l)
<1> DEFINE router == [l.router EXCEPT ![n] = @ - l.collected[n]]
           collected == [l.collected EXCEPT ![n] = 0]
           mine == [l.swept[feeSweeper] EXCEPT ![n] = @ + l.collected[n]]
           swept == [l.swept EXCEPT ![feeSweeper] = mine]
           k == Withdrawn(l, n)
<1> HIDE DEF mine, router, collected, swept
<1>1. k = [l EXCEPT !.collected = collected, !.router = router, !.swept = swept]
  BY DEF Withdrawn, mine, router, collected, swept, IntLedgers
<1> HIDE DEF k
<1>2. /\ k.collected = collected /\ k.router = router /\ k.swept = swept
      /\ k.solver = l.solver /\ k.vault = l.vault /\ k.reserves = l.reserves
      /\ k.pool = l.pool
  BY <1>1 DEF IntLedgers
<1>3. ASSUME NEW t \in Tokens
      PROVE  Natural(k, t) /\ Paid(k, t) = Paid(l, t)
  <2>1. /\ l.router[t] \in Int /\ l.collected[t] \in Int /\ l.collected[t] >= 0
        /\ Natural(l, t) /\ l.router[n] >= l.collected[n]
        /\ l.router[n] \in Int /\ l.collected[n] \in Int
        /\ \A s \in Sweepers : l.swept[s][t] \in Int /\ l.swept[s][t] >= 0
    BY DEF Natural, IntLedgers, Amounts, CanWithdraw
  <2>2. router[t] = IF t = n THEN l.router[n] - l.collected[n] ELSE l.router[t]
    BY DEF router, IntLedgers, Amounts
  <2>3. collected[t] = IF t = n THEN 0 ELSE l.collected[t]
    BY DEF collected, IntLedgers, Amounts
  <2>4. mine[t] = IF t = n THEN l.swept[feeSweeper][n] + l.collected[n]
                  ELSE l.swept[feeSweeper][t]
    BY DEF mine, IntLedgers, Amounts
  <2>5. ASSUME NEW s \in Sweepers
        PROVE  swept[s] = IF s = feeSweeper THEN mine ELSE l.swept[s]
    BY DEF swept, IntLedgers
  <2>6. router[t] >= 0 /\ collected[t] >= 0
    BY <2>1, <2>2, <2>3 DEF Natural
  <2>7. ASSUME NEW s \in Sweepers PROVE swept[s][t] >= 0
    <3>1. CASE s = feeSweeper
      BY <2>1, <2>4, <2>5, <3>1
    <3>2. CASE s # feeSweeper
      BY <2>1, <2>5, <3>2
    <3> QED  BY <3>1, <3>2
  <2>8. Natural(k, t)
    BY <1>2, <2>1, <2>6, <2>7 DEF Natural
  <2>9. collected[t] + swept[feeSweeper][t] = l.collected[t] + l.swept[feeSweeper][t]
    <3>1. swept[feeSweeper][t] = mine[t]
      BY <2>5
    <3>2. CASE t = n
      BY <2>1, <2>3, <2>4, <3>1, <3>2
    <3>3. CASE t # n
      BY <2>3, <2>4, <3>1, <3>3
    <3> QED  BY <3>2, <3>3
  <2> QED  BY <1>2, <2>8, <2>9 DEF Paid
<1>4. ASSUME NEW t \in Tokens PROVE l.vault[t] \in Int
  BY DEF IntLedgers, Amounts
<1> QED  BY <1>2, <1>3, <1>4 DEF Harmless, k

LEMMA SentHarmless ==
    ASSUME NEW l \in IntLedgers, \A t \in Tokens : Natural(l, t),
           NEW n \in Tokens, l.solver[n] > 0
    PROVE  Harmless(Sent(l, n), l)
<1> DEFINE solver == [l.solver EXCEPT ![n] = @ - 1]
           vault == [l.vault EXCEPT ![n] = @ + 1]
           k == Sent(l, n)
<1> HIDE DEF solver, vault
<1>1. k = [l EXCEPT !.solver = solver, !.vault = vault]
  BY DEF Sent, solver, vault
<1> HIDE DEF k
<1>2. /\ k.collected = l.collected /\ k.router = l.router /\ k.swept = l.swept
      /\ k.solver = solver /\ k.vault = vault /\ k.reserves = l.reserves
      /\ k.pool = l.pool
  BY <1>1 DEF IntLedgers
<1>3. ASSUME NEW t \in Tokens
      PROVE  /\ solver[t] >= 0 /\ vault[t] >= 0 /\ vault[t] >= l.vault[t]
             /\ solver[t] + vault[t] = l.solver[t] + l.vault[t]
  <2>1. /\ l.solver[t] \in Int /\ l.vault[t] \in Int /\ l.solver[t] >= 0 /\ l.vault[t] >= 0
        /\ l.solver[n] \in Int /\ l.vault[n] \in Int
    BY DEF Natural, IntLedgers, Amounts
  <2>2. solver[t] = IF t = n THEN l.solver[n] - 1 ELSE l.solver[t]
    BY DEF solver, IntLedgers, Amounts
  <2>3. vault[t] = IF t = n THEN l.vault[n] + 1 ELSE l.vault[t]
    BY DEF vault, IntLedgers, Amounts
  <2> QED  BY <2>1, <2>2, <2>3
<1>4. ASSUME NEW t \in Tokens PROVE Natural(k, t) /\ Paid(k, t) = Paid(l, t)
  BY <1>2, <1>3 DEF Natural, Paid
<1> QED  BY <1>2, <1>3, <1>4 DEF Harmless, k

LEMMA RefreshHarmless ==
    ASSUME NEW l \in IntLedgers, \A t \in Tokens : Natural(l, t)
    PROVE  Harmless([l EXCEPT !.trusted = factoryRouter], l)
<1> DEFINE k == [l EXCEPT !.trusted = factoryRouter]
<1>1. /\ k.collected = l.collected /\ k.router = l.router /\ k.swept = l.swept
      /\ k.solver = l.solver /\ k.vault = l.vault /\ k.reserves = l.reserves
      /\ k.pool = l.pool
  BY DEF IntLedgers
<1> HIDE DEF k
<1>2. ASSUME NEW t \in Tokens PROVE Natural(k, t) /\ Paid(k, t) = Paid(l, t)
  BY <1>1 DEF Natural, Paid
<1>3. ASSUME NEW t \in Tokens PROVE l.vault[t] \in Int
  BY DEF IntLedgers, Amounts
<1> QED  BY <1>1, <1>2, <1>3 DEF Harmless, k

\* Such a change of the transaction's copy keeps the books.
LEMMA HarmlessKeepsBooks ==
    ASSUME led \in IntLedgers, NEW x \in Transactions, Kept(x),
           NEW k \in IntLedgers, Harmless(k, x.work)
    PROVE  Kept([x EXCEPT !.work = k])
<1> DEFINE z == [x EXCEPT !.work = k]
<1>1. z.work = k /\ z.delta = x.delta /\ z.next = x.next /\ SameOrder(z, x)
  BY DEF Transactions, SameOrder
<1> HIDE DEF z
<1>2. ASSUME NEW t \in Tokens PROVE Order(z, t)
  BY <1>1 DEF SameOrder, Order, Kept
<1>3. ASSUME NEW t \in Tokens PROVE Books(z, t)
  <2>1. /\ Natural(k, t) /\ Paid(k, t) = Paid(x.work, t)
        /\ k.vault[t] >= x.work.vault[t]
        /\ k.solver[t] + k.vault[t] = x.work.solver[t] + x.work.vault[t]
        /\ k.reserves = x.work.reserves /\ k.pool = x.work.pool
    BY DEF Harmless
  <2>2. Books(x, t) /\ Integral(x, t) /\ k.vault[t] \in Int
    BY TransactionIntegral DEF Kept, IntLedgers, Amounts
  <2>3. k.vault[t] >= k.reserves[t]
    BY <2>1, <2>2 DEF Books, Integral
  <2>4. Waiting(x, t) => Waiting(z, t)
    BY <1>1, <2>1, <2>2 DEF Waiting, SameOrder, Integral
  <2>5. Done(x, t) => Done(z, t)
    BY <1>1, <2>1 DEF Done, SameOrder
  <2> QED  BY <1>1, <2>1, <2>2, <2>3, <2>4, <2>5 DEF Books, SameOrder
<1> QED  BY <1>2, <1>3 DEF Kept, z

\* The books do not depend on what governance may change between orders.
LEMMA BooksFrame ==
    ASSUME BooksInv, IInv', UNCHANGED <<led, config>>, Kept(tx')
    PROVE  BooksInv'
<1>1. led' = led /\ feePercentage' = feePercentage /\ feeSweeper' = feeSweeper
  BY DEF config
<1>2. Sound(led)'
  BY <1>1 DEF BooksInv, Sound, Natural, Covered
<1>3. Kept(tx)'
  BY <1>1 DEF Kept, Order, Books, Natural, Waiting, Done, Paid, Unsettled,
              ProtocolFee, MulUp
<1> QED  BY <1>1, <1>2, <1>3 DEF BooksInv, MaxProtocolFeePercentage

LEMMA HarmlessStep ==
    ASSUME BooksInv, IInv', UNCHANGED config, NEW k \in IntLedgers,
           \/ ~tx.open /\ led' = k /\ Harmless(k, led) /\ UNCHANGED tx
           \/ /\ tx.open /\ tx' = [tx EXCEPT !.work = k] /\ UNCHANGED led
              /\ Harmless(k, tx.work)
    PROVE  BooksInv'
<1>1. CASE ~tx.open
  <2>1. tx' = NoTx /\ led' = k /\ Harmless(k, led) /\ led \in IntLedgers /\ Sound(led)
    BY <1>1, OpenTx DEF BooksInv, IInv, Shape
  <2>2. ASSUME NEW t \in Tokens PROVE Natural(k, t) /\ Covered(k, t)
    <3>1. /\ led.vault[t] \in Int /\ led.reserves[t] \in Int /\ k.vault[t] \in Int
          /\ k.reserves = led.reserves /\ k.pool = led.pool /\ k.vault[t] >= led.vault[t]
          /\ led.vault[t] >= led.reserves[t] /\ led.reserves[t] >= led.pool[t]
      BY <2>1 DEF Harmless, Sound, Covered, IntLedgers, Amounts
    <3>2. k.vault[t] >= k.reserves[t] /\ k.reserves[t] >= k.pool[t]
      BY <3>1
    <3> QED  BY <2>1, <3>2 DEF Harmless, Covered
  <2>3. Sound(led)'
    BY <2>1, <2>2 DEF Sound, Natural, Covered
  <2> QED  BY <2>1, <2>3 DEF BooksInv, config, MaxProtocolFeePercentage
<1>2. CASE tx.open
  <2>1. /\ tx \in Transactions /\ Kept(tx) /\ led \in IntLedgers
        /\ tx' = [tx EXCEPT !.work = k] /\ UNCHANGED led /\ Harmless(k, tx.work)
    BY <1>2, OpenTx DEF BooksInv, IInv, Shape
  <2>2. Kept(tx')
    BY <2>1, HarmlessKeepsBooks
  <2> QED  BY <2>1, <2>2, BooksFrame
<1> QED  BY <1>1, <1>2

-----------------------------------------------------------------------------
(* The end of an order. *)

\* What the books say of a token once every delta is zero.
LEMMA BalancedMovesExactly ==
    ASSUME BooksInv, tx \in Transactions, Balanced(tx), NEW t \in Tokens
    PROVE  LET fee == ProtocolFee(tx.gift[t])
               k == tx.work
           IN  /\ k.pool[t] = led.pool[t] + tx.in[t] - tx.out[t] + tx.gift[t] - fee
               /\ Paid(k, t) = Paid(led, t) + fee
               /\ Purse(k, t) + Stuck(k, t) = Purse(led, t) + Stuck(led, t)
                                                 - tx.in[t] + tx.out[t] - tx.gift[t]
               /\ Stuck(k, t) >= Stuck(led, t)
               /\ Natural(k, t) /\ Covered(k, t)
<1> DEFINE k == tx.work
           fee == ProtocolFee(tx.gift[t])
<1>1. tx # NoTx /\ Kept(tx) /\ led \in IntLedgers
  BY OpenTx DEF BooksInv, IInv, Shape
<1>2. Order(tx, t) /\ Books(tx, t) /\ Integral(tx, t) /\ Covered(led, t)
  BY <1>1, TransactionIntegral DEF Kept, BooksInv, Sound
<1>3. t < tx.next /\ tx.delta[t] = 0
  BY TokensAssumption DEF Balanced, Tokens, Transactions, Zero
<1>4. Done(tx, t) /\ fee = tx.fees[t]
  BY <1>2, <1>3 DEF Books, Order
<1> HIDE DEF fee
<1>5. k.pool[t] = led.pool[t] + tx.in[t] - tx.out[t] + tx.gift[t] - fee
  BY <1>2, <1>4 DEF Books, Order, Integral
<1>6. Paid(k, t) = Paid(led, t) + fee
  BY <1>2, <1>4 DEF Books
<1>7. k.reserves[t] >= led.reserves[t] + tx.hints[t] - fee - tx.credits[t]
  BY <1>2, <1>3, <1>4 DEF Done, Integral
<1>8. k.reserves[t] >= led.reserves[t] + tx.in[t] + tx.gift[t] - tx.out[t] - fee
  BY <1>2, <1>4, <1>7 DEF Order, Integral
<1>9. Stuck(k, t) >= Stuck(led, t)
  BY <1>2, <1>4, <1>5, <1>8 DEF Stuck, Integral
<1>10. Purse(k, t) + Stuck(k, t) = Purse(led, t) + Stuck(led, t)
                                      - tx.in[t] + tx.out[t] - tx.gift[t]
  <2>1. Purse(k, t) + Stuck(k, t) = k.solver[t] + k.vault[t] - k.pool[t]
    BY <1>2 DEF Purse, Stuck, Unsettled, Integral
  <2>3. k.solver[t] + k.vault[t] = led.solver[t] + led.vault[t] - fee
    BY <1>4 DEF Done
  <2>4. /\ k.solver[t] \in Int /\ k.vault[t] \in Int /\ k.pool[t] \in Int
        /\ led.solver[t] \in Int /\ led.vault[t] \in Int /\ led.pool[t] \in Int
        /\ tx.in[t] \in Int /\ tx.out[t] \in Int /\ tx.gift[t] \in Int /\ fee \in Int
    BY <1>2, <1>4 DEF Integral
  <2>5. k.solver[t] + k.vault[t] - k.pool[t]
           = (led.solver[t] + led.vault[t] - led.pool[t]) - tx.in[t] + tx.out[t] - tx.gift[t]
    BY <1>5, <2>3, <2>4
  <2>6. (led.solver[t] + led.vault[t] - led.pool[t]) - tx.in[t] + tx.out[t] - tx.gift[t]
           = Purse(led, t) + Stuck(led, t) - tx.in[t] + tx.out[t] - tx.gift[t]
    BY <1>2, <2>4 DEF Purse, Stuck, Unsettled, Integral
  <2> QED  BY <2>1, <2>5, <2>6
<1>11. Natural(k, t) /\ Covered(k, t)
  <2>1. k.reserves[t] - k.pool[t] >= led.reserves[t] - led.pool[t]
    BY <1>9 DEF Stuck
  <2>2. led.reserves[t] >= led.pool[t] /\ k.vault[t] >= k.reserves[t] /\ Natural(k, t)
    BY <1>2 DEF Covered, Books
  <2> QED  BY <1>2, <2>1, <2>2 DEF Integral, Covered
<1> QED  BY <1>5, <1>6, <1>9, <1>10, <1>11 DEF fee

LEMMA InitBooks == Init => BooksInv
<1> SUFFICES ASSUME Init PROVE BooksInv
  OBVIOUS
<1>1. IInv
  BY InitIInv
<1>2. feePercentage <= MaxProtocolFeePercentage
  BY FeeAssumption DEF Init, MaxProtocolFeePercentage
<1>3. ASSUME NEW t \in Tokens PROVE Natural(led, t) /\ Covered(led, t)
  <2>1. /\ led.solver[t] = SolverFunds /\ led.vault[t] = PoolFunds
        /\ led.reserves[t] = PoolFunds /\ led.pool[t] = PoolFunds
        /\ led.router[t] = 0 /\ led.collected[t] = 0
        /\ \A s \in Sweepers : led.swept[s][t] = 0
    BY DEF Init, Zero
  <2> QED  BY <2>1, AmountAssumption DEF Natural, Covered
<1> QED  BY <1>1, <1>2, <1>3 DEF Init, BooksInv, Sound

\* Liquidity that comes and goes leaves the Vault's books covered.
LEMMA LiquidityKeepsSound ==
    ASSUME led \in IntLedgers, Sound(led), NEW n \in 1..LpParts,
           NEW l \in {Joined(led, n), Left(led, n)}, NEW t \in Tokens
    PROVE  Natural(l, t) /\ Covered(l, t)
<1> DEFINE up == PartUp(led.pool[t], n)
           down == PartDown(led.pool[t], n)
<1>1. /\ led.solver[t] \in Nat /\ led.vault[t] \in Nat /\ led.reserves[t] \in Nat
      /\ led.pool[t] \in Nat /\ led.vault[t] >= led.reserves[t]
      /\ led.reserves[t] >= led.pool[t]
  BY DEF Sound, Natural, Covered, IntLedgers, Amounts
<1>2. Natural(led, t) /\ n \in Int
  BY DEF Sound
<1>3. up \in Int /\ up >= 0 /\ down \in Int /\ down >= 0 /\ down <= led.pool[t]
  BY <1>1, PartsInt, PartsBounds
<1>4. CASE l = Joined(led, n)
  <2>1. /\ l.solver = led.solver /\ l.router = led.router
        /\ l.collected = led.collected /\ l.swept = led.swept
        /\ l.pool[t] = led.pool[t] + up /\ l.vault[t] = led.vault[t] + up
        /\ l.reserves[t] = IF up > 0 THEN led.vault[t] + up ELSE led.reserves[t]
    BY <1>2, <1>4, JoinedAt
  <2> HIDE DEF up
  <2>2. /\ l.vault[t] >= 0 /\ l.reserves[t] >= 0 /\ l.pool[t] >= 0
        /\ l.vault[t] >= l.reserves[t] /\ l.reserves[t] >= l.pool[t]
    BY <1>1, <1>3, <2>1
  <2> QED  BY <1>2, <2>1, <2>2 DEF Natural, Covered
<1>5. CASE l = Left(led, n)
  <2>1. /\ l.solver = led.solver /\ l.router = led.router
        /\ l.collected = led.collected /\ l.swept = led.swept
        /\ l.pool[t] = led.pool[t] - down /\ l.vault[t] = led.vault[t] - down
        /\ l.reserves[t] = led.reserves[t] - down
    BY <1>2, <1>5, LeftAt
  <2> HIDE DEF down
  <2>2. /\ l.vault[t] >= 0 /\ l.reserves[t] >= 0 /\ l.pool[t] >= 0
        /\ l.vault[t] >= l.reserves[t] /\ l.reserves[t] >= l.pool[t]
    BY <1>1, <1>3, <2>1
  <2> QED  BY <1>2, <2>1, <2>2 DEF Natural, Covered
<1> QED  BY <1>4, <1>5

LEMMA StepBooks == BooksInv /\ [Next]_vars => BooksInv'
<1> SUFFICES ASSUME BooksInv, [Next]_vars PROVE BooksInv'
  OBVIOUS
<1>a. IInv'
  BY StepIInv DEF BooksInv
<1>b. led \in IntLedgers /\ Sound(led) /\ IInv /\ feeSweeper \in Sweepers /\ Shape
  BY DEF BooksInv, IInv, Shape
<1>c. ASSUME tx.open
      PROVE  /\ tx \in Transactions /\ Kept(tx)
             /\ tx.work \in IntLedgers /\ \A t \in Tokens : Natural(tx.work, t)
  <2>1. tx \in Transactions /\ Kept(tx)
    BY <1>b, <1>c, OpenTx DEF BooksInv
  <2> QED  BY <2>1 DEF Transactions, Kept, Books
<1>d. \A t \in Tokens : Natural(led, t)
  BY <1>b DEF Sound
<1>e. ASSUME ~tx.open, UNCHANGED <<led, tx>>, feePercentage' <= MaxProtocolFeePercentage
      PROVE  BooksInv'
  <2>1. tx' = NoTx
    BY <1>b, <1>e, OpenTx
  <2> QED  BY <1>a, <1>b, <1>e, <2>1
           DEF BooksInv, Sound, Natural, Covered, MaxProtocolFeePercentage
<1>1. ASSUME NEW tokenIn \in Tokens, NEW tokenOut \in Tokens,
             NEW amountIn \in 0..MaxSwap, NEW amountOut \in 0..MaxSwap,
             NEW donations \in Donations, NEW hints \in Hints, NEW expired \in BOOLEAN,
             SwapAndDonate(tokenIn, tokenOut, amountIn, amountOut, donations, hints, expired)
      PROVE  BooksInv'
  <2>1. donations \in [Tokens -> Nat] /\ hints \in [Tokens -> Nat]
    BY AmountAssumption DEF Donations, Hints
  <2>2. UNCHANGED <<led, config>>
    BY <1>1 DEF SwapAndDonate
  <2>3. CASE tx' = NoTx
    BY <1>a, <2>2, <2>3 DEF BooksInv, Sound, Natural, Covered, config, MaxProtocolFeePercentage
  <2>4. CASE tx' # NoTx
    <3>1. Kept(tx')
      BY <1>1, <1>a, <2>1, <2>4, SwapKept
    <3> QED  BY <1>a, <2>2, <3>1, BooksFrame
  <2> QED  BY <2>3, <2>4
<1>2. ASSUME NEW donations \in Donations, Donate(donations) PROVE BooksInv'
  <2>1. donations \in [Tokens -> Nat]
    BY AmountAssumption DEF Donations
  <2>2. UNCHANGED <<led, config>>
    BY <1>2 DEF Donate
  <2>3. CASE tx' = NoTx
    BY <1>a, <2>2, <2>3 DEF BooksInv, Sound, Natural, Covered, config, MaxProtocolFeePercentage
  <2>4. CASE tx' # NoTx
    <3>1. Kept(tx')
      BY <1>2, <1>a, <2>1, <2>4, DonateKept
    <3> QED  BY <1>a, <2>2, <3>1, BooksFrame
  <2> QED  BY <2>3, <2>4
<1>3. CASE SettleToken
  <2>1. /\ tx.next \in Tokens /\ Settled(tx).work.reserves[tx.next] >= 0
        /\ tx' = Settled(tx) /\ UNCHANGED <<led, config>> /\ tx.open
    BY <1>3 DEF SettleToken, CanSettle
  <2>2. Kept(Settled(tx)) /\ Settled(tx).work.pool = tx.work.pool
    BY <1>b, <1>c, <2>1, SettledKeepsBooks
  <2>3. Kept(tx')
    BY <1>c, <2>1, <2>2
  <2> QED  BY <1>a, <2>1, <2>3, BooksFrame
<1>4. CASE Commit
  <2>1. Balanced(tx) /\ led' = tx.work /\ tx' = NoTx /\ UNCHANGED config /\ tx \in Transactions
    BY <1>4, <1>c DEF Commit
  <2>2. ASSUME NEW t \in Tokens PROVE Natural(tx.work, t) /\ Covered(tx.work, t)
    BY <2>1, BalancedMovesExactly
  <2>3. Sound(led)'
    BY <2>1, <2>2 DEF Sound, Natural, Covered
  <2> QED  BY <1>a, <2>1, <2>3 DEF BooksInv, config, MaxProtocolFeePercentage
<1>5. CASE Revert
  BY <1>5, <1>a DEF Revert, BooksInv, Sound, Natural, Covered, config, MaxProtocolFeePercentage
<1>6. ASSUME NEW n \in Tokens, WithdrawFees(n) PROVE BooksInv'
  <2>0. UNCHANGED config
    BY <1>6 DEF WithdrawFees
  <2>1. CASE ~tx.open /\ CanWithdraw(led, n) /\ led' = Withdrawn(led, n) /\ UNCHANGED tx
    <3>1. Withdrawn(led, n) \in IntLedgers /\ Harmless(Withdrawn(led, n), led)
      BY <1>b, <1>d, <2>1, WithdrawnKeeps, WithdrawnHarmless
    <3> QED  BY <1>a, <2>0, <2>1, <3>1, HarmlessStep
  <2>2. CASE tx.open /\ CanWithdraw(tx.work, n)
             /\ tx' = [tx EXCEPT !.work = Withdrawn(tx.work, n)] /\ UNCHANGED led
    <3>1. /\ Withdrawn(tx.work, n) \in IntLedgers
          /\ Harmless(Withdrawn(tx.work, n), tx.work)
      BY <1>b, <1>c, <2>2, WithdrawnKeeps, WithdrawnHarmless
    <3> QED  BY <1>a, <2>0, <2>2, <3>1, HarmlessStep
  <2> QED  BY <1>6, <2>1, <2>2 DEF WithdrawFees
<1>7. ASSUME NEW n \in Tokens, Fund(n) PROVE BooksInv'
  <2>0. UNCHANGED config
    BY <1>7 DEF Fund
  <2>1. CASE ~tx.open /\ led.solver[n] > 0 /\ led' = Sent(led, n) /\ UNCHANGED tx
    <3>1. Sent(led, n) \in IntLedgers /\ Harmless(Sent(led, n), led)
      BY <1>b, <1>d, <2>1, SentKeeps, SentHarmless
    <3> QED  BY <1>a, <2>0, <2>1, <3>1, HarmlessStep
  <2>2. CASE tx.open /\ tx.work.solver[n] > 0
             /\ tx' = [tx EXCEPT !.work = Sent(tx.work, n)] /\ UNCHANGED led
    <3>1. Sent(tx.work, n) \in IntLedgers /\ Harmless(Sent(tx.work, n), tx.work)
      BY <1>c, <2>2, SentKeeps, SentHarmless
    <3> QED  BY <1>a, <2>0, <2>2, <3>1, HarmlessStep
  <2> QED  BY <1>7, <2>1, <2>2 DEF Fund
<1>8. ASSUME NEW p \in 0..FeeOne, SetProtocolFeePercentage(p) PROVE BooksInv'
  BY <1>8, <1>e DEF SetProtocolFeePercentage
<1>9. ASSUME NEW s \in Sweepers, SetFeeSweeper(s) PROVE BooksInv'
  BY <1>9, <1>e DEF SetFeeSweeper, BooksInv
<1>10. ASSUME NEW r \in Routers, SetTrustedCowRouter(r) PROVE BooksInv'
  BY <1>10, <1>e DEF SetTrustedCowRouter, BooksInv
<1>11. CASE RefreshTrustedCowRouter
  <2>0. UNCHANGED config /\ factoryRouter \in Routers
    BY <1>11, <1>b DEF RefreshTrustedCowRouter, Shape
  <2>1. CASE ~tx.open /\ led' = [led EXCEPT !.trusted = factoryRouter] /\ UNCHANGED tx
    <3> DEFINE k == [led EXCEPT !.trusted = factoryRouter]
    <3>1. k \in IntLedgers /\ Harmless(k, led)
      BY <1>b, <1>d, <2>0, RefreshHarmless DEF IntLedgers
    <3> HIDE DEF k
    <3>2. led' = k
      BY <2>1 DEF k
    <3> QED  BY <1>a, <2>0, <2>1, <3>1, <3>2, HarmlessStep
  <2>2. CASE tx.open /\ tx' = [tx EXCEPT !.work.trusted = factoryRouter] /\ UNCHANGED led
    <3> DEFINE k == [tx.work EXCEPT !.trusted = factoryRouter]
    <3>1. k \in IntLedgers /\ Harmless(k, tx.work)
      BY <1>c, <2>0, <2>2, RefreshHarmless DEF IntLedgers
    <3>2. tx' = [tx EXCEPT !.work = k]
      BY <2>2
    <3> HIDE DEF k
    <3> QED  BY <1>a, <2>0, <2>2, <3>1, <3>2, HarmlessStep
  <2> QED  BY <1>11, <2>1, <2>2 DEF RefreshTrustedCowRouter
<1>12. CASE UNCHANGED vars
  BY <1>12, <1>a DEF vars, BooksInv, Sound, Natural, Covered, Kept, Order, Books,
                     Waiting, Done, Paid, Unsettled, ProtocolFee, MulUp,
                     MaxProtocolFeePercentage
<1>13. ASSUME NEW n \in 1..LpParts, AddLiquidity(n) \/ RemoveLiquidity(n) PROVE BooksInv'
  <2>1. PICK l \in {Joined(led, n), Left(led, n)} : led' = l
    BY <1>13 DEF AddLiquidity, RemoveLiquidity
  <2>2. tx = NoTx /\ UNCHANGED <<tx, config>>
    BY <1>13, <1>b, OpenTx DEF AddLiquidity, RemoveLiquidity
  <2>3. ASSUME NEW t \in Tokens PROVE Natural(l, t) /\ Covered(l, t)
    BY <1>b, <2>1, LiquidityKeepsSound DEF Sound
  <2>4. Sound(led)'
    BY <2>1, <2>3 DEF Sound, Natural, Covered
  <2> QED  BY <1>a, <2>2, <2>4 DEF BooksInv, config, MaxProtocolFeePercentage
<1> QED
  BY <1>1, <1>2, <1>3, <1>4, <1>5, <1>6, <1>7, <1>8, <1>9, <1>10, <1>11, <1>12, <1>13,
     RemovedParts DEF Next

LEMMA BooksAlways == Spec => []BooksInv
BY InitBooks, StepBooks, PTL DEF Spec

\* The types, with every balance a natural number: nothing the router or the
\* Vault subtracts would underflow, in or out of an order.
THEOREM SettlementTypeCorrect == Spec => []TypeOK
<1>1. BooksInv => TypeOK
  <2> SUFFICES ASSUME BooksInv PROVE TypeOK
    OBVIOUS
  <2>1. Shape /\ \A t \in Tokens : Natural(led, t)
    BY DEF BooksInv, IInv, Sound
  <2>2. led \in Ledgers
    BY <2>1, NaturalLedgers DEF Shape
  <2>3. feePercentage \in 0..MaxProtocolFeePercentage
    <3>1. MaxProtocolFeePercentage \in Nat
      BY FeeAssumption DEF MaxProtocolFeePercentage
    <3>2. feePercentage \in Nat /\ feePercentage <= MaxProtocolFeePercentage
      BY <2>1 DEF BooksInv, Shape
    <3> QED  BY <3>1, <3>2
  <2>4. tx.open \in BOOLEAN
    <3>1. NoTx.open = FALSE
      BY DEF NoTx
    <3>2. tx \in Transactions => tx.open = TRUE
      BY DEF Transactions
    <3> QED  BY <2>1, <3>1, <3>2 DEF Shape
  <2>5. ASSUME tx.open
        PROVE  /\ tx.work \in Ledgers /\ tx.delta \in [Tokens -> Int]
               /\ tx.credits \in [Tokens -> Nat] /\ tx.next \in 1..(NumTokens + 1)
    <3>1. tx \in Transactions /\ Kept(tx)
      BY <2>1, <2>5, OpenTx DEF BooksInv
    <3>2. tx.work \in IntLedgers /\ \A t \in Tokens : Natural(tx.work, t)
      BY <3>1 DEF Transactions, Kept, Books
    <3>3. tx.credits \in Amounts /\ \A t \in Tokens : tx.credits[t] >= 0
      BY <3>1 DEF Transactions, Kept, Order
    <3>4. tx.credits \in [Tokens -> Nat]
      BY <3>3 DEF Amounts
    <3> QED  BY <3>1, <3>2, <3>4, NaturalLedgers DEF Transactions, Amounts
  <2> QED  BY <2>1, <2>2, <2>3, <2>4, <2>5 DEF TypeOK, Shape
<1> QED  BY <1>1, BooksAlways, PTL

\* An order whose transfers had all arrived settles token by token and ends
\* with every delta at zero, whatever the token callbacks do in between.
THEOREM FundedAlwaysSettle == Spec => []FundedOrdersSettle
<1>1. BooksInv => FundedOrdersSettle
  <2> SUFFICES ASSUME BooksInv, tx.open, tx.funded PROVE CanSettle(tx) \/ Balanced(tx)
    BY DEF FundedOrdersSettle
  <2>1. tx \in Transactions /\ Kept(tx) /\ led \in IntLedgers /\ Sound(led)
    BY OpenTx DEF BooksInv, IInv, Shape
  <2>2. CASE tx.next \in Tokens
    <3> DEFINE n == tx.next
    <3>1. /\ Order(tx, n) /\ Books(tx, n) /\ Integral(tx, n)
          /\ Natural(led, n) /\ Covered(led, n)
      BY <2>1, <2>2, TransactionIntegral DEF Kept, Sound
    <3>2. n >= n
      <4>1. n \in Nat
        BY <2>2 DEF Tokens
      <4> QED  BY <4>1
    <3>3. Waiting(tx, n)
      BY <3>1, <3>2 DEF Books
    <3>4. Settled(tx).work.reserves[n] = Held(tx, n) - tx.fees[n] - tx.credits[n]
      BY <2>1, <2>2, <3>1, SettledAt DEF Order
    <3>5. Held(tx, n) >= led.reserves[n] + tx.hints[n]
      <4>1. led.vault[n] - led.reserves[n] >= tx.hints[n] /\ tx.hints[n] >= 0
        BY <3>1 DEF Order, Unsettled
      <4>2. /\ tx.work.vault[n] >= led.vault[n] /\ tx.work.reserves[n] = led.reserves[n]
        BY <3>3 DEF Waiting
      <4>3. CASE tx.hints[n] > 0
        BY <3>1, <4>1, <4>2, <4>3 DEF Integral, Held
      <4>4. CASE ~(tx.hints[n] > 0)
        BY <3>1, <4>1, <4>2, <4>4 DEF Integral, Held
      <4> QED  BY <4>3, <4>4
    <3>6. Held(tx, n) \in Int
      BY <3>1 DEF Integral, Held
    <3>7. led.reserves[n] >= tx.out[n]
      BY <3>1 DEF Integral, Covered, Order
    <3>8. Held(tx, n) - tx.fees[n] - tx.credits[n] >= 0
      <4>1. /\ tx.credits[n] = tx.hints[n] + tx.out[n] - tx.in[n] - tx.gift[n]
            /\ tx.donated[n] = tx.gift[n] - tx.fees[n] /\ tx.donated[n] >= 0 /\ tx.in[n] >= 0
        BY <3>1 DEF Order
      <4>2. tx.fees[n] + tx.credits[n] <= tx.hints[n] + tx.out[n]
        BY <3>1, <4>1 DEF Integral
      <4> QED  BY <3>1, <3>5, <3>6, <3>7, <4>2 DEF Integral
    <3> QED  BY <2>2, <3>4, <3>8 DEF CanSettle
  <2>3. CASE tx.next \notin Tokens
    <3>1. ASSUME NEW t \in Tokens PROVE tx.delta[t] = 0
      <4>1. t < tx.next
        BY <2>1, <2>3, TokensAssumption DEF Transactions, Tokens
      <4> QED  BY <2>1, <4>1 DEF Kept, Books, Done
    <3>2. tx.delta = Zero
      BY <2>1, <3>1 DEF Transactions, Amounts, Zero
    <3> QED  BY <2>3, <3>2 DEF Balanced
  <2> QED  BY <2>2, <2>3
<1> QED  BY <1>1, BooksAlways, PTL

\* A committed order has moved, of every token, exactly what it names.
THEOREM OrdersSettleExactly == Spec => OrderSettledExactly
<1>1. ASSUME BooksInv, [Next]_vars, tx.open, led' # led, NEW t \in Tokens
      PROVE  LET fee == ProtocolFee(tx.gift[t])
             IN  /\ led'.pool[t] =
                        led.pool[t] + tx.in[t] - tx.out[t] + tx.gift[t] - fee
                 /\ Paid(led', t) = Paid(led, t) + fee
                 /\ Purse(led', t) + Stuck(led', t) =
                        Purse(led, t) + Stuck(led, t)
                            - tx.in[t] + tx.out[t] - tx.gift[t]
                 /\ Stuck(led', t) >= Stuck(led, t)
  <2>1. Commit
    BY <1>1 DEF Next, vars, SwapAndDonate, Donate, SettleToken, Revert, WithdrawFees, Fund,
                SetProtocolFeePercentage, SetFeeSweeper, SetTrustedCowRouter,
                RefreshTrustedCowRouter, AddLiquidity, RemoveLiquidity
  <2>2. Balanced(tx) /\ led' = tx.work /\ tx \in Transactions
    BY <1>1, <2>1, OpenTx DEF Commit, BooksInv, IInv
  <2> QED  BY <1>1, <2>2, BalancedMovesExactly
<1>2. BooksInv /\ [Next]_vars =>
        [tx.open /\ led' # led =>
           \A t \in Tokens :
               LET fee == ProtocolFee(tx.gift[t])
               IN  /\ led'.pool[t] =
                          led.pool[t] + tx.in[t] - tx.out[t] + tx.gift[t] - fee
                   /\ Paid(led', t) = Paid(led, t) + fee
                   /\ Purse(led', t) + Stuck(led', t) =
                          Purse(led, t) + Stuck(led, t)
                              - tx.in[t] + tx.out[t] - tx.gift[t]
                   /\ Stuck(led', t) >= Stuck(led, t)]_vars
  BY <1>1
<1> QED  BY <1>2, BooksAlways, PTL DEF Spec, OrderSettledExactly
=============================================================================
